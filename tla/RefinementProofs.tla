-------------------------- MODULE RefinementProofs --------------------------
(***************************************************************************)
(* Proofs that Converger, whatever peers, messages, keys and faults do,    *)
(* does to the search only what Convergence allows, and of what it has its *)
(* peers do: that nobody who deals out complexities leaves a peer without  *)
(* any, that a peer owes what the server thinks it is working on, and that *)
(* a new centre is always news.                                            *)
(***************************************************************************)
EXTENDS ConvergerProofs, FiniteSetTheorems

-----------------------------------------------------------------------------
(* Finds.  When the writes of the peers complete in time, every place that  *)
(* a peer has tried is no better than what the peer believes to be best, and *)
(* that is known to the server or on its way to it, ahead of what depends    *)
(* on it.                                                                   *)

NoBetter(s, Y, v) == \A y \in Y : Value[PlaceOf(s, y)] >= Target[v]

\* A find as good as v is known, or among the first n reports of `in'.
Found(s, key, in, n, v) ==
  \/ s.e_min <= v
  \/ \E j \in 1 .. n : /\ in[j].key = key /\ in[j].type = "report"
                       /\ in[j].x # NoComplexity /\ in[j].value <= v

Bests(s, key, c, out, in) ==
  /\ \A i \in 1 .. Len(out) : out[i].type # "complexity" /\ out[i].key = key =>
       s.e_min <= out[i].value /\ out[i].value <= Value[s.centre]
  /\ c.key = key /\ c # FreshPeer =>
       /\ c.e_min <= Value[s.centre] /\ NoBetter(s, c.unreported, c.e_min)
       /\ Found(s, key, in, Len(in), c.e_min)
  /\ \A i \in 1 .. Len(in) : in[i].key = key /\ in[i].type = "report" =>
       NoBetter(s, in[i].done, in[i].value) /\ Found(s, key, in, i, in[i].value)

FindsInv ==
  ~SlowWrites /\ Working /\ ~search.am_bootstrapping =>
    /\ search.e_min <= sync_msg.value /\ sync_msg.value <= Value[search.centre]
    /\ \A p \in Processing : Bests(search, io_key, peer[p], s2p[p], p2s[p])

\* Where writes complete in time nothing is ever deferred.
QuietInv == \A p \in Peers : ~SlowWrites => ~peer[p].writing /\ peer[p].deferred = NoReport

-----------------------------------------------------------------------------
(* The search, in memory and on disk, is a sound one, and a good one when    *)
(* no find is lost.                                                         *)

Fit(s, ev) == Sound(s, ev) /\ (SlowWrites \/ Good(s, ev))

FitInv ==
  /\ Waiting(search.grid) # {} => Fit(search, evaluated)
  /\ disk # NoImage => Fit(Loaded(disk), evaluated)
  /\ coroutine # "none" => Synced(search) /\ search.remaining = {}
  /\ sync_timer = "off" => Synced(search)
  /\ status = "active" /\ sync_timer = "converged" => Waiting(search.grid) = {}

LEMMA HeadIsThere ==
  ASSUME NEW T, NEW in \in Seq(T), in # <<>>
  PROVE  1 \in 1 .. Len(in) /\ Head(in) = in[1]
BY EmptySeq, LenProperties, HeadTailProperties

\* What is saved of a synced search is fit to be loaded.
LEMMA FitSaved ==
  ASSUME NEW s, NEW ev, Synced(s), Fit(s, ev)
  PROVE  Fit(Loaded(Saved(s)), ev)
BY GoodSaved DEF Fit

LEMMA FitConclude ==
  ASSUME FitInv, Elsewhere, sync_timer # "converged", NEW s, Conclude(s), Synced(s),
         Fit(s, evaluated)
  PROVE  FitInv'
<1>1. /\ search' = s /\ coroutine' = "none" /\ sync_timer' = "off" /\ evaluated' = evaluated
      /\ disk' \in {disk, Saved(s)}
  BY DEF Conclude, Elsewhere
<1>2. disk' # NoImage => Fit(Loaded(disk'), evaluated)
  BY <1>1, FitSaved DEF FitInv
<1> QED BY <1>1, <1>2 DEF FitInv

LEMMA FitMerged ==
  ASSUME NEW s, NEW ev, Fit(s, ev)
  PROVE  /\ s.e_min_complexity = NoComplexity => Fit(Merged(s), ev) /\ Synced(Merged(s))
         /\ s.e_min_complexity # NoComplexity =>
              Fit(Recentred(Merged(s)), ev) /\ Synced(Recentred(Merged(s)))
BY GoodMerged, GoodRecentred DEF Fit

LEMMA FitSyncTimeout ==
  ASSUME TypeInv, FitInv, SyncTimeout
  PROVE  FitInv'
<1> DEFINE s == Merged(search)
           r == Recentred(s)
           x == search.e_min_complexity
<1>1. /\ status = "active" /\ sync_timer = "sync" /\ coroutine = "none" /\ Elsewhere
      /\ Waiting(search.grid) # {}
  BY DEF SyncTimeout, TypeInv, Steady, Elsewhere
<1>2. Fit(search, evaluated)
  BY <1>1 DEF FitInv
<1>3. /\ x = NoComplexity => Fit(s, evaluated) /\ Synced(s)
      /\ x # NoComplexity => Fit(r, evaluated) /\ Synced(r)
  BY <1>2, FitMerged
<1>4. \/ /\ x # NoComplexity /\ r.remaining = {}
         /\ Yield("recentre", r, MergedLinks, x)
      \/ x # NoComplexity /\ SendRecentre(r, MergedLinks, x)
      \/ /\ x = NoComplexity /\ s.remaining = {}
         /\ Yield("level", s, MergedLinks, NoComplexity)
      \/ /\ x = NoComplexity
         /\ SendComplexities(s, MergedLinks) \/ SendAssisted(s, MergedLinks, Assisted)
  BY DEF SyncTimeout
<1> HIDE DEF r, s, x
<1>5. CASE \/ /\ x # NoComplexity /\ r.remaining = {} /\ Yield("recentre", r, MergedLinks, x)
           \/ /\ x = NoComplexity /\ s.remaining = {}
              /\ Yield("level", s, MergedLinks, NoComplexity)
  BY <1>1, <1>3, <1>5 DEF Yield, FitInv, Elsewhere
<1>6. CASE x # NoComplexity /\ SendRecentre(r, MergedLinks, x)
  BY <1>1, <1>3, <1>6, FitConclude DEF SendRecentre
<1>7. CASE /\ x = NoComplexity
           /\ SendComplexities(s, MergedLinks) \/ SendAssisted(s, MergedLinks, Assisted)
  BY <1>1, <1>3, <1>7, FitConclude DEF SendComplexities, SendAssisted
<1> QED BY <1>4, <1>5, <1>6, <1>7

LEMMA FitResumeCoroutine ==
  ASSUME TypeInv, FitInv, ResumeCoroutine
  PROVE  FitInv'
<1> DEFINE s == Advanced(search)
<1>1. /\ status = "active" /\ coroutine # "none" /\ Elsewhere /\ Waiting(search.grid) # {}
      /\ sync_timer # "converged"
  BY DEF ResumeCoroutine, TypeInv, Steady, Elsewhere
<1>2. Fit(search, evaluated) /\ Synced(search) /\ search.remaining = {}
  BY <1>1 DEF FitInv
<1>3. /\ s \in Search /\ s.grid = search.grid /\ Synced(s)
      /\ s.level # NoLevel => Fit(s, evaluated)
  BY <1>1, <1>2, GoodAdvanced DEF Fit
<1>4. \/ s.level = NoLevel /\ SendShrunk(Shrunk(s), link)
      \/ /\ s.level # NoLevel
         /\ SendRecentre(s, link, recentre_x) \/ SendComplexities(s, link)
  BY DEF ResumeCoroutine
<1> HIDE DEF s
<1>5. CASE s.level = NoLevel /\ SendShrunk(Shrunk(s), link)
  <2> DEFINE z == Shrunk(s)
  <2>1. Fit(z, evaluated) /\ Synced(z)
    BY <1>1, <1>3, GoodShrunk DEF Fit, Good
  <2>2. SendShrunk(z, link)
    BY <1>5
  <2> HIDE DEF z
  <2>3. CASE Waiting(z.grid) = {}
    <3>1. Fit(Loaded(Saved(z)), evaluated)
      BY <2>1, FitSaved
    <3> QED BY <1>1, <2>2, <2>3, <3>1 DEF SendShrunk, FitInv, Elsewhere
  <2>4. CASE Waiting(z.grid) # {}
    BY <1>1, <2>1, <2>2, <2>4, FitConclude DEF SendShrunk
  <2> QED BY <2>3, <2>4
<1>6. CASE s.level # NoLevel /\ (SendRecentre(s, link, recentre_x) \/ SendComplexities(s, link))
  BY <1>1, <1>3, <1>6, FitConclude DEF SendRecentre, SendComplexities
<1> QED BY <1>4, <1>5, <1>6

\* The location of a bootstrapping report was evaluated, on the grid as it is.
LEMMA FitBootReport ==
  ASSUME TypeInv, KeyInv, WorkInv, FitInv, NEW p \in Peers, ReportArrives(p), NEW m,
         m = Head(p2s[p]), m.key = io_key, m.type = "boot",
         NEW lk, lk = [link EXCEPT ![p].echo = m.key], OnBootstrappingReport(m, lk)
  PROVE  FitInv'
<1> DEFINE s == Bootstrapped(search, m.place, m.value)
<1>1. /\ status = "active" /\ Elsewhere /\ disk' = disk /\ coroutine = "none"
      /\ coroutine' = coroutine /\ p \in Processing /\ m.place \in Place
      /\ m.value \in Likelihood /\ p2s[p] \in Seq(Report) /\ p2s[p] # <<>>
  BY ReportRead
<1>2. search' = s /\ sync_timer' = PostedTimer
  BY DEF OnBootstrappingReport
<1>3. s.grid = search.grid
  <2>1. search \in Search
    BY DEF TypeInv, SearchTypes
  <2> QED BY <1>1, <2>1, BootstrappedSearch, ZenonT(40)
<1>4. CASE sync_timer = "converged"
  <2>1. Waiting(search.grid) = {}
    BY <1>1, <1>4 DEF FitInv
  <2> HIDE DEF s
  <2> QED BY <1>1, <1>2, <1>3, <1>4, <2>1 DEF FitInv, Elsewhere, PostedTimer
<1>5. CASE sync_timer # "converged"
  <2>1. Running /\ Working /\ Waiting(search.grid) # {}
    BY <1>1, <1>5 DEF Running, Working, TypeInv, Steady
  <2>2. m \in Outstanding(p)
    BY <1>1, HeadIsThere DEF Outstanding
  <2>3. Honest(search, evaluated, m)
    BY <1>1, <2>1, <2>2 DEF WorkInv, HonestPeer
  <2>4. m.value = Value[m.place] /\ <<search.grid, m.place>> \in evaluated
    BY <2>3 DEF Honest
  <2>5. search.am_bootstrapping
    BY <1>1, <2>1, <2>2, ReporterKnows DEF TypeFor, SenseOfKey
  <2>6. Good(Bootstrapped(search, m.place, Value[m.place]), evaluated)
    BY <1>1, <2>1, <2>4, <2>5, GoodBootstrapped DEF FitInv, Fit
  <2>7. Fit(s, evaluated)
    BY <2>4, <2>6 DEF Fit, Good
  <2> HIDE DEF s
  <2> QED BY <1>1, <1>2, <1>5, <2>7 DEF FitInv, Elsewhere, PostedTimer
<1> QED BY <1>4, <1>5

\* Of what a peer has done nothing is better than what it reports, or the server knows.
LEMMA FitPeerReport ==
  ASSUME TypeInv, KeyInv, WorkInv, FindsInv, FitInv, NEW p \in Peers, ReportArrives(p), NEW m,
         m = Head(p2s[p]), m.key = io_key, m.type = "report",
         NEW lk, lk = [link EXCEPT ![p].echo = m.key], OnPeerReport(p, m, lk)
  PROVE  FitInv'
<1> DEFINE s == Reported(search, m.value, m.x, m.done)
<1>1. /\ status = "active" /\ Elsewhere /\ disk' = disk /\ coroutine = "none"
      /\ coroutine' = coroutine /\ p \in Processing /\ m.value \in Likelihood
      /\ m.done \in SUBSET Complexity /\ m.x \in Complexity \cup {NoComplexity}
      /\ p2s[p] \in Seq(Report) /\ p2s[p] # <<>>
  BY ReportRead
<1>2. search' = s /\ sync_timer' = PostedTimer
  BY DEF OnPeerReport
<1>3. search \in Search /\ s.grid = search.grid
  BY ReportedGrid DEF TypeInv, SearchTypes
<1>4. CASE sync_timer = "converged"
  <2>1. Waiting(search.grid) = {}
    BY <1>1, <1>4 DEF FitInv
  <2> HIDE DEF s
  <2> QED BY <1>1, <1>2, <1>3, <1>4, <2>1 DEF FitInv, Elsewhere, PostedTimer
<1>5. CASE sync_timer # "converged"
  <2>1. Running /\ Working /\ Waiting(search.grid) # {} /\ Fit(search, evaluated)
    BY <1>1, <1>5 DEF Running, Working, TypeInv, Steady, FitInv
  <2>2. m \in Outstanding(p)
    BY <1>1, HeadIsThere DEF Outstanding
  <2>3. Honest(search, evaluated, m)
    BY <1>1, <2>1, <2>2 DEF WorkInv, HonestPeer
  <2>4. ~search.am_bootstrapping
    BY <1>1, <2>1, <2>2, ReporterKnows DEF TypeFor, SenseOfKey
  <2>5. search.centre \in search.visited
    BY <2>1, <2>4 DEF Fit, Sound, Phase
  <2>6. /\ m.x \in m.done \cup {NoComplexity}
        /\ m.x # NoComplexity => m.value = Value[PlaceOf(search, m.x)]
        /\ \A y \in m.done : PlaceOf(search, y) \in search.visited
                             \/ <<search.grid, PlaceOf(search, y)>> \in evaluated
    BY <2>3, <2>5 DEF Honest, Seen
  <2>7. Sound(s, evaluated)
    BY <1>1, <2>1, <2>4, <2>6, SoundReported DEF Fit
  <2>8. ASSUME ~SlowWrites PROVE Good(s, evaluated)
    <3>1. /\ NoBetter(search, m.done, m.value)
          /\ search.e_min <= m.value \/ m.x # NoComplexity
      <4>1. Bests(search, io_key, peer[p], s2p[p], p2s[p])
        BY <1>1, <2>1, <2>4, <2>8 DEF FindsInv
      <4>2. 1 \in 1 .. Len(p2s[p]) /\ m = p2s[p][1]
        BY <1>1, HeadIsThere
      <4>3. NoBetter(search, m.done, m.value) /\ Found(search, io_key, p2s[p], 1, m.value)
        BY <4>1, <4>2 DEF Bests
      <4> QED BY <4>2, <4>3 DEF Found
    <3>2. s.e_min <= m.value /\ s.e_min \in Likelihood
      <4>1. s.e_min = IF m.x # NoComplexity /\ m.value < search.e_min
                      THEN m.value ELSE search.e_min
        BY <1>1, <1>3, ReportedMinimum
      <4>3. s \in Search
        BY <2>7 DEF Sound
      <4>2. m.value \in Int /\ search.e_min \in Int
        BY <1>1, <1>3, LikelihoodFacts DEF Search
      <4> HIDE DEF s
      <4> QED BY <3>1, <4>1, <4>2, <4>3 DEF Search
    <3>3. \A y \in m.done : Value[PlaceOf(search, y)] >= Target[s.e_min]
      <4>1. Target[s.e_min] <= Target[m.value] /\ Target[s.e_min] \in Int /\ Target[m.value] \in Int
        BY <1>1, <3>2, LikelihoodFacts
      <4>2. ASSUME NEW y \in m.done PROVE Value[PlaceOf(search, y)] \in Int
        <5>1. PlaceOf(search, y) \in Place
          BY <1>1, <1>3, PlaceOfIsAPlace
        <5> QED BY <5>1, LikelihoodFacts
      <4> HIDE DEF s
      <4> QED BY <3>1, <4>1, <4>2 DEF NoBetter
    <3> QED BY <1>1, <2>1, <2>4, <2>6, <2>8, <3>3, GoodReported DEF Fit
  <2>9. Fit(s, evaluated)
    BY <2>7, <2>8 DEF Fit
  <2> HIDE DEF s
  <2> QED BY <1>1, <1>2, <1>5, <2>9 DEF FitInv, Elsewhere, PostedTimer
<1> QED BY <1>4, <1>5

\* Steps that do nothing to the search but may put off its next sync, or see more of it.
LEMMA FitApart ==
  ASSUME FitInv, UNCHANGED <<status, disk, search, coroutine>>, evaluated \subseteq evaluated',
         sync_timer' = sync_timer \/ (sync_timer' = "sync" /\ sync_timer # "converged")
  PROVE  FitInv'
<1>1. \A s : Fit(s, evaluated) => Fit(s, evaluated')
  BY GoodWithMoreEvaluated DEF Fit
<1> QED BY <1>1 DEF FitInv

LEMMA FitSaveTimeout ==
  ASSUME TypeInv, FitInv, SaveTimeout
  PROVE  FitInv'
<1>1. /\ UNCHANGED <<search, coroutine, sync_timer, status, evaluated>> /\ status = "active"
      /\ disk' = disk \/ (sync_timer = "off" /\ disk' = Saved(search))
  BY DEF SaveTimeout
<1>2. disk' # NoImage => Fit(Loaded(disk'), evaluated)
  <2>1. sync_timer = "off" => Synced(search) /\ Fit(search, evaluated)
    BY <1>1 DEF FitInv, TypeInv, Steady
  <2> QED BY <1>1, <2>1, FitSaved DEF FitInv
<1> QED BY <1>1, <1>2 DEF FitInv

LEMMA FitLeaving ==
  ASSUME TypeInv, FitInv, OnConverged \/ Deactivate \/ Crash
  PROVE  FitInv'
<1>1. /\ StartFrom(FreshSearch) /\ status' # "active" /\ evaluated' = evaluated
      /\ \/ disk' = disk
         \/ coroutine = "none" /\ sync_timer = "sync" /\ disk' = Saved(RunThrough(search))
         \/ coroutine = "none" /\ sync_timer = "off" /\ disk' = Saved(search)
      /\ status = "active"
  BY DEF OnConverged, Deactivate, Crash
<1>2. Fit(FreshSearch, evaluated) /\ Synced(FreshSearch)
  BY FreshIsGood DEF Fit, Good
<1>3. search' = FreshSearch /\ coroutine' = "none" /\ sync_timer' = "off"
  BY <1>1 DEF StartFrom
<1>4. disk' # NoImage => Fit(Loaded(disk'), evaluated)
  <2>1. CASE sync_timer = "sync" /\ disk' = Saved(RunThrough(search))
    <3>1. Waiting(search.grid) # {}
      BY <1>1, <2>1 DEF TypeInv, Steady
    <3>2. Fit(search, evaluated)
      BY <3>1 DEF FitInv
    <3>3. Fit(RunThrough(search), evaluated) /\ Synced(RunThrough(search))
      BY <3>1, <3>2, GoodRunThrough DEF Fit
    <3> QED BY <2>1, <3>3, FitSaved
  <2>2. CASE sync_timer = "off" /\ disk' = Saved(search)
    BY <1>1, <2>2, FitSaved DEF FitInv, TypeInv, Steady
  <2>3. CASE disk' = disk
    BY <2>3 DEF FitInv
  <2> QED BY <1>1, <2>1, <2>2, <2>3
<1> QED BY <1>1, <1>2, <1>3, <1>4 DEF FitInv

LEMMA FitActivate ==
  ASSUME TypeInv, FitInv, Activate
  PROVE  FitInv'
<1>1. evaluated' = evaluated /\ disk' = disk
  BY DEF Activate
<1>2. CASE status' = "failed" /\ UNCHANGED serverVars
  BY <1>1, <1>2 DEF FitInv, serverVars
<1>3. ASSUME NEW s, StartFrom(s), Fit(s, evaluated), Synced(s) PROVE FitInv'
  BY <1>1, <1>3 DEF FitInv, StartFrom
<1>4. CASE disk = NoImage
  BY <1>3, <1>4, FreshIsGood DEF Activate, Fit, Good
<1>5. CASE disk # NoImage /\ Waiting(disk.grid) # {}
  <2>1. Synced(Loaded(disk))
    BY DEF Synced, Loaded
  <2> QED BY <1>3, <1>5, <2>1 DEF Activate, FitInv
<1>6. CASE disk # NoImage /\ Waiting(disk.grid) = {}
  BY <1>2, <1>6 DEF Activate
<1> QED BY <1>4, <1>5, <1>6

LEMMA FitInit == Init => FitInv
<1>1. \A ev : Fit(FreshSearch, ev) /\ Synced(FreshSearch)
  BY FreshIsGood DEF Fit, Good
<1> QED BY <1>1 DEF Init, FitInv

LEMMA FitNext ==
  TypeInv /\ KeyInv /\ WorkInv /\ FindsInv /\ FitInv /\ [Next]_vars => FitInv'
<1>1. SUFFICES ASSUME TypeInv, KeyInv, WorkInv, FindsInv, FitInv, [Next]_vars PROVE FitInv'
  OBVIOUS
<1>2. CASE UNCHANGED vars
  BY <1>1, <1>2, FitApart DEF vars, serverVars, taskVars
<1>3. ASSUME NEW p \in Peers, PeerStep(p) PROVE FitInv'
  <2>1. PeerUnchanged
    BY <1>3 DEF PeerStep, PeerReads, SkipIteration, ProcessNothing, Process, Bootstrap,
                PeerWriteDone, RollbackTimeout
  <2>2. evaluated \subseteq evaluated'
    BY <1>3 DEF PeerStep, PeerReads, SkipIteration, ProcessNothing, Process, Bootstrap,
                PeerWriteDone, RollbackTimeout
  <2> QED BY <1>1, <2>1, <2>2, FitApart DEF PeerUnchanged, serverVars, taskVars
<1>4. ASSUME NEW p \in Peers, Join(p) \/ Leave(p) \/ Lapse(p) \/ ServerWriteDone(p)
      PROVE  FitInv'
  <2>1. /\ UNCHANGED <<status, disk, search, coroutine, evaluated>>
        /\ sync_timer' \in {sync_timer, PostedTimer}
    BY <1>4 DEF Join, Leave, Lapse, Lose, ServerWriteDone, serverVars, taskVars
  <2>2. sync_timer \in {"off", "sync", "converged"}
    BY <1>1 DEF TypeInv, SearchTypes
  <2> QED BY <1>1, <2>1, <2>2, FitApart DEF PostedTimer
<1>5. ASSUME NEW p \in Peers, ReportArrives(p) PROVE FitInv'
  <2> DEFINE m == Head(p2s[p])
             lk == [link EXCEPT ![p].echo = m.key]
  <2>1. CASE m.key = io_key /\ m.type = "boot" /\ OnBootstrappingReport(m, lk)
    BY <1>1, <1>5, <2>1, FitBootReport
  <2>2. CASE m.key = io_key /\ m.type = "report" /\ OnPeerReport(p, m, lk)
    BY <1>1, <1>5, <2>2, FitPeerReport
  <2>3. CASE m.key # io_key /\ UNCHANGED <<search, sync_timer>>
    <3>1. UNCHANGED <<status, disk, coroutine, evaluated>>
      BY <1>5 DEF ReportArrives, taskVars
    <3> QED BY <1>1, <2>3, <3>1, FitApart
  <2> QED BY <1>5, <2>1, <2>2, <2>3 DEF ReportArrives
<1> QED BY <1>1, <1>2, <1>3, <1>4, <1>5, FitSyncTimeout, FitResumeCoroutine, FitSaveTimeout,
           FitLeaving, FitActivate DEF Next, ServerStep

-----------------------------------------------------------------------------
(* Where the writes complete in time nothing is put off.                    *)

LEMMA QuietNext == TypeInv /\ QuietInv /\ [Next]_vars => QuietInv'
<1>1. SUFFICES ASSUME TypeInv, QuietInv, [Next]_vars, ~SlowWrites, NEW q \in Peers
               PROVE  ~peer'[q].writing /\ peer'[q].deferred = NoReport
  BY DEF QuietInv
<1>2. /\ ~peer[q].writing /\ peer[q].deferred = NoReport
      /\ ~FreshPeer.writing /\ FreshPeer.deferred = NoReport
      /\ peer \in [Peers -> PeerState]
  BY <1>1 DEF QuietInv, FreshPeer, TypeInv, NetTypes
<1>3. CASE peer'[q] \in {peer[q], FreshPeer}
  BY <1>2, <1>3
<1>4. ASSUME NEW gone, Forget(gone) PROVE peer'[q] \in {peer[q], FreshPeer}
  BY <1>4 DEF Forget
<1>5. CASE UNCHANGED peer
  BY <1>3, <1>5
<1>6. CASE NoConnections
  BY <1>3, <1>6 DEF NoConnections
<1>7. CASE ServerStep
  <2>1. CASE SyncTimeout \/ ResumeCoroutine
    <3>1. UNCHANGED peer \/ \E gone : ForgetWithReports(gone)
      BY <2>1 DEF SyncTimeout, ResumeCoroutine, Yield, SendRecentre, SendComplexities,
                  SendAssisted, SendShrunk, Keep
    <3> QED BY <1>3, <1>4, <1>5, <3>1 DEF ForgetWithReports
  <2>2. ASSUME NEW p \in Peers, ReportArrives(p) PROVE UNCHANGED peer \/ \E gone : Forget(gone)
    BY <2>2 DEF ReportArrives, OnBootstrappingReport, OnPeerReport
  <2>3. ASSUME NEW p \in Peers, Join(p) \/ Leave(p) \/ Lapse(p) \/ ServerWriteDone(p)
        PROVE  UNCHANGED peer \/ \E gone : Forget(gone)
    BY <2>3 DEF Join, Leave, Lapse, Lose, ServerWriteDone
  <2>4. CASE SaveTimeout \/ Activate
    BY <1>5, <2>4 DEF SaveTimeout, Activate, netVars
  <2>5. CASE OnConverged \/ Deactivate \/ Crash
    BY <1>6, <2>5 DEF OnConverged, Deactivate, Crash
  <2> QED BY <1>3, <1>4, <1>5, <1>7, <2>1, <2>2, <2>3, <2>4, <2>5 DEF ServerStep
<1>8. ASSUME NEW p \in Peers, PeerStep(p) PROVE ~peer'[q].writing /\ peer'[q].deferred = NoReport
  <2>1. ASSUME NEW d, peer' = [peer EXCEPT ![p] = d], ~d.writing, d.deferred = NoReport
        PROVE  ~peer'[q].writing /\ peer'[q].deferred = NoReport
    BY <1>2, <2>1
  <2>2. ~peer[p].writing /\ peer[p].deferred = NoReport
    BY <1>1 DEF QuietInv
  <2>3. CASE PeerReads(p)
    <3>1. PICK d \in PeerState : Read(p, d)
      BY <1>1, <2>3, PeerReadsNews
    <3>2. peer' = [peer EXCEPT ![p] = d] /\ ~d.writing /\ d.deferred = NoReport
      BY <2>2, <3>1 DEF Read
    <3> QED BY <2>1, <3>2
  <2>4. CASE Process(p)
    <3>1. PICK x \in Complexity, better \in BOOLEAN, d \in PeerState, m \in PeerReport :
            Tried(p, x, better, d, m)
      BY <1>1, <2>4, ProcessTries
    <3>2. peer' = [peer EXCEPT ![p] = d] /\ ~d.writing /\ d.deferred = NoReport
      BY <1>1, <2>2, <3>1 DEF Tried, Told, KeptQuiet
    <3> QED BY <2>1, <3>2
  <2>5. CASE Bootstrap(p)
    <3>1. PICK pl \in Place, d \in PeerState, m \in BootReport : Drawn(p, pl, d, m)
      BY <1>1, <2>5, BootstrapDraws
    <3>2. peer' = [peer EXCEPT ![p] = d] /\ ~d.writing /\ d.deferred = NoReport
      BY <1>1, <2>2, <3>1 DEF Drawn, Told
    <3> QED BY <2>1, <3>2
  <2>6. CASE SkipIteration(p) \/ ProcessNothing(p) \/ RollbackTimeout(p)
    <3>1. PICK d \in PeerState : Idled(p, d)
      BY <1>1, <2>6, TimersIdle
    <3>2. peer' = [peer EXCEPT ![p] = d] /\ ~d.writing /\ d.deferred = NoReport
      BY <2>2, <3>1 DEF Idled, KeptQuiet
    <3> QED BY <2>1, <3>2
  <2>7. ~PeerWriteDone(p)
    BY <2>2 DEF PeerWriteDone
  <2> QED BY <1>8, <2>3, <2>4, <2>5, <2>6, <2>7 DEF PeerStep
<1> QED BY <1>1, <1>5, <1>7, <1>8 DEF Next, vars, netVars

-----------------------------------------------------------------------------
(* What one step does to what one peer believes to be best.                 *)

\* A better find of the server's is as good for what depends on a find.
LEMMA FoundMore ==
  ASSUME NEW s \in Search, NEW r \in Search, r.e_min <= s.e_min, NEW key, NEW in,
         NEW n \in Nat, NEW k \in Nat, n <= k, NEW v \in Likelihood, NEW w \in Likelihood, v <= w,
         \A j \in 1 .. n : in[j].key = key => in[j].value \in Likelihood,
         Found(s, key, in, n, v)
  PROVE  Found(r, key, in, k, w)
<1>1. r.e_min \in Int /\ s.e_min \in Int /\ v \in Int /\ w \in Int
  BY LikelihoodFacts DEF Search
<1>2. CASE s.e_min <= v
  BY <1>1, <1>2 DEF Found
<1>3. CASE \E j \in 1 .. n : /\ in[j].key = key /\ in[j].type = "report"
                             /\ in[j].x # NoComplexity /\ in[j].value <= v
  <2>1. PICK j \in 1 .. n : /\ in[j].key = key /\ in[j].type = "report"
                            /\ in[j].x # NoComplexity /\ in[j].value <= v
    BY <1>3
  <2>2. in[j].value \in Int /\ j \in 1 .. k
    BY <2>1, LikelihoodFacts
  <2>3. in[j].value <= w
    BY <1>1, <2>1, <2>2
  <2> QED BY <2>1, <2>2, <2>3 DEF Found
<1> QED BY <1>2, <1>3 DEF Found

LEMMA NoBetterMore ==
  ASSUME NEW s \in Search, NEW r, r.grid = s.grid, r.centre = s.centre,
         NEW v \in Likelihood, NEW w \in Likelihood, w <= v,
         NEW Y \in SUBSET Complexity, NoBetter(s, Y, v)
  PROVE  NoBetter(r, Y, w)
<1>1. Target[v] \in Int /\ Target[w] \in Int /\ Target[w] <= Target[v]
  BY LikelihoodFacts
<1>2. ASSUME NEW y \in Y PROVE Value[PlaceOf(r, y)] >= Target[w]
  <2>1. PlaceOf(r, y) = PlaceOf(s, y)
    BY DEF PlaceOf
  <2>2. PlaceOf(s, y) \in Place
    BY PlaceOfIsAPlace
  <2>3. Value[PlaceOf(s, y)] \in Int
    BY <2>2, LikelihoodFacts
  <2> QED BY <1>1, <2>1, <2>3 DEF NoBetter
<1> QED BY <1>2 DEF NoBetter

LEMMA BestsKept ==
  ASSUME NEW s \in Search, NEW r \in Search, r.e_min <= s.e_min,
         r.grid = s.grid, r.centre = s.centre,
         NEW key, NEW c \in PeerState, NEW out \in Seq(Sent), NEW in \in Seq(Report),
         Bests(s, key, c, out, in)
  PROVE  Bests(r, key, c, out, in)
<1>1. /\ Len(in) \in Nat /\ \A i \in 1 .. Len(in) : in[i] \in Report
      /\ Len(out) \in Nat /\ \A i \in 1 .. Len(out) : out[i] \in Sent
  BY LenProperties
<1>2. \A m \in Report : /\ m.value \in Likelihood
                        /\ m.type = "report" => m.done \in SUBSET Complexity
  BY DEF Report, BootReport, PeerReport
<1>3. c.e_min \in Likelihood /\ c.unreported \in SUBSET Complexity
  BY DEF PeerState
<1>4. ASSUME NEW i \in 1 .. Len(out), out[i].type # "complexity", out[i].key = key
      PROVE  r.e_min <= out[i].value /\ out[i].value <= Value[r.centre]
  <2>1. out[i].value \in Likelihood
    BY <1>1, <1>4 DEF Sent, StateSync, RecentreOnly, ComplexityOnly
  <2>2. out[i].value \in Int /\ r.e_min \in Int /\ s.e_min \in Int
    BY <2>1, LikelihoodFacts DEF Search
  <2> QED BY <1>4, <2>2 DEF Bests
<1>5. ASSUME c.key = key, c # FreshPeer
      PROVE  /\ c.e_min <= Value[r.centre] /\ NoBetter(r, c.unreported, c.e_min)
             /\ Found(r, key, in, Len(in), c.e_min)
  <2>1. /\ c.e_min <= Value[s.centre] /\ NoBetter(s, c.unreported, c.e_min)
        /\ Found(s, key, in, Len(in), c.e_min)
    BY <1>5 DEF Bests
  <2>2. c.e_min <= c.e_min
    BY <1>3, LikelihoodFacts
  <2>3. NoBetter(r, c.unreported, c.e_min)
    BY <1>3, <2>1, <2>2, NoBetterMore
  <2>4. Found(r, key, in, Len(in), c.e_min)
    BY <1>1, <1>2, <1>3, <2>1, <2>2, FoundMore
  <2> QED BY <2>1, <2>3, <2>4
<1>6. ASSUME NEW i \in 1 .. Len(in), in[i].key = key, in[i].type = "report"
      PROVE  NoBetter(r, in[i].done, in[i].value) /\ Found(r, key, in, i, in[i].value)
  <2> DEFINE v == in[i].value
             Y == in[i].done
  <2>1. NoBetter(s, Y, v) /\ Found(s, key, in, i, v)
    BY <1>6 DEF Bests
  <2>2. v \in Likelihood /\ Y \in SUBSET Complexity /\ i \in Nat /\ i <= i
    BY <1>1, <1>2, <1>6
  <2>3. \A j \in 1 .. i : in[j].key = key => in[j].value \in Likelihood
    BY <1>1, <1>2
  <2> HIDE DEF v, Y
  <2>4. v <= v
    BY <2>2, LikelihoodFacts
  <2>5. NoBetter(r, Y, v)
    BY <2>1, <2>2, <2>4, NoBetterMore
  <2>6. Found(r, key, in, i, v)
    BY <2>1, <2>2, <2>3, <2>4, FoundMore
  <2> QED BY <2>5, <2>6 DEF v, Y
<1> QED BY <1>4, <1>5, <1>6 DEF Bests

LEMMA BestsSent ==
  ASSUME NEW s, NEW key, NEW c, NEW out \in Seq(Sent), NEW in, NEW n \in Sent,
         n.type # "complexity" /\ n.key = key =>
           s.e_min <= n.value /\ n.value <= Value[s.centre],
         Bests(s, key, c, out, in)
  PROVE  Bests(s, key, c, Append(out, n), in)
<1>1. \A i \in 1 .. Len(Append(out, n)) :
        (i \in 1 .. Len(out) /\ Append(out, n)[i] = out[i]) \/ Append(out, n)[i] = n
  BY AppendProperties, LenProperties
<1> QED BY <1>1 DEF Bests

\* When a report is heard the server has found what the report says was found.
LEMMA BestsHeard ==
  ASSUME NEW s \in Search, NEW r \in Search, r.e_min <= s.e_min,
         r.grid = s.grid, r.centre = s.centre,
         NEW key, NEW c \in PeerState, NEW out \in Seq(Sent), NEW in \in Seq(Report), in # <<>>,
         NEW m, m = Head(in),
         m.key = key /\ m.type = "report" /\ m.x # NoComplexity => r.e_min <= m.value,
         Bests(s, key, c, out, in)
  PROVE  Bests(r, key, c, out, Tail(in))
<1>1. Bests(r, key, c, out, in)
  BY BestsKept
<1> DEFINE t == Tail(in)
<1>2. /\ Len(in) \in Nat \ {0} /\ \A i \in 1 .. Len(in) : in[i] \in Report
      /\ Len(t) = Len(in) - 1 /\ m = in[1]
      /\ \A i \in 1 .. Len(t) : t[i] = in[i + 1] /\ i + 1 \in 1 .. Len(in)
  BY EmptySeq, LenProperties, HeadTailProperties
<1> HIDE DEF t
<1>3. \A n \in Report : n.value \in Likelihood
  BY DEF Report, BootReport, PeerReport
<1>4. ASSUME NEW n \in 1 .. Len(in), NEW v \in Likelihood, Found(r, key, in, n, v)
      PROVE  Found(r, key, t, n - 1, v)
  <2>1. CASE r.e_min <= v
    BY <2>1 DEF Found
  <2>2. ASSUME NEW j \in 1 .. n, in[j].key = key, in[j].type = "report",
               in[j].x # NoComplexity, in[j].value <= v
        PROVE  Found(r, key, t, n - 1, v)
    <3>1. CASE j = 1
      <4>1. r.e_min <= m.value /\ m.value <= v
        BY <1>2, <2>2, <3>1
      <4>2. r.e_min \in Int /\ m.value \in Int /\ v \in Int
        BY <1>2, <1>3, LikelihoodFacts DEF Search
      <4> QED BY <4>1, <4>2 DEF Found
    <3>2. CASE j # 1
      <4>1. j - 1 \in 1 .. n - 1 /\ j - 1 \in 1 .. Len(t) /\ (j - 1) + 1 = j
        BY <1>2, <2>2, <3>2
      <4>2. t[j - 1] = in[j]
        BY <1>2, <4>1
      <4> QED BY <2>2, <4>1, <4>2 DEF Found
    <3> QED BY <3>1, <3>2
  <2> QED BY <1>4, <2>1, <2>2 DEF Found
<1>5. ASSUME c.key = key, c # FreshPeer PROVE Found(r, key, t, Len(t), c.e_min)
  <2>1. Found(r, key, in, Len(in), c.e_min) /\ c.e_min \in Likelihood
    BY <1>1, <1>5 DEF Bests, PeerState
  <2> QED BY <1>2, <1>4, <2>1
<1>6. ASSUME NEW i \in 1 .. Len(t), t[i].key = key, t[i].type = "report"
      PROVE  NoBetter(r, t[i].done, t[i].value) /\ Found(r, key, t, i, t[i].value)
  <2>1. t[i] = in[i + 1] /\ i + 1 \in 1 .. Len(in) /\ (i + 1) - 1 = i
    BY <1>2
  <2>2. /\ NoBetter(r, in[i + 1].done, in[i + 1].value)
        /\ Found(r, key, in, i + 1, in[i + 1].value)
    BY <1>1, <1>6, <2>1 DEF Bests
  <2>3. in[i + 1].value \in Likelihood
    BY <1>2, <1>3, <2>1
  <2> QED BY <1>4, <2>1, <2>2, <2>3
<1> QED BY <1>1, <1>5, <1>6 DEF Bests, t

\* A peer that hears of a new centre takes the server's best find for its own.
LEMMA BestsRead ==
  ASSUME NEW s, NEW key, NEW c, NEW d, NEW out \in Seq(Sent), out # <<>>,
         NEW in, NEW m, m = Head(out), Bests(s, key, c, out, in),
         \/ /\ m.type # "complexity" /\ d.key = m.key /\ d.unreported = {} /\ d.e_min = m.value
         \/ /\ d.key = c.key /\ d.unreported = c.unreported /\ d.e_min = c.e_min
            /\ c = FreshPeer => c.key # key
  PROVE  Bests(s, key, d, Tail(out), in)
<1> DEFINE t == Tail(out)
<1>1. /\ Len(out) \in Nat \ {0} /\ m = out[1]
      /\ \A i \in 1 .. Len(t) : t[i] = out[i + 1] /\ i + 1 \in 1 .. Len(out)
  BY EmptySeq, LenProperties, HeadTailProperties
<1> HIDE DEF t
<1>2. \A i \in 1 .. Len(t) : t[i].type # "complexity" /\ t[i].key = key =>
        s.e_min <= t[i].value /\ t[i].value <= Value[s.centre]
  BY <1>1 DEF Bests
<1>3. ASSUME d.key = key, d # FreshPeer
      PROVE  /\ d.e_min <= Value[s.centre] /\ NoBetter(s, d.unreported, d.e_min)
             /\ Found(s, key, in, Len(in), d.e_min)
  <2>1. CASE /\ m.type # "complexity" /\ d.key = m.key /\ d.unreported = {} /\ d.e_min = m.value
    <3>1. s.e_min <= m.value /\ m.value <= Value[s.centre]
      BY <1>1, <1>3, <2>1 DEF Bests
    <3> QED BY <2>1, <3>1 DEF NoBetter, Found
  <2>2. CASE /\ d.key = c.key /\ d.unreported = c.unreported /\ d.e_min = c.e_min
             /\ c = FreshPeer => c.key # key
    BY <1>3, <2>2 DEF Bests
  <2> QED BY <2>1, <2>2
<1> QED BY <1>2, <1>3 DEF Bests, t

\* A report is the last of those on their way.
LEMMA BestsTold ==
  ASSUME NEW s, NEW key, NEW c, NEW d, NEW out, NEW in \in Seq(Report), NEW m \in Report,
         Bests(s, key, c, out, in), NEW all, all = Append(in, m),
         m.key = key /\ m.type = "report" =>
           NoBetter(s, m.done, m.value) /\ Found(s, key, all, Len(in) + 1, m.value),
         d.key = key /\ d # FreshPeer =>
           /\ d.e_min <= Value[s.centre] /\ NoBetter(s, d.unreported, d.e_min)
           /\ Found(s, key, all, Len(in) + 1, d.e_min)
  PROVE  Bests(s, key, d, out, all)
<1>1. /\ Len(in) \in Nat /\ Len(all) = Len(in) + 1 /\ all[Len(in) + 1] = m
      /\ \A i \in 1 .. Len(in) : all[i] = in[i]
  BY AppendProperties, LenProperties
<1>2. ASSUME NEW n \in 1 .. Len(in), NEW v, Found(s, key, in, n, v)
      PROVE  Found(s, key, all, n, v)
  BY <1>1, <1>2 DEF Found
<1>3. ASSUME NEW i \in 1 .. Len(all), all[i].key = key, all[i].type = "report"
      PROVE  NoBetter(s, all[i].done, all[i].value) /\ Found(s, key, all, i, all[i].value)
  <2>1. CASE i = Len(in) + 1
    BY <1>1, <1>3, <2>1
  <2>2. CASE i # Len(in) + 1
    <3>1. i \in 1 .. Len(in) /\ all[i] = in[i]
      BY <1>1, <2>2
    <3> QED BY <1>2, <1>3, <3>1 DEF Bests
  <2> QED BY <2>1, <2>2
<1> QED BY <1>1, <1>3 DEF Bests

\* What a peer tries is either better than all before, and reported at once, or is not.
LEMMA BestsTried ==
  ASSUME NEW s \in Search, NEW key, NEW c \in PeerState, NEW d, c # FreshPeer,
         NEW out, NEW in \in Seq(Report), Bests(s, key, c, out, in),
         c.key = key => c.grid = s.grid /\ c.centre = s.centre,
         NEW x \in Complexity, NEW better \in BOOLEAN, NEW m \in PeerReport,
         NEW pl, pl = Demod[c.grid][c.centre][x],
         better => /\ pl # c.centre /\ Value[pl] < Target[c.e_min]
                   /\ d.e_min = Value[pl] /\ m.x = x,
         ~better => (pl = c.centre \/ ~(Value[pl] < Target[c.e_min])) /\ d.e_min = c.e_min,
         d.key = c.key, m.key = c.key, m.value = d.e_min, m.done = c.unreported \cup {x},
         NEW in2,
         \/ in2 = Append(in, m) /\ d.unreported = {}
         \/ ~better /\ in2 = in /\ d.unreported = m.done
  PROVE  Bests(s, key, d, out, in2)
<1>1. /\ c.e_min \in Likelihood /\ c.unreported \in SUBSET Complexity
      /\ m.type = "report" /\ m \in Report
  BY DEF PeerState, PeerReport, Report
<1>2. ASSUME c.key = key
      PROVE  /\ d.e_min <= Value[s.centre] /\ NoBetter(s, m.done, d.e_min)
             /\ ~better => Found(s, key, in, Len(in), d.e_min)
  <2>1. PlaceOf(s, x) = pl /\ pl \in Place /\ s.centre \in Place /\ c.centre = s.centre
    <3>1. PlaceOf(s, x) = pl
      BY <1>2 DEF PlaceOf
    <3>2. PlaceOf(s, x) \in Place
      BY PlaceOfIsAPlace
    <3> QED BY <1>2, <3>1, <3>2 DEF Search
  <2>2. /\ c.e_min <= Value[s.centre] /\ NoBetter(s, c.unreported, c.e_min)
        /\ Found(s, key, in, Len(in), c.e_min)
    BY <1>2 DEF Bests
  <2>3. /\ Value[pl] \in Likelihood /\ Value[pl] \in Int /\ Value[s.centre] \in Int
        /\ c.e_min \in Int /\ Target[c.e_min] \in Int /\ Target[c.e_min] <= c.e_min
    BY <1>1, <2>1, LikelihoodFacts
  <2>4. CASE better
    <3>1. d.e_min = Value[pl] /\ d.e_min <= c.e_min /\ d.e_min <= Value[s.centre]
      BY <2>2, <2>3, <2>4
    <3>2. NoBetter(s, c.unreported, d.e_min)
      BY <1>1, <2>2, <2>3, <3>1, NoBetterMore
    <3>3. Value[PlaceOf(s, x)] >= Target[d.e_min]
      BY <2>1, <2>3, <3>1, LikelihoodFacts
    <3> QED BY <2>4, <3>1, <3>2, <3>3 DEF NoBetter
  <2>5. CASE ~better
    <3>1. d.e_min = c.e_min
      BY <2>5
    <3>2. Value[pl] >= Target[c.e_min]
      BY <2>1, <2>2, <2>3, <2>5
    <3> QED BY <2>1, <2>2, <3>1, <3>2 DEF NoBetter
  <2> QED BY <2>4, <2>5
<1>3. CASE in2 = Append(in, m) /\ d.unreported = {}
  <2>1. ASSUME c.key = key PROVE Found(s, key, in2, Len(in) + 1, d.e_min)
    <3>1. /\ Len(in) \in Nat /\ in2[Len(in) + 1] = m
          /\ \A i \in 1 .. Len(in) : in2[i] = in[i]
      BY <1>1, <1>3, AppendProperties, LenProperties
    <3>2. CASE better
      <4>1. m.x # NoComplexity /\ m.value <= d.e_min
        <5>1. d.e_min \in Likelihood /\ m.x \in Complexity
          BY <3>2 DEF PeerReport
        <5> QED BY <5>1, LikelihoodFacts, LevelFacts
      <4> QED BY <1>1, <2>1, <3>1, <4>1 DEF Found
    <3>3. CASE ~better
      BY <1>2, <2>1, <3>1, <3>3 DEF Found
    <3> QED BY <3>2, <3>3
  <2>2. NoBetter(s, {}, d.e_min)
    BY DEF NoBetter
  <2> QED BY <1>1, <1>2, <1>3, <2>1, <2>2, BestsTold
<1>4. CASE ~better /\ in2 = in /\ d.unreported = m.done
  BY <1>2, <1>4 DEF Bests
<1> QED BY <1>3, <1>4

-----------------------------------------------------------------------------
(* Every action keeps the finds: the steps of the peers.                    *)

\* A peer that was never told anything is told the whole state first.
LEMMA FreshHears ==
  ASSUME TypeInv, KeyInv, Working, ~search.am_bootstrapping, NEW p \in Processing,
         peer[p] = FreshPeer, peer[p].key = io_key, s2p[p] # <<>>
  PROVE  Head(s2p[p]).type = "state" /\ Head(s2p[p]).key # io_key
<1>1. InTouch(io_key, SenseOfKey, link[p], peer[p], s2p[p], p2s[p], Due(io_key, link[p]))
  BY DEF KeyInv, PeerTouch, Working
<1>2. PICK b \in {0, 1}, v \in [0 .. Len(s2p[p]) -> View] :
        Linked(io_key, SenseOfKey, link[p], peer[p], s2p[p], p2s[p], Due(io_key, link[p]), b, v)
  BY <1>1 DEF InTouch
<1>3. s2p[p] \in Seq(Sent) /\ Len(s2p[p]) \in Nat
  BY PeerTypes, LenProperties
<1>4. CASE b = 0
  <2>1. v[0] = ViewOf(FreshPeer) /\ (v[0].key = io_key => Agrees(v[0], SenseOfKey))
    BY <1>2, <1>3, <1>4 DEF Linked
  <2>2. ViewOf(FreshPeer).key = io_key /\ ViewOf(FreshPeer).boot
    BY DEF ViewOf, FreshPeer
  <2>3. SenseOfKey.boot = search.am_bootstrapping
    BY SenseFacts
  <2> QED BY <2>1, <2>2, <2>3 DEF Agrees
<1>5. CASE b = 1
  <2>1. s2p[p][1].type = "state" /\ s2p[p][1].key # 0
    BY <1>2, <1>5 DEF Linked
  <2>2. Head(s2p[p]) = s2p[p][1]
    BY <1>3, HeadIsThere
  <2>3. io_key = 0
    BY DEF FreshPeer
  <2> QED BY <2>1, <2>2, <2>3
<1> QED BY <1>4, <1>5

\* Nobody but the peer that takes the step is concerned.
LEMMA FindsOfOne ==
  ASSUME FindsInv, NEW p \in Processing, PeerUnchanged, Processing' = Processing,
         \A q \in Processing : q # p =>
           s2p'[q] = s2p[q] /\ p2s'[q] = p2s[q] /\ peer'[q] = peer[q],
         ~SlowWrites /\ Working /\ ~search.am_bootstrapping
           /\ Bests(search, io_key, peer[p], s2p[p], p2s[p]) =>
             Bests(search, io_key, peer'[p], s2p'[p], p2s'[p])
  PROVE  FindsInv'
<1>1. UNCHANGED <<search, io_key, sync_msg, status, sync_timer, coroutine>>
  BY DEF PeerUnchanged, serverVars, taskVars
<1>2. SUFFICES ASSUME ~SlowWrites, Working, ~search.am_bootstrapping
               PROVE  /\ search.e_min <= sync_msg.value /\ sync_msg.value <= Value[search.centre]
                      /\ \A q \in Processing :
                           Bests(search, io_key, peer'[q], s2p'[q], p2s'[q])
  BY <1>1 DEF FindsInv, Working, Running
<1>3. /\ search.e_min <= sync_msg.value /\ sync_msg.value <= Value[search.centre]
      /\ \A q \in Processing : Bests(search, io_key, peer[q], s2p[q], p2s[q])
  BY <1>2 DEF FindsInv
<1>4. ASSUME NEW q \in Processing PROVE Bests(search, io_key, peer'[q], s2p'[q], p2s'[q])
  BY <1>2, <1>3
<1> QED BY <1>3, <1>4

LEMMA FindsPeerReads ==
  ASSUME TypeInv, KeyInv, FindsInv, NEW p \in Peers, PeerReads(p)
  PROVE  FindsInv'
<1>1. /\ Processing' = Processing /\ p \in Processing /\ s2p[p] # <<>>
      /\ PeerUnchanged /\ p2s' = p2s
  BY PeerHears
<1>2. PICK d \in PeerState : Read(p, d)
  BY PeerReadsNews
<1>3. /\ peer \in [Peers -> PeerState] /\ s2p \in [Peers -> Seq(Sent)]
      /\ s2p[p] \in Seq(Sent) /\ s2p[p] # <<>>
  BY <1>1 DEF TypeInv, NetTypes
<1>4. peer' = [peer EXCEPT ![p] = d] /\ s2p' = [s2p EXCEPT ![p] = Tail(s2p[p])]
  BY <1>2 DEF Read
<1> DEFINE c == peer[p]
           m == Head(s2p[p])
<1>5. IF m.type = "recentre" \/ (m.type = "state" /\ m.key # c.key)
      THEN d.key = m.key /\ d.unreported = {} /\ d.e_min = m.value
      ELSE d.key = c.key /\ d.unreported = c.unreported /\ d.e_min = c.e_min
  <2>1. ViewOf(d) = ViewAfter(ViewOf(c), m)
    BY <1>2 DEF Read
  <2>2. m.type = "recentre" \/ m.type = "state" => d.key = m.key
    BY <2>1 DEF ViewOf, ViewAfter
  <2> QED BY <1>2, <2>2 DEF Read
<1>6. ASSUME ~SlowWrites, Working, ~search.am_bootstrapping, Bests(search, io_key, c, s2p[p], p2s[p])
      PROVE  Bests(search, io_key, d, Tail(s2p[p]), p2s[p])
  <2>1. c = FreshPeer /\ c.key = io_key => m.type = "state" /\ m.key # io_key
    BY <1>1, <1>6, FreshHears
  <2>2. \/ /\ m.type # "complexity" /\ d.key = m.key /\ d.unreported = {} /\ d.e_min = m.value
        \/ /\ d.key = c.key /\ d.unreported = c.unreported /\ d.e_min = c.e_min
           /\ c = FreshPeer => c.key # io_key
    <3>1. CASE m.type = "recentre" \/ (m.type = "state" /\ m.key # c.key)
      BY <1>5, <3>1
    <3>2. CASE ~(m.type = "recentre" \/ (m.type = "state" /\ m.key # c.key))
      BY <1>5, <2>1, <3>2
    <3> QED BY <3>1, <3>2
  <2> QED BY <1>3, <1>6, <2>2, BestsRead
<1>7. peer'[p] = d /\ s2p'[p] = Tail(s2p[p])
  BY <1>1, <1>3, <1>4
<1>8. \A q \in Processing : q # p => s2p'[q] = s2p[q] /\ p2s'[q] = p2s[q] /\ peer'[q] = peer[q]
  BY <1>1, <1>3, <1>4, PeerTypes
<1> HIDE DEF c, m
<1> QED BY <1>1, <1>6, <1>7, <1>8, FindsOfOne DEF c

LEMMA FindsProcess ==
  ASSUME TypeInv, KeyInv, QuietInv, FindsInv, NEW p \in Processing, Process(p), PeerUnchanged,
         Processing' = Processing, s2p' = s2p, peer[p] # FreshPeer
  PROVE  FindsInv'
<1> DEFINE c == peer[p]
<1>1. /\ peer \in [Peers -> PeerState] /\ p2s \in [Peers -> Seq(Report)] /\ p \in Peers
      /\ c \in PeerState /\ s2p[p] \in Seq(Sent) /\ p2s[p] \in Seq(Report) /\ search \in Search
  BY PeerTypes DEF TypeInv, NetTypes, SearchTypes
<1>2. PICK x \in Complexity, better \in BOOLEAN, d \in PeerState, m \in PeerReport :
        Tried(p, x, better, d, m)
  BY <1>1, ProcessTries
<1> DEFINE pl == Demod[c.grid][c.centre][x]
<1>3. /\ peer' = [peer EXCEPT ![p] = d] /\ d.key = c.key
      /\ better => pl # c.centre /\ Value[pl] < Target[c.e_min] /\ d.e_min = Value[pl] /\ m.x = x
      /\ ~better => (pl = c.centre \/ ~(Value[pl] < Target[c.e_min])) /\ d.e_min = c.e_min
      /\ m.key = c.key /\ m.value = d.e_min /\ m.done = c.unreported \cup {x}
      /\ Told(p, c, d, m.done, m) \/ (~better /\ KeptQuiet(c, d, m.done))
  BY <1>2 DEF Tried, SameWork
<1>4. peer'[p] = d /\ \A q \in Processing : q # p => peer'[q] = peer[q] /\ p2s'[q] = p2s[q]
  BY <1>1, <1>3, PeerTypes DEF Told, KeptQuiet
<1>5. ASSUME ~SlowWrites, Working, ~search.am_bootstrapping,
             Bests(search, io_key, c, s2p[p], p2s[p])
      PROVE  Bests(search, io_key, d, s2p[p], p2s'[p])
  <2>1. c.key = io_key => c.grid = search.grid /\ c.centre = search.centre
    BY <1>5, PeerKnows
  <2>2. ~c.writing
    BY <1>1, <1>5 DEF QuietInv
  <2> DEFINE in2 == p2s'[p]
  <2>3. \/ in2 = Append(p2s[p], m) /\ d.unreported = {}
        \/ ~better /\ in2 = p2s[p] /\ d.unreported = m.done
    BY <1>1, <1>3, <2>2 DEF Told, KeptQuiet
  <2> HIDE DEF in2, c, pl
  <2>4. Bests(search, io_key, d, s2p[p], in2)
    BY <1>1, <1>3, <1>5, <2>1, <2>3, BestsTried, ZenonT(40) DEF c, pl
  <2> QED BY <2>4 DEF in2
<1>6. s2p'[p] = s2p[p] /\ \A q : s2p'[q] = s2p[q]
  OBVIOUS
<1> HIDE DEF c
<1> QED BY <1>4, <1>5, <1>6, FindsOfOne DEF c

\* Where a location is wanted nobody who draws one has the key.
LEMMA FindsBootstrap ==
  ASSUME TypeInv, KeyInv, FindsInv, NEW p \in Processing, Bootstrap(p), PeerUnchanged,
         Processing' = Processing, s2p' = s2p, peer[p] # FreshPeer
  PROVE  FindsInv'
<1> DEFINE c == peer[p]
<1>1. /\ peer \in [Peers -> PeerState] /\ p2s \in [Peers -> Seq(Report)] /\ p \in Peers
      /\ p2s[p] \in Seq(Report)
  BY PeerTypes DEF TypeInv, NetTypes
<1>2. PICK pl \in Place, d \in PeerState, m \in BootReport : Drawn(p, pl, d, m)
  BY <1>1, BootstrapDraws
<1>3. /\ peer' = [peer EXCEPT ![p] = d] /\ d.key = c.key /\ c.am_bootstrapping
      /\ m.type = "boot"
      /\ p2s' = p2s \/ p2s' = [p2s EXCEPT ![p] = Append(p2s[p], m)]
  BY <1>2 DEF Drawn, SameWork, Told
<1>4. peer'[p] = d /\ \A q \in Processing : q # p => peer'[q] = peer[q] /\ p2s'[q] = p2s[q]
  BY <1>1, <1>3, PeerTypes
<1>5. ASSUME ~SlowWrites, Working, ~search.am_bootstrapping,
             Bests(search, io_key, c, s2p[p], p2s[p])
      PROVE  Bests(search, io_key, d, s2p[p], p2s'[p])
  <2>1. d.key # io_key
    BY <1>3, <1>5, PeerKnows
  <2>2. CASE p2s'[p] = p2s[p]
    BY <1>5, <2>1, <2>2 DEF Bests
  <2>3. CASE p2s'[p] = Append(p2s[p], m)
    <3>1. m \in Report
      BY DEF Report
    <3> DEFINE all == Append(p2s[p], m)
    <3>2. all = Append(p2s[p], m) /\ (m.key = io_key /\ m.type = "report" => FALSE)
      BY <1>3
    <3> HIDE DEF all
    <3>3. Bests(search, io_key, d, s2p[p], all)
      BY <1>1, <1>5, <2>1, <3>1, <3>2, BestsTold DEF c
    <3> QED BY <2>3, <3>2, <3>3
  <2> QED BY <1>1, <1>3, <2>2, <2>3
<1>6. s2p'[p] = s2p[p] /\ \A q : s2p'[q] = s2p[q]
  OBVIOUS
<1> HIDE DEF c
<1> QED BY <1>4, <1>5, <1>6, FindsOfOne DEF c

LEMMA FindsIdle ==
  ASSUME TypeInv, FindsInv, NEW p \in Processing, PeerUnchanged, Processing' = Processing,
         s2p' = s2p, peer[p] # FreshPeer, NEW d, Idled(p, d)
  PROVE  FindsInv'
<1>1. /\ peer \in [Peers -> PeerState] /\ p \in Peers
      /\ peer' = [peer EXCEPT ![p] = d] /\ p2s' = p2s
      /\ d.key = peer[p].key /\ d.e_min = peer[p].e_min /\ d.unreported = peer[p].unreported
  BY PeerTypes DEF TypeInv, NetTypes, Idled, SameWork, KeptQuiet
<1>2. peer'[p] = d /\ \A q \in Processing : q # p => peer'[q] = peer[q] /\ p2s'[q] = p2s[q]
  BY <1>1, PeerTypes
<1>3. Bests(search, io_key, peer[p], s2p[p], p2s[p]) => Bests(search, io_key, d, s2p[p], p2s[p])
  BY <1>1 DEF Bests
<1> QED BY <1>1, <1>2, <1>3, FindsOfOne

LEMMA FindsPeerStep ==
  ASSUME TypeInv, KeyInv, QuietInv, FindsInv, NEW p \in Peers, PeerStep(p)
  PROVE  FindsInv'
<1>1. CASE PeerReads(p)
  BY <1>1, FindsPeerReads
<1>2. CASE ~PeerReads(p)
  <2>1. /\ Processing' = Processing /\ p \in Processing /\ PeerUnchanged /\ s2p' = s2p
        /\ peer[p] # FreshPeer
    BY <1>2, PeerWorks
  <2>2. CASE SkipIteration(p) \/ ProcessNothing(p) \/ RollbackTimeout(p)
    BY <2>1, <2>2, TimersIdle, FindsIdle
  <2>3. CASE PeerWriteDone(p)
    <3>1. SlowWrites
      BY <2>3 DEF QuietInv, PeerWriteDone
    <3> QED BY <3>1 DEF FindsInv
  <2> QED BY <1>2, <2>1, <2>2, <2>3, FindsProcess, FindsBootstrap DEF PeerStep
<1> QED BY <1>1, <1>2

-----------------------------------------------------------------------------
(* Every action keeps the finds: what the server does under the same key.   *)

\* What is announced to a peer is at the end of what it was sent, or it is put off.
LEMMA AnnouncedTo ==
  ASSUME TypeInv, NEW lk \in [Peers -> Link], NEW key, NEW to, NEW gone, NEW m,
         Announce(lk, key, to, gone, m), NEW q \in Peers, q \notin gone
  PROVE  \/ s2p'[q] = s2p[q]
         \/ \E r \in SUBSET Complexity : s2p'[q] = Append(s2p[q], WithShare(m, r))
<1>1. lk[q].remaining \in SUBSET Complexity
  BY DEF Link
<1> QED BY <1>1 DEF Announce, WithShare

LEMMA StateValue ==
  ASSUME NEW m \in CookedSync, NEW r
  PROVE  WithShare(StateFor(m), r).value = m.value
BY DEF WithShare, StateFor

LEMMA RecentreValue ==
  ASSUME NEW k, NEW v, NEW x, NEW r
  PROVE  WithShare(RecentreFor(k, v, x), r).value = v
BY DEF WithShare, RecentreFor

\* What may be sent while the key stays.
Tells(s, n) == n.type # "complexity" => s.e_min <= n.value /\ n.value <= Value[s.centre]

LEMMA BestsPosted ==
  ASSUME NEW s, NEW key, NEW c, NEW out \in Seq(Sent), NEW in, Bests(s, key, c, out, in),
         NEW out2, out2 = out \/ \E n \in Sent : out2 = Append(out, n) /\ Tells(s, n)
  PROVE  Bests(s, key, c, out2, in)
<1>1. CASE out2 = out
  BY <1>1
<1>2. ASSUME NEW n \in Sent, out2 = Append(out, n), Tells(s, n) PROVE Bests(s, key, c, out2, in)
  BY <1>2, BestsSent DEF Tells
<1> QED BY <1>1, <1>2

\* The search keeps its centre, and each peer hears no more than what is known.
LEMMA FindsKept ==
  ASSUME TypeInv, FindsInv, Working' => Working, io_key' = io_key,
         sync_msg'.value = sync_msg.value, search' \in Search, search'.e_min <= search.e_min,
         search'.grid = search.grid, search'.centre = search.centre,
         search'.am_bootstrapping = search.am_bootstrapping,
         \A q \in Processing' :
           ~SlowWrites /\ Working /\ ~search.am_bootstrapping =>
             Bests(search', io_key, peer'[q], s2p'[q], p2s'[q])
  PROVE  FindsInv'
<1>1. SUFFICES ASSUME ~SlowWrites, Working', ~search'.am_bootstrapping
               PROVE  search'.e_min <= sync_msg.value /\ sync_msg.value <= Value[search.centre]
  BY DEF FindsInv
<1>2. search.e_min <= sync_msg.value /\ sync_msg.value <= Value[search.centre]
  BY <1>1 DEF FindsInv
<1>3. search.e_min \in Int /\ search'.e_min \in Int /\ sync_msg.value \in Int
  <2>1. /\ search.e_min \in Likelihood /\ search'.e_min \in Likelihood
        /\ sync_msg.value \in Likelihood
    BY DEF TypeInv, SearchTypes, Search, CookedSync
  <2> QED BY <2>1, LikelihoodFacts
<1> QED BY <1>2, <1>3

\* Each peer is posted something or nothing.
LEMMA FindsPosted ==
  ASSUME TypeInv, FindsInv, Working' => Working, io_key' = io_key,
         sync_msg'.value = sync_msg.value, search' \in Search, search'.e_min = search.e_min,
         search'.grid = search.grid, search'.centre = search.centre,
         search'.am_bootstrapping = search.am_bootstrapping,
         \A q \in Processing' :
           /\ q \in Processing /\ peer'[q] = peer[q] /\ p2s'[q] = p2s[q]
           /\ \/ s2p'[q] = s2p[q]
              \/ \E n \in Sent : /\ s2p'[q] = Append(s2p[q], n)
                                 /\ n.type # "complexity" => n.value = sync_msg.value
  PROVE  FindsInv'
<1>1. ASSUME NEW q \in Processing', ~SlowWrites, Working, ~search.am_bootstrapping
      PROVE  Bests(search', io_key, peer'[q], s2p'[q], p2s'[q])
  <2>1. /\ q \in Processing /\ peer'[q] = peer[q] /\ p2s'[q] = p2s[q]
        /\ search.e_min <= sync_msg.value /\ sync_msg.value <= Value[search.centre]
        /\ Bests(search, io_key, peer[q], s2p[q], p2s[q])
    BY <1>1 DEF FindsInv
  <2>2. \/ s2p'[q] = s2p[q]
        \/ \E n \in Sent : s2p'[q] = Append(s2p[q], n) /\ Tells(search, n)
    BY <1>1, <2>1 DEF Tells
  <2>3. s2p[q] \in Seq(Sent) /\ p2s[q] \in Seq(Report) /\ peer[q] \in PeerState
    BY <2>1, PeerTypes
  <2> DEFINE out2 == s2p'[q]
  <2>4. out2 = s2p[q] \/ \E n \in Sent : out2 = Append(s2p[q], n) /\ Tells(search, n)
    BY <2>2
  <2> HIDE DEF out2
  <2>5. Bests(search, io_key, peer[q], out2, p2s[q])
    BY <2>1, <2>3, <2>4, BestsPosted
  <2>6. Bests(search', io_key, peer[q], out2, p2s[q])
    <3>1. \A y : PlaceOf(search', y) = PlaceOf(search, y)
      BY DEF PlaceOf
    <3> QED BY <2>5, <3>1 DEF Bests, NoBetter, Found
  <2> QED BY <2>1, <2>6 DEF out2
<1>2. search'.e_min <= search.e_min
  <2>1. search.e_min \in Likelihood
    BY DEF TypeInv, SearchTypes, Search
  <2> QED BY <2>1, LikelihoodFacts
<1> QED BY <1>1, <1>2, FindsKept

LEMMA FindsJoin ==
  ASSUME TypeInv, FindsInv, NEW p \in Peers, Join(p)
  PROVE  FindsInv'
<1>1. Processing' = Processing \cup {p} /\ p \notin Processing
  BY TypeJoin
<1>2. /\ UNCHANGED <<search, io_key, sync_msg, status, coroutine, peer, p2s>>
      /\ s2p' = [s2p EXCEPT ![p] = <<StateFor(sync_msg)>>]
      /\ sync_timer' \in {sync_timer, PostedTimer}
  BY DEF Join, taskVars
<1>3. Working' => Working
  BY <1>2 DEF Working, Running, PostedTimer
<1>4. search \in Search /\ search.e_min <= search.e_min
  BY LikelihoodFacts DEF TypeInv, SearchTypes, Search
<1>5. ASSUME NEW q \in Processing', ~SlowWrites, Working, ~search.am_bootstrapping
      PROVE  Bests(search, io_key, peer[q], s2p'[q], p2s[q])
  <2>1. CASE q = p
    <3>1. peer[q] = FreshPeer /\ p2s[q] = <<>>
      BY <1>1, <2>1 DEF TypeInv, Apart, Blank
    <3>2. s2p'[q] = <<StateFor(sync_msg)>>
      BY <1>2, <2>1 DEF TypeInv, NetTypes
    <3>3. StateFor(sync_msg).value = sync_msg.value
      BY DEF StateFor
    <3>4. search.e_min <= sync_msg.value /\ sync_msg.value <= Value[search.centre]
      BY <1>5 DEF FindsInv
    <3> DEFINE n == StateFor(sync_msg)
    <3> HIDE DEF n
    <3>5. Len(<<n>>) = 1 /\ <<n>>[1] = n
      OBVIOUS
    <3>6. \A i \in 1 .. Len(<<n>>) : search.e_min <= <<n>>[i].value /\ <<n>>[i].value <= Value[search.centre]
      BY <3>3, <3>4, <3>5 DEF n
    <3> QED BY <3>1, <3>2, <3>6 DEF Bests, n
  <2>2. CASE q # p
    <3>1. q \in Processing /\ q \in Peers
      BY <1>1, <1>5, <2>2, PeerTypes
    <3>2. s2p'[q] = s2p[q]
      BY <1>2, <2>2, <3>1 DEF TypeInv, NetTypes
    <3> QED BY <1>5, <3>1, <3>2 DEF FindsInv
  <2> QED BY <2>1, <2>2
<1> QED BY <1>2, <1>3, <1>4, <1>5, FindsKept

LEMMA FindsLose ==
  ASSUME TypeInv, FindsInv, NEW p \in Peers, p \in Processing, Lose(p), faults' \in Nat
  PROVE  FindsInv'
<1>1. Processing' = Processing \ {p}
  BY TypeLose
<1>2. /\ UNCHANGED <<search, io_key, sync_msg, status, coroutine, sync_timer>>
      /\ \A q \in Peers : q # p => /\ s2p'[q] = s2p[q] /\ p2s'[q] = p2s[q]
                                   /\ peer'[q] = peer[q]
  BY DEF Lose, serverVars, Forget, TypeInv, NetTypes
<1>3. search \in Search
  BY DEF TypeInv, SearchTypes
<1>4. \A q \in Processing' : /\ q \in Processing /\ peer'[q] = peer[q]
                             /\ p2s'[q] = p2s[q] /\ s2p'[q] = s2p[q]
  BY <1>1, <1>2, PeerTypes
<1> QED BY <1>2, <1>3, <1>4, FindsPosted DEF Working, Running

\* The whole state again, for whoever has fallen behind.
LEMMA StateAgain ==
  ASSUME TypeInv, NEW lk \in [Peers -> Link], NEW key, NEW to,
         Announce(lk, key, to, {}, StateFor(sync_msg)), NEW q \in Peers
  PROVE  \/ s2p'[q] = s2p[q]
         \/ \E n \in Sent : s2p'[q] = Append(s2p[q], n) /\ n.value = sync_msg.value
<1>1. sync_msg \in CookedSync
  BY DEF TypeInv, SearchTypes
<1>2. CASE \E r \in SUBSET Complexity : s2p'[q] = Append(s2p[q], WithShare(StateFor(sync_msg), r))
  BY <1>1, <1>2, StateForms, StateValue
<1> QED BY <1>2, AnnouncedTo

LEMMA FindsServerWriteDone ==
  ASSUME TypeInv, FindsInv, NEW p \in Peers, ServerWriteDone(p)
  PROVE  FindsInv'
<1> DEFINE done == [link[p] EXCEPT !.writing = FALSE, !.late = FALSE]
           lk == [link EXCEPT ![p] = done]
<1>1. lk \in [Peers -> Link]
  BY DEF TypeInv, NetTypes, Link
<1>2. /\ UNCHANGED <<search, io_key, sync_msg, status, coroutine, sync_timer, processing,
                     peer, p2s>>
      /\ s2p' = s2p \/ Announce(lk, io_key, {p}, {}, StateFor(sync_msg))
  BY DEF ServerWriteDone, serverVars, taskVars
<1> HIDE DEF lk
<1>3. search \in Search /\ Processing' = Processing
  BY <1>2 DEF TypeInv, SearchTypes, Processing
<1>4. ASSUME NEW q \in Processing
      PROVE  \/ s2p'[q] = s2p[q]
             \/ \E n \in Sent : s2p'[q] = Append(s2p[q], n) /\ n.value = sync_msg.value
  BY <1>1, <1>2, <1>4, StateAgain, PeerTypes
<1> QED BY <1>2, <1>3, <1>4, FindsPosted DEF Working, Running

\* Reports that echo another key are not looked at.
LEMMA FindsStaleReport ==
  ASSUME TypeInv, FindsInv, NEW p \in Peers, ReportArrives(p), NEW m,
         m = Head(p2s[p]), m.key # io_key,
         NEW lk, lk = [link EXCEPT ![p].echo = m.key],
         IF Stale(io_key, link[p])
         THEN Announce(lk, io_key, {p}, {}, StateFor(sync_msg))
         ELSE link' = lk /\ UNCHANGED s2p,
         UNCHANGED <<search, sync_msg, io_key, redistribute, sync_timer, processing, peer>>
  PROVE  FindsInv'
<1>1. /\ LinksOf(lk) /\ status' = status /\ coroutine' = coroutine /\ p \in Processing
      /\ p2s[p] \in Seq(Report) /\ p2s[p] # <<>>
      /\ \A q \in Members(processing') : p2s'[q] = IF q = p THEN Tail(p2s[p]) ELSE p2s[q]
  BY ReportRead DEF Elsewhere
<1>2. search \in Search /\ Processing' = Processing /\ search.e_min <= search.e_min
  BY LikelihoodFacts DEF TypeInv, SearchTypes, Processing, Search
<1>3. ASSUME NEW q \in Processing', ~SlowWrites, Working, ~search.am_bootstrapping
      PROVE  Bests(search, io_key, peer[q], s2p'[q], p2s'[q])
  <2>1. /\ Bests(search, io_key, peer[q], s2p[q], p2s[q]) /\ q \in Peers
        /\ search.e_min <= sync_msg.value /\ sync_msg.value <= Value[search.centre]
        /\ s2p[q] \in Seq(Sent) /\ p2s[q] \in Seq(Report) /\ peer[q] \in PeerState
    BY <1>2, <1>3, PeerTypes DEF FindsInv
  <2> DEFINE in2 == p2s'[q]
             out2 == s2p'[q]
  <2>2. out2 = s2p[q] \/ \E n \in Sent : out2 = Append(s2p[q], n) /\ Tells(search, n)
    <3>1. CASE Announce(lk, io_key, {p}, {}, StateFor(sync_msg))
      BY <1>1, <2>1, <3>1, StateAgain DEF LinksOf, Tells
    <3> QED BY <3>1
  <2>3. IF q = p THEN in2 = Tail(p2s[q]) ELSE in2 = p2s[q]
    BY <1>1, <1>2, <1>3 DEF Processing
  <2> HIDE DEF in2, out2
  <2>4. Bests(search, io_key, peer[q], s2p[q], in2)
    <3>1. CASE q = p
      <4>1. /\ p2s[q] # <<>> /\ m = Head(p2s[q]) /\ in2 = Tail(p2s[q])
            /\ m.key = io_key /\ m.type = "report" /\ m.x # NoComplexity =>
                 search.e_min <= m.value
        BY <1>1, <2>3, <3>1
      <4> QED BY <1>2, <2>1, <4>1, BestsHeard
    <3>2. CASE q # p
      BY <2>1, <2>3, <3>2
    <3> QED BY <3>1, <3>2
  <2>5. Bests(search, io_key, peer[q], out2, in2)
    BY <2>1, <2>2, <2>4, BestsPosted
  <2> QED BY <2>5 DEF in2, out2
<1> QED BY <1>1, <1>2, <1>3, FindsKept DEF Working, Running

LEMMA FindsPeerReport ==
  ASSUME TypeInv, FindsInv, NEW p \in Peers, ReportArrives(p), NEW m,
         m = Head(p2s[p]), m.key = io_key, m.type = "report",
         NEW lk, lk = [link EXCEPT ![p].echo = m.key], OnPeerReport(p, m, lk)
  PROVE  FindsInv'
<1>1. /\ status' = status /\ coroutine' = coroutine /\ p \in Processing
      /\ p2s[p] \in Seq(Report) /\ p2s[p] # <<>>
      /\ m.value \in Likelihood /\ m.done \in SUBSET Complexity
      /\ m.x \in Complexity \cup {NoComplexity}
      /\ \A q \in Members(processing') : p2s'[q] = IF q = p THEN Tail(p2s[p]) ELSE p2s[q]
  BY ReportRead DEF Elsewhere
<1>2. /\ search' = Reported(search, m.value, m.x, m.done) /\ sync_timer' = PostedTimer
      /\ UNCHANGED <<sync_msg, io_key, s2p, processing, peer>>
  BY DEF OnPeerReport
<1>3. /\ search \in Search /\ Processing' = Processing /\ search' \in Search
      /\ search'.grid = search.grid /\ search'.centre = search.centre
      /\ search'.am_bootstrapping = search.am_bootstrapping
  BY TypePeerReport DEF TypeInv, SearchTypes
<1>4. /\ search'.e_min <= search.e_min
      /\ m.x # NoComplexity => search'.e_min <= m.value
  <2>1. search'.e_min = IF m.x # NoComplexity /\ m.value < search.e_min
                        THEN m.value ELSE search.e_min
    BY <1>1, <1>2, <1>3, ReportedMinimum
  <2>2. m.value \in Int /\ search.e_min \in Int
    BY <1>1, <1>3, LikelihoodFacts DEF Search
  <2> QED BY <2>1, <2>2
<1>5. ASSUME NEW q \in Processing', ~SlowWrites, Working, ~search.am_bootstrapping
      PROVE  Bests(search', io_key, peer'[q], s2p'[q], p2s'[q])
  <2>1. /\ Bests(search, io_key, peer[q], s2p[q], p2s[q]) /\ q \in Peers
        /\ s2p[q] \in Seq(Sent) /\ p2s[q] \in Seq(Report) /\ peer[q] \in PeerState
    BY <1>3, <1>5, PeerTypes DEF FindsInv
  <2> DEFINE in2 == p2s'[q]
             r == search'
  <2>2. IF q = p THEN in2 = Tail(p2s[q]) ELSE in2 = p2s[q]
    BY <1>1, <1>3, <1>5 DEF Processing
  <2>3. /\ r \in Search /\ r.e_min <= search.e_min /\ r.grid = search.grid
        /\ r.centre = search.centre /\ (m.x # NoComplexity => r.e_min <= m.value)
    BY <1>3, <1>4
  <2> HIDE DEF in2, r
  <2>4. Bests(r, io_key, peer[q], s2p[q], in2)
    <3>1. CASE q = p
      <4>1. /\ p2s[q] # <<>> /\ m = Head(p2s[q]) /\ in2 = Tail(p2s[q])
            /\ m.key = io_key /\ m.type = "report" /\ m.x # NoComplexity => r.e_min <= m.value
        BY <1>1, <2>2, <2>3, <3>1
      <4> QED BY <1>3, <2>1, <2>3, <4>1, BestsHeard
    <3>2. CASE q # p
      BY <1>3, <2>1, <2>2, <2>3, <3>2, BestsKept
    <3> QED BY <3>1, <3>2
  <2> QED BY <1>2, <2>4 DEF in2, r
<1>6. Working' => Working
  BY <1>1, <1>2 DEF Working, Running, PostedTimer
<1> QED BY <1>2, <1>3, <1>4, <1>5, <1>6, FindsKept

-----------------------------------------------------------------------------
(* Every action keeps the finds: a new key.                                 *)

\* Nothing on its way to a peer is of the next key.
LEMMA NextKeyNotSent ==
  ASSUME NEW key \in Key, NEW g, NEW l \in Link, NEW c \in PeerState,
         NEW out \in Seq(Sent), NEW in \in Seq(Report), NEW due, NEW next,
         InTouch(key, g, l, c, out, in, due), next = (key + 1) % KeyMod, l.echo # next
  PROVE  \A i \in 1 .. Len(out) : out[i].type # "complexity" => out[i].key # next
<1>1. PICK b \in {0, 1}, v \in [0 .. Len(out) -> View] : Linked(key, g, l, c, out, in, due, b, v)
  BY DEF InTouch
<1>2. l.echo \in Key /\ Len(out) \in Nat /\ \A i \in 1 .. Len(out) : out[i] \in Sent
  BY LenProperties DEF Link
<1>3. Lag(next, l) = Lag(key, l) + 1 /\ Lag(key, l) \in 0 .. KeyMod - 1
  BY <1>2, LagOfNext, LagIs
<1>4. ASSUME NEW i \in 1 .. Len(out), out[i].type # "complexity" PROVE out[i].key # next
  <2>1. Lag(v[i].key, l) <= Lag(key, l) /\ v[i] = ViewAfter(v[i - 1], out[i])
    BY <1>1, <1>2 DEF Linked
  <2>2. v[i].key = out[i].key
    <3>1. out[i].type \in {"state", "recentre"}
      BY <1>2, <1>4 DEF Sent, StateSync, RecentreOnly, ComplexityOnly
    <3> QED BY <2>1, <3>1 DEF ViewAfter
  <2>3. KeyMod \in Nat
    BY ConvergerAssumption
  <2> QED BY <1>3, <2>1, <2>2, <2>3
<1> QED BY <1>4

\* Under a key that nobody has there is only what is announced with it.
LEMMA BestsNew ==
  ASSUME NEW s, NEW next, NEW c, NEW out \in Seq(Sent), NEW in,
         \A i \in 1 .. Len(out) : out[i].type # "complexity" => out[i].key # next,
         c.key = next => c = FreshPeer, \A i \in 1 .. Len(in) : in[i].key # next,
         NEW out2, out2 = out \/ \E n \in Sent : out2 = Append(out, n) /\ Tells(s, n)
  PROVE  Bests(s, next, c, out2, in)
<1>1. Bests(s, next, c, out, in)
  BY DEF Bests
<1> QED BY <1>1, BestsPosted

LEMMA FindsAnnounced ==
  ASSUME TypeInv, io_key' = NextKey, p2s' \in [Peers -> Seq(Report)],
         NEW lk, LinksOf(lk), NEW lk2, LinksOf(lk2), NEW to, NEW gone, NEW m,
         Announce(lk2, NextKey, to, gone, m),
         \A r \in SUBSET Complexity :
           WithShare(m, r) \in Sent /\ WithShare(m, r).value = sync_msg'.value,
         search' \in Search,
         ~SlowWrites /\ Working' /\ ~search'.am_bootstrapping =>
           sync_msg'.value = search'.e_min /\ search'.e_min = Value[search'.centre],
         \A q \in Processing' : /\ q \in Processing /\ q \notin gone /\ lk[q].echo # NextKey
                                /\ Heard(q, lk) /\ peer'[q] = peer[q]
  PROVE  FindsInv'
<1>1. SUFFICES ASSUME ~SlowWrites, Working', ~search'.am_bootstrapping PROVE FindsInv'
  BY DEF FindsInv
<1>2. search'.e_min <= sync_msg'.value /\ sync_msg'.value <= Value[search'.centre]
  <2>1. search'.e_min \in Likelihood
    BY DEF Search
  <2> QED BY <1>1, <2>1, LikelihoodFacts
<1>3. ASSUME NEW q \in Processing' PROVE Bests(search', NextKey, peer'[q], s2p'[q], p2s'[q])
  <2>1. /\ q \in Processing /\ q \in Peers /\ q \notin gone /\ lk[q].echo # NextKey
        /\ Heard(q, lk) /\ peer'[q] = peer[q]
    BY <1>3, PeerTypes
  <2> DEFINE l == lk[q]
             c == peer[q]
             out == s2p[q]
             in == p2s'[q]
             due == Due(io_key, l)
             out2 == s2p'[q]
             r == search'
             next == NextKey
  <2>2. /\ l \in Link /\ c \in PeerState /\ out \in Seq(Sent) /\ in \in Seq(Report)
        /\ io_key \in Key /\ next = (io_key + 1) % KeyMod /\ l.echo # next
        /\ InTouch(io_key, SenseOfKey, l, c, out, in, due)
    BY <2>1, PeerTypes DEF LinksOf, Heard, NextKey
  <2>3. out2 = out \/ \E n \in Sent : out2 = Append(out, n) /\ Tells(r, n)
    <3> DEFINE k == NextKey
    <3>1. /\ lk2 \in [Peers -> Link] /\ Announce(lk2, k, to, gone, m) /\ TypeInv
          /\ q \in Peers /\ q \notin gone
      BY <2>1 DEF LinksOf
    <3> HIDE DEF k
    <3>2. \/ s2p'[q] = s2p[q]
          \/ \E x \in SUBSET Complexity : s2p'[q] = Append(s2p[q], WithShare(m, x))
      BY ONLY <3>1, AnnouncedTo
    <3>3. CASE \E x \in SUBSET Complexity : s2p'[q] = Append(s2p[q], WithShare(m, x))
      BY <1>1, <1>2, <3>3 DEF Tells
    <3> QED BY <3>2, <3>3
  <2> HIDE DEF l, c, out, in, due, out2, r, next
  <2>4. /\ c.key = next => c = FreshPeer
        /\ \A i \in 1 .. Len(in) : in[i].key # next
        /\ c.deferred # NoReport => c.deferred.key # next
    BY <2>2, NextKeyIsNew
  <2>5. \A i \in 1 .. Len(out) : out[i].type # "complexity" => out[i].key # next
    BY <2>2, NextKeyNotSent
  <2>6. Bests(r, next, c, out2, in)
    BY <2>2, <2>3, <2>4, <2>5, BestsNew
  <2> QED BY <2>1, <2>6 DEF c, in, out2, r, next
<1> QED BY <1>1, <1>2, <1>3 DEF FindsInv

\* A synced search, or one that has just been located, is as good as its centre.
LEMMA AsGoodAsItsCentre ==
  ASSUME TypeInv', FitInv', Running', search'.e_min_complexity = NoComplexity,
         ~search'.am_bootstrapping
  PROVE  search'.e_min = Value[search'.centre]
<1>1. Waiting(search'.grid) # {}
  BY DEF TypeInv, Steady, Running
<1>2. Fit(search', evaluated')
  BY <1>1 DEF FitInv
<1> QED BY <1>2 DEF Fit, Sound, FindIsKnown

LEMMA FindsSendRecentre ==
  ASSUME TypeInv, TypeInv', FitInv', KeyInv, Running, status = "active",
         Waiting(search.grid) # {}, Elsewhere,
         NEW s \in Search, s.grid = search.grid,
         NEW x \in Complexity, NEW lk, LinksOf(lk),
         \A q \in Processing : /\ lk[q].echo = link[q].echo /\ lk[q].late = link[q].late
                               /\ lk[q].writing = link[q].writing,
         SendRecentre(s, lk, x)
  PROVE  FindsInv'
<1> DEFINE gone == WrappedAround(lk, NextKey)
           m == RecentreFor(NextKey, s.e_min, x)
           lk2 == Dealt(lk, s.remaining)
<1>1. /\ search' = s /\ coroutine' = "none" /\ io_key' = NextKey /\ sync_timer' = "off"
      /\ sync_msg' = Cooked(s, NextKey) /\ ForgetWithReports(gone)
      /\ Announce(lk2, NextKey, Processing \ gone, gone, m)
  BY DEF SendRecentre, Conclude
<1>2. Processing' = Processing \ gone
  BY TypeSendRecentre
<1>3. gone \in SUBSET Processing /\ \A q \in Processing \ gone : lk[q].echo # NextKey
  BY DEF WrappedAround
<1>4. /\ NextKey \in Key /\ s.e_min \in Likelihood /\ s.remaining \in SUBSET Complexity
  BY BlankFacts DEF TypeInv, SearchTypes, NextKey, Search
<1>5. LinksOf(lk2)
  BY <1>4, DealtLinks
<1>6. sync_msg'.value = s.e_min
  BY <1>1 DEF Cooked
<1>7. \A r \in SUBSET Complexity : WithShare(m, r) \in Sent /\ WithShare(m, r).value = s.e_min
  BY <1>4, RecentreForms, RecentreValue
<1> HIDE DEF gone, m, lk2
<1>8. p2s' \in [Peers -> Seq(Report)] /\ \A q \in Peers \ gone : p2s'[q] = p2s[q]
  BY <1>1, <1>3, ForgottenReports
<1>9. ASSUME NEW q \in Processing' PROVE peer'[q] = peer[q] /\ Heard(q, lk)
  <2>1. q \in Processing /\ q \in Peers /\ q \notin gone
    BY <1>2, <1>9, PeerTypes
  <2>2. peer'[q] = peer[q]
    BY <1>1, <2>1 DEF ForgetWithReports, Forget
  <2> QED BY <1>8, <2>1, <2>2, HeardBefore
<1>10. Working' /\ ~search'.am_bootstrapping => search'.e_min = Value[search'.centre]
  <2>1. search'.e_min_complexity = NoComplexity
    BY <1>1 DEF FitInv, Synced
  <2> QED BY <2>1, AsGoodAsItsCentre DEF Working
<1> QED BY <1>1, <1>2, <1>3, <1>5, <1>6, <1>7, <1>8, <1>9, <1>10, FindsAnnounced

\* On a new grid a location is wanted first, and at the end of the grids nothing.
LEMMA FindsSendShrunk ==
  ASSUME FindsInv, NEW s \in Search, s.am_bootstrapping, SendShrunk(s, link)
  PROVE  FindsInv'
<1>1. CASE Waiting(s.grid) = {}
  BY <1>1 DEF SendShrunk, FindsInv, Working, Running
<1>2. CASE Waiting(s.grid) # {}
  BY <1>2 DEF SendShrunk, Conclude, FindsInv
<1> QED BY <1>1, <1>2

\* New shares are dealt around the same centre.
LEMMA FindsSendShares ==
  ASSUME TypeInv, FindsInv, Working, Elsewhere,
         NEW s \in Search, s.grid = search.grid, s.centre = search.centre,
         s.am_bootstrapping = search.am_bootstrapping, s.e_min = search.e_min,
         NEW lk, LinksOf(lk), NEW to, NEW b \in BOOLEAN,
         Conclude(s), Keep, Announce(lk, io_key, to, {}, ComplexityFor(b))
  PROVE  FindsInv'
<1>1. search' = s /\ UNCHANGED <<io_key, sync_msg, processing, peer, p2s>>
  BY DEF Conclude, Keep
<1>2. Processing' = Processing
  BY <1>1 DEF Processing
<1>3. ASSUME NEW q \in Processing
      PROVE  \/ s2p'[q] = s2p[q]
             \/ \E n \in Sent : s2p'[q] = Append(s2p[q], n) /\ n.type = "complexity"
  <2>1. CASE \E r \in SUBSET Complexity : s2p'[q] = Append(s2p[q], WithShare(ComplexityFor(b), r))
    BY <2>1, ComplexityForms
  <2> QED BY <2>1, AnnouncedTo, PeerTypes, SMTT(30), ZenonT(40) DEF LinksOf
<1> QED BY <1>1, <1>2, <1>3, FindsPosted

LEMMA FindsSyncTimeout ==
  ASSUME TypeInv, TypeInv', FitInv', KeyInv, FindsInv, SyncTimeout
  PROVE  FindsInv'
<1> DEFINE s == Merged(search)
           r == Recentred(s)
           x == search.e_min_complexity
<1>1. /\ status = "active" /\ sync_timer = "sync" /\ coroutine = "none" /\ Elsewhere
      /\ Waiting(search.grid) # {} /\ Running /\ Working
  BY DEF SyncTimeout, TypeInv, Steady, Elsewhere, Running, Working
<1>2. /\ s \in Search /\ s.grid = search.grid /\ s.centre = search.centre
      /\ s.am_bootstrapping = search.am_bootstrapping /\ LinksOf(MergedLinks)
      /\ x # NoComplexity => x \in Complexity /\ r \in Search /\ r.grid = search.grid
      /\ \A p \in Processing : /\ MergedLinks[p].echo = link[p].echo
                               /\ MergedLinks[p].writing = link[p].writing
                               /\ MergedLinks[p].late = link[p].late
  BY SyncedForms, MergedLinksFacts, PeerTypes
<1>3. s.e_min = search.e_min
  BY MergedFields DEF TypeInv, SearchTypes
<1> HIDE DEF r, s
<1>4. CASE Yield("recentre", r, MergedLinks, x)
  BY <1>4 DEF Yield, FindsInv, Working
<1>5. CASE x # NoComplexity /\ SendRecentre(r, MergedLinks, x)
  BY <1>1, <1>2, <1>5, FindsSendRecentre
<1>6. CASE Yield("level", s, MergedLinks, NoComplexity) /\ UNCHANGED sync_msg
  <2>1. /\ search' = s /\ UNCHANGED <<io_key, peer, s2p, p2s, sync_msg>>
        /\ Processing' = Processing
    BY <1>6 DEF Yield, Processing
  <2> QED BY <1>1, <1>2, <1>3, <2>1, FindsPosted
<1>7. CASE SendComplexities(s, MergedLinks)
  <2> DEFINE lk == Dealt(MergedLinks, s.remaining)
             b == FALSE
  <2>1. Conclude(s) /\ Keep /\ Announce(lk, io_key, Processing, {}, ComplexityFor(b)) /\ b \in BOOLEAN
    BY <1>7 DEF SendComplexities
  <2>2. LinksOf(lk)
    BY <1>2, DealtLinks DEF Search
  <2> HIDE DEF lk, b
  <2> QED BY <1>1, <1>2, <1>3, <2>1, <2>2, FindsSendShares
<1>8. CASE SendAssisted(s, MergedLinks, Assisted)
  <2> DEFINE b == TRUE
  <2>1. /\ Conclude(s) /\ Keep /\ Announce(MergedLinks, io_key, Assisted, {}, ComplexityFor(b))
        /\ b \in BOOLEAN
    BY <1>8 DEF SendAssisted
  <2> HIDE DEF b
  <2> QED BY <1>1, <1>2, <1>3, <2>1, FindsSendShares
<1> QED BY <1>4, <1>5, <1>6, <1>7, <1>8 DEF SyncTimeout, r, s

LEMMA FindsResumeCoroutine ==
  ASSUME TypeInv, TypeInv', FitInv, FitInv', KeyInv, FindsInv, ResumeCoroutine
  PROVE  FindsInv'
<1> DEFINE s == Advanced(search)
<1>1. /\ status = "active" /\ coroutine # "none" /\ Elsewhere /\ Waiting(search.grid) # {}
      /\ Running /\ search \in Search /\ search.remaining = {}
  BY DEF ResumeCoroutine, TypeInv, Steady, SearchTypes, Elsewhere, Running, FitInv
<1>2. /\ s \in Search /\ s.grid = search.grid /\ s.centre = search.centre
      /\ s.am_bootstrapping = search.am_bootstrapping /\ LinksOf(link) /\ s.e_min = search.e_min
  BY <1>1, AdvancedFields, MergedLinksFacts
<1> HIDE DEF s
<1>3. CASE SendShrunk(Shrunk(s), link)
  <2> DEFINE z == Shrunk(s)
  <2>1. z \in Search /\ z.am_bootstrapping /\ SendShrunk(z, link)
    BY <1>1, <1>2, <1>3, ShrunkFields
  <2> HIDE DEF z
  <2> QED BY <2>1, FindsSendShrunk
<1>4. CASE coroutine = "recentre" /\ SendRecentre(s, link, recentre_x)
  <2>1. recentre_x \in Complexity
    BY <1>4 DEF TypeInv, SearchTypes, Steady
  <2> QED BY <1>1, <1>2, <1>4, <2>1, FindsSendRecentre
<1>5. CASE coroutine = "level" /\ SendComplexities(s, link)
  <2> DEFINE lk == Dealt(link, s.remaining)
             b == FALSE
  <2>1. Conclude(s) /\ Keep /\ Announce(lk, io_key, Processing, {}, ComplexityFor(b)) /\ b \in BOOLEAN
    BY <1>5 DEF SendComplexities
  <2>2. LinksOf(lk) /\ Working
    BY <1>1, <1>2, <1>5, DealtLinks DEF Search, Working
  <2> HIDE DEF lk, b
  <2> QED BY <1>1, <1>2, <2>1, <2>2, FindsSendShares
<1> QED BY <1>3, <1>4, <1>5 DEF ResumeCoroutine, s

LEMMA FindsBootReport ==
  ASSUME TypeInv, TypeInv', FitInv, FitInv', KeyInv, WorkInv, NEW p \in Peers, ReportArrives(p),
         NEW m, m = Head(p2s[p]), m.key = io_key, m.type = "boot",
         NEW lk, lk = [link EXCEPT ![p].echo = m.key], OnBootstrappingReport(m, lk)
  PROVE  FindsInv'
<1> DEFINE s == Bootstrapped(search, m.place, m.value)
           gone == WrappedAround(lk, NextKey)
           msg == StateFor(Cooked(s, NextKey))
           lk2 == Dealt(lk, s.remaining)
<1>1. /\ status' = status /\ coroutine' = coroutine /\ coroutine = "none" /\ LinksOf(lk)
      /\ p2s' \in [Peers -> Seq(Report)] /\ m.place \in Place /\ m.value \in Likelihood
      /\ p \in Processing /\ p2s[p] \in Seq(Report) /\ p2s[p] # <<>> /\ status = "active"
  BY ReportRead DEF Elsewhere
<1>2. /\ search' = s /\ sync_msg' = Cooked(s, NextKey) /\ io_key' = NextKey
      /\ sync_timer' = PostedTimer
      /\ Announce(lk2, NextKey, Processing \ gone, gone, msg) /\ Forget(gone)
  BY DEF OnBootstrappingReport
<1>3. Processing' = Processing \ gone
  BY TypeBootReport
<1>4. s \in Search /\ search \in Search
  BY <1>1, BootstrappedSearch DEF TypeInv, SearchTypes
<1>5. s.remaining \in SUBSET Complexity /\ NextKey \in Key /\ Cooked(s, NextKey) \in CookedSync
  BY <1>4, BlankFacts, SearchForms DEF Search, TypeInv, SearchTypes, NextKey
<1>6. SUFFICES ASSUME Working' PROVE FindsInv'
  BY DEF FindsInv
<1>7. Running /\ Working /\ Waiting(search.grid) # {}
  BY <1>1, <1>2, <1>6 DEF Working, Running, PostedTimer, TypeInv, Steady
<1>8. s.e_min_complexity = NoComplexity
  <2>1. m \in Outstanding(p)
    BY <1>1, HeadIsThere DEF Outstanding
  <2>2. Honest(search, evaluated, m)
    BY <1>1, <1>7, <2>1 DEF WorkInv, HonestPeer
  <2>3. m.value = Value[m.place]
    BY <2>2 DEF Honest
  <2>4. search.am_bootstrapping
    BY <1>1, <1>7, <2>1, ReporterKnows DEF TypeFor, SenseOfKey
  <2>5. search.e_min_complexity = NoComplexity
    BY <1>7, <2>4 DEF FitInv, Fit, Sound, Phase, Synced
  <2>6. s.e_min_complexity = search.e_min_complexity
    <3>1. s = Bootstrapped(search, m.place, Value[m.place])
      BY <2>3
    <3> HIDE DEF s
    <3> QED BY <1>1, <1>4, <3>1, BootstrappedFields
  <2> QED BY <2>5, <2>6
<1> HIDE DEF s
<1>9. LinksOf(lk2)
  BY <1>1, <1>5, DealtLinks
<1>10. /\ sync_msg'.value = s.e_min
       /\ \A r \in SUBSET Complexity :
            WithShare(msg, r) \in Sent /\ WithShare(msg, r).value = s.e_min
  <2>1. Cooked(s, NextKey).value = s.e_min
    BY DEF Cooked
  <2> QED BY <1>2, <1>5, <2>1, StateForms, StateValue
<1>11. ~search'.am_bootstrapping => search'.e_min = Value[search'.centre]
  BY <1>2, <1>6, <1>8, AsGoodAsItsCentre DEF Working
<1> HIDE DEF lk2, msg
<1>12. ASSUME NEW q \in Processing'
       PROVE  /\ q \in Processing /\ q \notin gone /\ lk[q].echo # NextKey
              /\ Heard(q, lk) /\ peer'[q] = peer[q]
  <2>1. q \in Members(processing') /\ q \in Processing /\ q \notin gone /\ q \in Peers
    BY <1>3, <1>12, PeerTypes DEF Processing
  <2>2. lk[q].echo # NextKey
    BY <2>1 DEF WrappedAround
  <2> HIDE DEF gone
  <2>3. peer'[q] = peer[q]
    BY <1>2, <2>1 DEF Forget
  <2>4. Heard(q, lk)
    BY <1>7, <2>1, ReportHeard DEF Heard
  <2> QED BY <2>1, <2>2, <2>3, <2>4
<1> HIDE DEF gone
<1> DEFINE to == Processing \ gone
<1>13. /\ search' \in Search /\ sync_msg'.value = search'.e_min /\ io_key' = NextKey
       /\ Announce(lk2, NextKey, to, gone, msg)
  BY <1>2, <1>4, <1>10
<1>14. \A r \in SUBSET Complexity :
         WithShare(msg, r) \in Sent /\ WithShare(msg, r).value = sync_msg'.value
  BY <1>10
<1> HIDE DEF to
<1> QED BY <1>1, <1>9, <1>11, <1>12, <1>13, <1>14, FindsAnnounced, ZenonT(40)

LEMMA FindsReportArrives ==
  ASSUME TypeInv, TypeInv', FitInv, FitInv', KeyInv, WorkInv, FindsInv, NEW p \in Peers,
         ReportArrives(p)
  PROVE  FindsInv'
<1> DEFINE m == Head(p2s[p])
           lk == [link EXCEPT ![p].echo = m.key]
<1>1. CASE m.key = io_key /\ m.type = "boot" /\ OnBootstrappingReport(m, lk)
  BY <1>1, FindsBootReport
<1>2. CASE m.key = io_key /\ m.type = "report" /\ OnPeerReport(p, m, lk)
  BY <1>2, FindsPeerReport
<1>3. CASE /\ m.key # io_key
           /\ IF Stale(io_key, link[p])
              THEN Announce(lk, io_key, {p}, {}, StateFor(sync_msg))
              ELSE link' = lk /\ UNCHANGED s2p
           /\ UNCHANGED <<search, sync_msg, io_key, redistribute, sync_timer, processing, peer>>
  BY <1>3, FindsStaleReport
<1> QED BY <1>1, <1>2, <1>3 DEF ReportArrives

\* A task that is taken up again knows what was saved, and has no peers yet.
LEMMA FindsActivate ==
  ASSUME TypeInv, TypeInv', FitInv', FindsInv, Activate
  PROVE  FindsInv'
<1>1. Processing' = {}
  BY DEF Activate, TypeInv, Steady, netVars, Processing, Members
<1>2. CASE status' # "active"
  BY <1>2 DEF FindsInv, Working, Running
<1>3. ASSUME NEW s, StartFrom(s) PROVE FindsInv'
  <2>1. /\ search' = s /\ sync_msg'.value = s.e_min /\ sync_timer' = "off"
    BY <1>3 DEF StartFrom, Cooked
  <2>2. search'.e_min_complexity = NoComplexity /\ search' \in Search
    BY <2>1 DEF FitInv, Synced, TypeInv, SearchTypes
  <2>3. Working' /\ ~search'.am_bootstrapping =>
          /\ search'.e_min <= sync_msg'.value /\ sync_msg'.value <= Value[search'.centre]
    <3>1. search'.e_min \in Likelihood
      BY <2>2 DEF Search
    <3> QED BY <2>1, <2>2, <3>1, AsGoodAsItsCentre, LikelihoodFacts DEF Working
  <2> QED BY <1>1, <2>3 DEF FindsInv
<1> QED BY <1>2, <1>3 DEF Activate

LEMMA FindsInit == Init => FindsInv
<1>1. Init => search.am_bootstrapping
  BY DEF Init, FreshSearch
<1> QED BY <1>1 DEF FindsInv

LEMMA FindsNext ==
  /\ TypeInv /\ KeyInv /\ WorkInv /\ QuietInv /\ FindsInv /\ FitInv
  /\ TypeInv' /\ FitInv' /\ [Next]_vars
  => FindsInv'
<1>1. SUFFICES ASSUME TypeInv, KeyInv, WorkInv, QuietInv, FindsInv, FitInv, TypeInv', FitInv',
                      [Next]_vars
               PROVE  FindsInv'
  OBVIOUS
<1>2. CASE UNCHANGED vars \/ SaveTimeout
  <2>1. UNCHANGED <<search, io_key, sync_msg, status, sync_timer, coroutine, netVars>>
    BY <1>2 DEF vars, serverVars, taskVars, SaveTimeout
  <2> QED BY <1>1, <2>1 DEF FindsInv, Working, Running, netVars, Processing
<1>3. CASE ServerStep
  <2>1. ASSUME NEW p \in Peers, Leave(p) \/ Lapse(p) PROVE FindsInv'
    <3>1. p \in Processing /\ Lose(p) /\ faults' \in Nat
      BY <1>1, <2>1 DEF Leave, Lapse, Fault, TypeInv, TaskTypes
    <3> QED BY <1>1, <3>1, FindsLose
  <2>2. CASE OnConverged \/ Deactivate \/ Crash
    BY <2>2 DEF OnConverged, Deactivate, Crash, FindsInv, Working, Running
  <2> QED BY <1>1, <1>2, <1>3, <2>1, <2>2, FindsJoin, FindsServerWriteDone, FindsReportArrives,
             FindsSyncTimeout, FindsResumeCoroutine, FindsActivate DEF ServerStep
<1>4. ASSUME NEW p \in Peers, PeerStep(p) PROVE FindsInv'
  BY <1>1, <1>4, FindsPeerStep
<1> QED BY <1>1, <1>2, <1>3, <1>4 DEF Next

-----------------------------------------------------------------------------
(* Together.                                                                *)

SearchInv == TypeInv /\ KeyInv /\ WorkInv /\ QuietInv /\ FindsInv /\ FitInv

LEMMA SearchInit == Init => SearchInv
<1>1. Init => QuietInv
  BY DEF Init, QuietInv, FreshPeer
<1> QED BY <1>1, TypeInit, KeyInit, WorkInit, FindsInit, FitInit DEF SearchInv

LEMMA SearchNext ==
  ASSUME 0 \notin JoinKeys
  PROVE  SearchInv /\ [Next]_vars => SearchInv'
<1>1. SUFFICES ASSUME SearchInv, [Next]_vars PROVE SearchInv'
  OBVIOUS
<1>2. TypeInv' /\ KeyInv' /\ WorkInv' /\ QuietInv' /\ FitInv'
  BY <1>1, TypeNext, KeyNext, WorkNext, QuietNext, FitNext DEF SearchInv
<1>3. FindsInv'
  BY <1>1, <1>2, FindsNext DEF SearchInv
<1> QED BY <1>2, <1>3 DEF SearchInv

\* Convergence speaks of the same grids.
LEMMA SameWaiting == \A g : Abstract!Waiting(g) = Waiting(g)
BY DEF Abstract!Waiting, Waiting

\* VisitedWasEvaluated, for any number of peers, keys, grids and faults, and writes as
\* slow as they like: of all that a lost, late or repeated message may do nothing has a
\* place struck off, in memory or in the saved state, that no peer evaluated.
THEOREM OnlyEvaluatedIsStruckOff ==
  ASSUME 0 \notin JoinKeys
  PROVE  Spec => []VisitedWasEvaluated
<1>1. FitInv => VisitedWasEvaluated
  <2>1. SUFFICES ASSUME FitInv PROVE VisitedWasEvaluated
    OBVIOUS
  <2>2. ASSUME Waiting(search.grid) # {}, NEW pl \in search.visited
        PROVE  <<search.grid, pl>> \in evaluated
    BY <2>1, <2>2 DEF FitInv, Fit, Sound, Struck
  <2>3. ASSUME disk # NoImage, Waiting(disk.grid) # {}, NEW pl \in disk.visited
        PROVE  <<disk.grid, pl>> \in evaluated
    <3>1. Fit(Loaded(disk), evaluated)
      BY <2>1, <2>3 DEF FitInv
    <3>2. Loaded(disk).grid = disk.grid /\ Struck(Loaded(disk)) = disk.visited
      BY LoadedFields
    <3> QED BY <2>3, <3>1, <3>2 DEF Fit, Sound
  <2> QED BY <2>2, <2>3, SameWaiting DEF VisitedWasEvaluated, Abstract!VisitedWasEvaluated
<1>2. Init => SearchInv
  BY SearchInit
<1>3. SearchInv /\ [Next]_vars => SearchInv'
  BY SearchNext
<1>4. SearchInv => FitInv
  BY DEF SearchInv
<1> QED BY <1>1, <1>2, <1>3, <1>4, PTL DEF Spec

-----------------------------------------------------------------------------
(* The end.  When every range has ended the key moves on once more, and this *)
(* time nobody looks whether it has wrapped around.  Where it has not,      *)
(* nothing that is said from then on is taken for news.                     *)

KeyIsNewAtTheEnd ==
  sync_timer' = "converged" /\ sync_timer # "converged" => WrappedAround(link, NextKey) = {}
LastKeyIsNew == [][KeyIsNewAtTheEnd]_vars

\* Nobody is told of the key, or has anything to say about it.
Unheard(key, c, out, said) ==
  /\ \A i \in 1 .. Len(out) : out[i].type # "complexity" => out[i].key # key
  /\ c.key = key => c = FreshPeer /\ (out # <<>> => Head(out).type = "state")
  /\ \A m \in said : m.key # key

EndInv ==
  /\ status # "active" => Waiting(search.grid) # {}
  /\ status = "active" /\ sync_timer = "converged" =>
       /\ search.am_bootstrapping /\ Synced(search) /\ Fit(search, evaluated)
       /\ sync_msg.key # io_key
       /\ \A p \in Processing : Unheard(io_key, peer[p], s2p[p], Outstanding(p))

\* While the task waits for on_converged the key and the search stay.
LEMMA EndKept ==
  ASSUME EndInv, status = "active", sync_timer = "converged",
         UNCHANGED <<status, search, io_key, sync_msg>>, evaluated \subseteq evaluated',
         \A q \in Processing' : Unheard(io_key, peer'[q], s2p'[q], Outstanding(q)')
  PROVE  EndInv'
<1>1. /\ search.am_bootstrapping /\ Synced(search) /\ Fit(search, evaluated)
      /\ sync_msg.key # io_key
  BY DEF EndInv
<1>2. Fit(search, evaluated')
  BY <1>1, GoodWithMoreEvaluated DEF Fit
<1> QED BY <1>1, <1>2 DEF EndInv

\* What is posted then is of the key before.
LEMMA UnheardPosted ==
  ASSUME NEW key, NEW c, NEW out \in Seq(Sent), NEW said, NEW less, less \subseteq said,
         Unheard(key, c, out, said), NEW out2,
         out2 = out \/ \E n \in Sent : out2 = Append(out, n) /\ n.type = "state" /\ n.key # key
  PROVE  Unheard(key, c, out2, less)
<1>1. CASE out2 = out
  BY <1>1 DEF Unheard
<1>2. ASSUME NEW n \in Sent, out2 = Append(out, n), n.type = "state", n.key # key
      PROVE  Unheard(key, c, out2, less)
  <2>1. \A i \in 1 .. Len(out2) : (i \in 1 .. Len(out) /\ out2[i] = out[i]) \/ out2[i] = n
    BY <1>2, AppendProperties, LenProperties
  <2>2. Head(out2) = n \/ (out # <<>> /\ Head(out2) = Head(out))
    <3>1. out2 \in Seq(Sent) /\ out2 # <<>> /\ Head(out2) = out2[1] /\ 1 \in 1 .. Len(out2)
      BY <1>2, AppendProperties, HeadIsThere, EmptySeq
    <3>2. CASE out2[1] = n
      BY <3>1, <3>2
    <3>3. CASE 1 \in 1 .. Len(out) /\ out2[1] = out[1]
      <4>1. out # <<>>
        BY <3>3, EmptySeq
      <4> QED BY <3>1, <3>3, <4>1, HeadIsThere
    <3> QED BY <2>1, <3>1, <3>2, <3>3
  <2> QED BY <1>2, <2>1, <2>2 DEF Unheard
<1> QED BY <1>1, <1>2

LEMMA UnheardRead ==
  ASSUME NEW key, NEW c, NEW d, NEW out \in Seq(Sent), out # <<>>, NEW said, NEW less,
         less \subseteq said, Unheard(key, c, out, said), NEW m, m = Head(out),
         IF m.type = "recentre" \/ (m.type = "state" /\ m.key # c.key)
         THEN d.key = m.key ELSE d.key = c.key
  PROVE  Unheard(key, d, Tail(out), less)
<1> DEFINE t == Tail(out)
<1>1. /\ Len(out) \in Nat \ {0} /\ m = out[1]
      /\ \A i \in 1 .. Len(t) : t[i] = out[i + 1] /\ i + 1 \in 1 .. Len(out)
  BY EmptySeq, LenProperties, HeadTailProperties
<1> HIDE DEF t
<1>2. \A i \in 1 .. Len(t) : t[i].type # "complexity" => t[i].key # key
  BY <1>1 DEF Unheard
<1>3. 1 \in 1 .. Len(out) /\ (m.type # "complexity" => m.key # key)
  BY <1>1 DEF Unheard
<1>4. d.key # key
  BY <1>3 DEF Unheard
<1> QED BY <1>2, <1>4 DEF Unheard, t

LEMMA EndPeerStep ==
  ASSUME TypeInv, EndInv, status = "active", sync_timer = "converged",
         NEW p \in Peers, PeerStep(p)
  PROVE  EndInv'
<1>1. PeerUnchanged /\ evaluated \subseteq evaluated'
  BY DEF PeerStep, PeerReads, SkipIteration, ProcessNothing, Process, Bootstrap,
         PeerWriteDone, RollbackTimeout
<1>2. UNCHANGED <<status, search, io_key, sync_msg, processing>>
  BY <1>1 DEF PeerUnchanged, serverVars, taskVars
<1>3. \A q \in Processing : Unheard(io_key, peer[q], s2p[q], Outstanding(q))
  BY DEF EndInv
<1>4. Processing' = Processing
  BY <1>2 DEF Processing
<1>5. SUFFICES ASSUME NEW q \in Processing
               PROVE  Unheard(io_key, peer'[q], s2p'[q], Outstanding(q)')
  BY <1>1, <1>2, <1>4, EndKept
<1>6. /\ peer \in [Peers -> PeerState] /\ s2p \in [Peers -> Seq(Sent)]
      /\ p2s \in [Peers -> Seq(Report)] /\ q \in Peers
  BY PeerTypes DEF TypeInv, NetTypes
<1>7. CASE PeerReads(p)
  <2>1. PICK d \in PeerState : Read(p, d)
    BY <1>7, PeerReadsNews
  <2>2. /\ peer' = [peer EXCEPT ![p] = d] /\ s2p' = [s2p EXCEPT ![p] = Tail(s2p[p])]
        /\ p2s' = p2s /\ d.deferred \in {NoReport, peer[p].deferred}
    BY <2>1 DEF Read
  <2>3. CASE q # p
    <3>1. peer'[q] = peer[q] /\ s2p'[q] = s2p[q] /\ Outstanding(q)' = Outstanding(q)
      BY <1>6, <2>2, <2>3 DEF Outstanding
    <3> QED BY <1>3, <3>1
  <2>4. CASE q = p
    <3> DEFINE m == Head(s2p[p])
               c == peer[p]
               less == Outstanding(p)'
               said == Outstanding(p)
    <3>1. peer'[p] = d /\ s2p'[p] = Tail(s2p[p]) /\ less \subseteq said
      BY <1>6, <2>2 DEF Outstanding
    <3>2. s2p[p] # <<>> /\ s2p[p] \in Seq(Sent)
      BY <1>6, <1>7 DEF PeerReads
    <3>3. IF m.type = "recentre" \/ (m.type = "state" /\ m.key # c.key)
          THEN d.key = m.key ELSE d.key = c.key
      <4>1. ViewOf(d) = ViewAfter(ViewOf(c), m)
        BY <2>1 DEF Read
      <4>2. m.type = "recentre" \/ m.type = "state" => d.key = m.key
        BY <4>1 DEF ViewOf, ViewAfter
      <4> QED BY <2>1, <4>2 DEF Read
    <3>4. Unheard(io_key, c, s2p[p], said)
      BY <1>3, <2>4
    <3> HIDE DEF m, c, less, said
    <3>5. Unheard(io_key, d, Tail(s2p[p]), less)
      BY <3>1, <3>2, <3>3, <3>4, UnheardRead DEF m
    <3> QED BY <2>4, <3>1, <3>5 DEF less
  <2> QED BY <2>3, <2>4
<1>8. CASE ~PeerReads(p)
  <2>1. s2p' = s2p /\ peer[p] # FreshPeer /\ p \in Processing
    BY <1>8, PeerWorks
  <2>2. PICK d \in PeerState, m \in Report : Works(p, peer[p], d, m)
    BY <1>8, PeerWorks
  <2>3. /\ peer' = [peer EXCEPT ![p] = d]
        /\ p2s' = p2s \/ p2s' = [p2s EXCEPT ![p] = Append(p2s[p], m)]
        /\ d.key = peer[p].key /\ d.deferred \in {NoReport, peer[p].deferred, m}
        /\ m.key = peer[p].key \/ (m = peer[p].deferred /\ m # NoReport)
    BY <2>2 DEF Works, ViewOf, Says
  <2>4. CASE q # p
    <3>1. peer'[q] = peer[q] /\ s2p'[q] = s2p[q] /\ Outstanding(q)' = Outstanding(q)
      <4>1. p2s'[q] = p2s[q]
        BY <1>6, <2>3, <2>4
      <4>2. peer'[q] = peer[q] /\ s2p'[q] = s2p[q]
        BY <1>6, <2>1, <2>3, <2>4
      <4> QED BY <4>1, <4>2 DEF Outstanding
    <3> QED BY <1>3, <3>1
  <2>5. CASE q = p
    <3>1. Unheard(io_key, peer[p], s2p[p], Outstanding(p))
      BY <1>3, <2>5
    <3>2. d.key # io_key
      BY <2>1, <2>3, <3>1 DEF Unheard
    <3>3. m.key # io_key
      <4>1. m = peer[p].deferred /\ m # NoReport => m \in Outstanding(p)
        BY DEF Outstanding
      <4> QED BY <2>3, <3>1, <3>2, <4>1 DEF Unheard
    <3>4. Outstanding(p)' \subseteq Outstanding(p) \cup {m}
      <4> DEFINE in == p2s[p]
                 in2 == p2s'[p]
      <4>1. peer'[p] = d /\ in \in Seq(Report) /\ in2 \in {in, Append(in, m)}
        BY <1>6, <2>3
      <4> HIDE DEF in, in2
      <4>2. \A i \in 1 .. Len(in2) : in2[i] = m \/ (i \in 1 .. Len(in) /\ in2[i] = in[i])
        BY <4>1, AppendProperties, LenProperties
      <4>3. ASSUME NEW i \in 1 .. Len(in2) PROVE in2[i] \in Outstanding(p) \cup {m}
        BY <4>2 DEF Outstanding, in
      <4> QED BY <2>3, <4>1, <4>3 DEF Outstanding, in2
    <3>5. peer'[p] = d /\ s2p'[p] = s2p[p]
      BY <1>6, <2>1, <2>3
    <3> QED BY <2>5, <3>1, <3>2, <3>3, <3>4, <3>5 DEF Unheard
  <2> QED BY <2>4, <2>5
<1> QED BY <1>7, <1>8

\* Whoever joins then, or is told the whole state again, is told of the key before.
LEMMA EndServerStep ==
  ASSUME TypeInv, EndInv, status = "active", sync_timer = "converged", NEW p \in Peers,
         Join(p) \/ Leave(p) \/ Lapse(p) \/ ServerWriteDone(p) \/ ReportArrives(p)
  PROVE  EndInv'
<1>1. sync_msg.key # io_key
  BY DEF EndInv
<1>2. \A q \in Processing : Unheard(io_key, peer[q], s2p[q], Outstanding(q))
  BY DEF EndInv
<1>3. /\ peer \in [Peers -> PeerState] /\ s2p \in [Peers -> Seq(Sent)]
      /\ p2s \in [Peers -> Seq(Report)] /\ Processing \subseteq Peers /\ sync_msg \in CookedSync
  BY PeerTypes DEF TypeInv, NetTypes, SearchTypes
<1>4. ASSUME NEW q \in Processing, peer'[q] = peer[q], Outstanding(q)' \subseteq Outstanding(q),
             \/ s2p'[q] = s2p[q]
             \/ \E n \in Sent : s2p'[q] = Append(s2p[q], n) /\ n.type = "state"
                                /\ n.key = sync_msg.key
      PROVE  Unheard(io_key, peer'[q], s2p'[q], Outstanding(q)')
  <2> DEFINE out2 == s2p'[q]
             said == Outstanding(q)
             less == Outstanding(q)'
  <2>1. /\ out2 = s2p[q] \/ \E n \in Sent : out2 = Append(s2p[q], n) /\ n.type = "state"
                                            /\ n.key # io_key
        /\ Unheard(io_key, peer[q], s2p[q], said) /\ less \subseteq said /\ s2p[q] \in Seq(Sent)
    BY <1>1, <1>2, <1>3, <1>4
  <2> HIDE DEF out2, said, less
  <2>2. Unheard(io_key, peer[q], out2, less)
    BY <2>1, UnheardPosted
  <2> QED BY <1>4, <2>2 DEF out2, less
<1>5. ASSUME NEW lk \in [Peers -> Link], NEW to, Announce(lk, io_key, to, {}, StateFor(sync_msg)),
             NEW q \in Processing
      PROVE  \/ s2p'[q] = s2p[q]
             \/ \E n \in Sent : s2p'[q] = Append(s2p[q], n) /\ n.type = "state"
                                /\ n.key = sync_msg.key
  <2> DEFINE m == StateFor(sync_msg)
             none == {}
  <2>1. /\ TypeInv /\ lk \in [Peers -> Link] /\ Announce(lk, io_key, to, none, m)
        /\ q \in Peers /\ q \notin none
    BY <1>3, <1>5
  <2>2. \A r \in SUBSET Complexity : /\ WithShare(m, r) \in Sent
                                     /\ WithShare(m, r).type = "state"
                                     /\ WithShare(m, r).key = sync_msg.key
    BY <1>3, StateForms DEF WithShare, StateFor
  <2> HIDE DEF m, none
  <2>3. \/ s2p'[q] = s2p[q]
        \/ \E r \in SUBSET Complexity : s2p'[q] = Append(s2p[q], WithShare(m, r))
    BY ONLY <2>1, AnnouncedTo
  <2> QED BY <2>2, <2>3
<1>6. CASE Join(p)
  <2>1. Processing' = Processing \cup {p} /\ p \notin Processing
    BY <1>6, TypeJoin
  <2>2. /\ UNCHANGED <<search, io_key, sync_msg, status, peer, p2s, evaluated>>
        /\ s2p' = [s2p EXCEPT ![p] = <<StateFor(sync_msg)>>]
    BY <1>6 DEF Join, taskVars
  <2>3. ASSUME NEW q \in Processing' PROVE Unheard(io_key, peer'[q], s2p'[q], Outstanding(q)')
    <3>1. CASE q = p
      <4> DEFINE n == StateFor(sync_msg)
      <4>1. n.type = "state" /\ n.key = sync_msg.key
        BY DEF StateFor
      <4>2. peer[q] = FreshPeer /\ p2s[q] = <<>> /\ s2p'[q] = <<n>>
        BY <1>3, <2>1, <2>2, <3>1 DEF TypeInv, Apart, Blank
      <4>3. Outstanding(q)' = {}
        BY <2>2, <4>2 DEF Outstanding, FreshPeer
      <4> HIDE DEF n
      <4>4. Len(<<n>>) = 1 /\ <<n>>[1] = n /\ Head(<<n>>) = n
        OBVIOUS
      <4> QED BY <1>1, <2>2, <4>1, <4>2, <4>3, <4>4 DEF Unheard
    <3>2. CASE q # p
      <4>1. q \in Processing /\ s2p'[q] = s2p[q] /\ Outstanding(q)' = Outstanding(q)
        BY <1>3, <2>1, <2>2, <2>3, <3>2 DEF Outstanding
      <4> QED BY <1>4, <2>2, <4>1
    <3> QED BY <3>1, <3>2
  <2> QED BY <2>2, <2>3, EndKept
<1>7. CASE Leave(p) \/ Lapse(p)
  <2>1. p \in Processing /\ Lose(p) /\ faults' \in Nat
    BY <1>7 DEF Leave, Lapse, Fault, TypeInv, TaskTypes
  <2>2. Processing' = Processing \ {p}
    BY <2>1, TypeLose
  <2>3. /\ UNCHANGED <<search, io_key, sync_msg, status, evaluated>>
        /\ \A q \in Peers : q # p => /\ s2p'[q] = s2p[q] /\ p2s'[q] = p2s[q]
                                     /\ peer'[q] = peer[q]
    BY <1>3, <2>1 DEF Lose, serverVars, Forget
  <2>4. ASSUME NEW q \in Processing' PROVE Unheard(io_key, peer'[q], s2p'[q], Outstanding(q)')
    <3>1. /\ q \in Processing /\ peer'[q] = peer[q] /\ s2p'[q] = s2p[q]
          /\ Outstanding(q)' = Outstanding(q)
      BY <1>3, <2>2, <2>3, <2>4 DEF Outstanding
    <3> QED BY <1>4, <3>1
  <2> QED BY <2>3, <2>4, EndKept
<1>8. CASE ServerWriteDone(p)
  <2> DEFINE done == [link[p] EXCEPT !.writing = FALSE, !.late = FALSE]
             lk == [link EXCEPT ![p] = done]
  <2>1. lk \in [Peers -> Link]
    BY DEF TypeInv, NetTypes, Link
  <2>2. /\ UNCHANGED <<search, io_key, sync_msg, status, evaluated, processing, peer, p2s>>
        /\ s2p' = s2p \/ Announce(lk, io_key, {p}, {}, StateFor(sync_msg))
    BY <1>8 DEF ServerWriteDone, serverVars, taskVars
  <2> HIDE DEF lk
  <2>3. ASSUME NEW q \in Processing' PROVE Unheard(io_key, peer'[q], s2p'[q], Outstanding(q)')
    <3>1. q \in Processing /\ peer'[q] = peer[q] /\ Outstanding(q)' = Outstanding(q)
      BY <2>2, <2>3 DEF Processing, Outstanding
    <3>2. \/ s2p'[q] = s2p[q]
          \/ \E n \in Sent : s2p'[q] = Append(s2p[q], n) /\ n.type = "state"
                             /\ n.key = sync_msg.key
      BY <1>5, <2>1, <2>2, <3>1
    <3> QED BY <1>4, <3>1, <3>2
  <2> QED BY <2>2, <2>3, EndKept
<1>9. CASE ReportArrives(p)
  <2> DEFINE m == Head(p2s[p])
             lk == [link EXCEPT ![p].echo = m.key]
  <2>1. /\ p \in Processing /\ p2s[p] \in Seq(Report) /\ p2s[p] # <<>> /\ LinksOf(lk)
        /\ UNCHANGED <<status, evaluated>>
    BY <1>9, ReportRead DEF Elsewhere
  <2>2. m.key # io_key
    <3>1. m \in Outstanding(p)
      BY <2>1, HeadIsThere DEF Outstanding
    <3> QED BY <1>2, <2>1, <3>1 DEF Unheard
  <2>3. /\ UNCHANGED <<search, sync_msg, io_key, processing, peer>>
        /\ s2p' = s2p \/ Announce(lk, io_key, {p}, {}, StateFor(sync_msg))
    BY <1>9, <2>2 DEF ReportArrives
  <2>4. lk \in [Peers -> Link]
    BY <2>1 DEF LinksOf
  <2> HIDE DEF lk, m
  <2>5. ASSUME NEW q \in Processing' PROVE Unheard(io_key, peer'[q], s2p'[q], Outstanding(q)')
    <3>1. q \in Processing /\ peer'[q] = peer[q] /\ q \in Members(processing')
      BY <2>3, <2>5 DEF Processing
    <3>2. Outstanding(q)' \subseteq Outstanding(q)
      BY <1>9, <3>1, WorkHeard
    <3>3. \/ s2p'[q] = s2p[q]
          \/ \E n \in Sent : s2p'[q] = Append(s2p[q], n) /\ n.type = "state"
                             /\ n.key = sync_msg.key
      BY <1>5, <2>3, <2>4, <3>1
    <3> QED BY <1>4, <3>1, <3>2, <3>3
  <2> QED BY <2>1, <2>3, <2>5, EndKept
<1> QED BY <1>6, <1>7, <1>8, <1>9

\* Whoever seems to know the next key was never told anything.
LEMMA NextKeyUnheard ==
  ASSUME NEW key \in Key, NEW g, NEW l \in Link, NEW c \in PeerState,
         NEW out \in Seq(Sent), NEW in \in Seq(Report), NEW due, NEW next,
         InTouch(key, g, l, c, out, in, due), next = (key + 1) % KeyMod, l.echo # next,
         c.key = next, out # <<>>
  PROVE  Head(out).type = "state"
<1>1. PICK b \in {0, 1}, v \in [0 .. Len(out) -> View] : Linked(key, g, l, c, out, in, due, b, v)
  BY DEF InTouch
<1>2. l.echo \in Key /\ Len(out) \in Nat
  BY LenProperties DEF Link
<1>3. Lag(next, l) = Lag(key, l) + 1 /\ Lag(key, l) \in 0 .. KeyMod - 1
  BY <1>2, LagOfNext, LagIs
<1>4. CASE b = 0
  <2>1. Lag(v[0].key, l) <= Lag(key, l) /\ v[0].key = c.key
    BY <1>1, <1>2, <1>4 DEF Linked, ViewOf
  <2> QED BY <1>3, <2>1
<1>5. CASE b = 1
  <2>1. out[1].type = "state"
    BY <1>1, <1>5 DEF Linked
  <2> QED BY <2>1, HeadIsThere
<1> QED BY <1>4, <1>5

\* The last of the shrinks: the key moves on, and it is news to everybody.
LEMMA EndShrunk ==
  ASSUME TypeInv, KeyInv, Running, Elsewhere, NEW z, SendShrunk(z, link),
         Waiting(z.grid) = {}, WrappedAround(link, NextKey) = {},
         z.am_bootstrapping, Synced(z), Fit(z, evaluated)
  PROVE  EndInv'
<1>1. /\ search' = z /\ io_key' = NextKey /\ sync_msg' = [sync_msg EXCEPT !.grid = z.grid, !.centre = z.centre]
      /\ UNCHANGED <<processing, peer, s2p, p2s>> /\ evaluated' = evaluated /\ status' = status
  BY DEF SendShrunk, Elsewhere
<1>2. sync_msg'.key = io_key /\ io_key \in Key
  BY <1>1 DEF KeyInv, SyncAgrees, TypeInv, SearchTypes, CookedSync
<1>3. NextKey # io_key
  <2>1. KeyMod \in Nat /\ KeyMod > 1
    BY ConvergerAssumption
  <2> QED BY <1>2, <2>1 DEF NextKey, Key
<1>4. ASSUME NEW q \in Processing PROVE Unheard(NextKey, peer[q], s2p[q], Outstanding(q))
  <2> DEFINE l == link[q]
             c == peer[q]
             out == s2p[q]
             in == p2s[q]
             due == Due(io_key, l)
             next == NextKey
  <2>1. /\ l \in Link /\ c \in PeerState /\ out \in Seq(Sent) /\ in \in Seq(Report)
        /\ next = (io_key + 1) % KeyMod /\ q \in Peers
        /\ InTouch(io_key, SenseOfKey, l, c, out, in, due)
    BY <1>4, PeerTypes DEF TypeInv, NetTypes, NextKey, KeyInv, PeerTouch
  <2>2. l.echo # next
    BY <1>4 DEF WrappedAround
  <2>3. \A m \in Outstanding(q) : \/ \E i \in 1 .. Len(in) : m = in[i]
                                  \/ c.deferred # NoReport /\ m = c.deferred
    BY <2>1, OutstandingFacts
  <2> HIDE DEF l, c, out, in, due, next
  <2>4. /\ c.key = next => c = FreshPeer
        /\ \A i \in 1 .. Len(in) : in[i].key # next
        /\ c.deferred # NoReport => c.deferred.key # next
    BY <1>2, <2>1, <2>2, NextKeyIsNew
  <2>5. \A i \in 1 .. Len(out) : out[i].type # "complexity" => out[i].key # next
    BY <1>2, <2>1, <2>2, NextKeyNotSent
  <2>6. c.key = next /\ out # <<>> => Head(out).type = "state"
    BY <1>2, <2>1, <2>2, NextKeyUnheard
  <2> QED BY <2>3, <2>4, <2>5, <2>6 DEF Unheard, c, out, next
<1>5. \A q \in Processing' : Unheard(io_key', peer'[q], s2p'[q], Outstanding(q)')
  BY <1>1, <1>4, ZenonT(40) DEF Processing, Outstanding
<1>6. status = "active" /\ status' = "active"
  BY <1>1 DEF Running
<1> QED BY <1>1, <1>2, <1>3, <1>5, <1>6 DEF EndInv

LEMMA EndResumeCoroutine ==
  ASSUME TypeInv, KeyInv, FitInv, ResumeCoroutine, KeyIsNewAtTheEnd
  PROVE  EndInv'
<1> DEFINE s == Advanced(search)
           z == Shrunk(s)
<1>1. /\ status = "active" /\ coroutine # "none" /\ Elsewhere /\ Waiting(search.grid) # {}
      /\ sync_timer # "converged"
  BY DEF ResumeCoroutine, TypeInv, Steady, Elsewhere
<1>2. status' = "active"
  BY <1>1 DEF Elsewhere
<1>3. CASE sync_timer' # "converged"
  BY <1>2, <1>3 DEF EndInv
<1>4. CASE sync_timer' = "converged"
  <2>1. s.level = NoLevel /\ SendShrunk(z, link)
    BY <1>4 DEF ResumeCoroutine, SendRecentre, SendComplexities, Conclude
  <2>2. Fit(search, evaluated) /\ Synced(search) /\ search.remaining = {}
    BY <1>1 DEF FitInv
  <2>3. s \in Search /\ s.grid = search.grid /\ Synced(s)
    BY <1>1, <2>2, GoodAdvanced DEF Fit
  <2>4. z.am_bootstrapping
    BY DEF Shrunk
  <2> HIDE DEF s
  <2>5. Fit(z, evaluated) /\ Synced(z)
    BY <1>1, <2>3, GoodShrunk DEF Fit, Good
  <2> HIDE DEF z
  <2>6. Waiting(z.grid) = {}
    BY <1>4, <2>1 DEF SendShrunk, Conclude
  <2>7. Running /\ WrappedAround(link, NextKey) = {}
    BY <1>1, <1>4 DEF Running, KeyIsNewAtTheEnd
  <2> QED BY <1>1, <2>1, <2>4, <2>5, <2>6, <2>7, EndShrunk
<1> QED BY <1>3, <1>4

\* Nothing else ends the search, and nothing else begins where all has ended.
LEMMA EndElse ==
  ASSUME TypeInv, EndInv, [Next]_vars, ~ResumeCoroutine,
         ~(status = "active" /\ sync_timer = "converged")
  PROVE  EndInv'
<1>1. CASE status' = "active"
  <2>1. SUFFICES sync_timer' # "converged"
    BY <1>1 DEF EndInv
  <2>2. sync_timer \in {"off", "sync", "converged"}
    BY DEF TypeInv, SearchTypes
  <2>3. CASE UNCHANGED vars
    BY <1>1, <2>3 DEF vars, taskVars, serverVars
  <2>4. CASE \E p \in Peers : PeerStep(p)
    <3>1. PeerUnchanged
      BY <2>4 DEF PeerStep, PeerReads, SkipIteration, ProcessNothing, Process, Bootstrap,
                  PeerWriteDone, RollbackTimeout
    <3> QED BY <1>1, <3>1 DEF PeerUnchanged, taskVars, serverVars
  <2>5. CASE SyncTimeout
    BY <2>5 DEF SyncTimeout, Yield, SendRecentre, SendComplexities, SendAssisted, Conclude
  <2>6. CASE SaveTimeout
    BY <1>1, <2>6 DEF SaveTimeout
  <2>7. CASE OnConverged \/ Deactivate \/ Crash \/ Activate
    BY <1>1, <2>7 DEF OnConverged, Deactivate, Crash, Activate, StartFrom
  <2>8. ASSUME NEW p \in Peers, Join(p) \/ Leave(p) \/ Lapse(p) \/ ServerWriteDone(p)
        PROVE  sync_timer' # "converged"
    BY <1>1, <2>2, <2>8 DEF Join, Leave, Lapse, Lose, ServerWriteDone, PostedTimer, serverVars, taskVars
  <2>9. ASSUME NEW p \in Peers, ReportArrives(p) PROVE sync_timer' # "converged"
    BY <1>1, <2>2, <2>9 DEF ReportArrives, OnBootstrappingReport, OnPeerReport, PostedTimer, taskVars
  <2> QED BY <2>3, <2>4, <2>5, <2>6, <2>7, <2>8, <2>9 DEF Next, ServerStep
<1>2. CASE status' # "active"
  <2>1. SUFFICES Waiting(search'.grid) # {}
    BY <1>2 DEF EndInv
  <2>2. Waiting(FreshSearch.grid) # {}
    BY GridFacts DEF FreshSearch
  <2>3. CASE OnConverged \/ Deactivate \/ Crash
    BY <2>2, <2>3 DEF OnConverged, Deactivate, Crash, StartFrom
  <2>4. CASE status # "active" /\ UNCHANGED search
    BY <2>4 DEF EndInv
  <2>5. CASE Activate
    BY <1>2, <2>4, <2>5 DEF Activate, serverVars
  <2>6. CASE UNCHANGED vars
    BY <1>2, <2>4, <2>6 DEF vars, taskVars, serverVars
  <2>7. CASE \E p \in Peers : PeerStep(p)
    <3>1. PeerUnchanged
      BY <2>7 DEF PeerStep, PeerReads, SkipIteration, ProcessNothing, Process, Bootstrap,
                  PeerWriteDone, RollbackTimeout
    <3> QED BY <1>2, <2>4, <3>1 DEF PeerUnchanged, taskVars, serverVars
  <2>8. CASE SyncTimeout \/ SaveTimeout
    BY <1>2, <2>8 DEF SyncTimeout, SaveTimeout
  <2>9. ASSUME NEW p \in Peers,
               Join(p) \/ Leave(p) \/ Lapse(p) \/ ServerWriteDone(p) \/ ReportArrives(p)
        PROVE  Waiting(search'.grid) # {}
    <3>1. status' = status
      BY <2>9 DEF Join, Leave, Lapse, Lose, ServerWriteDone, ReportArrives, taskVars
    <3>2. ReportArrives(p) \/ Join(p) => status = "active"
      BY DEF ReportArrives, Join
    <3>3. UNCHANGED search \/ ReportArrives(p)
      BY <2>9 DEF Join, Leave, Lapse, Lose, ServerWriteDone, serverVars
    <3> QED BY <1>2, <2>4, <3>1, <3>2, <3>3
  <2> QED BY <2>3, <2>5, <2>6, <2>7, <2>8, <2>9 DEF Next, ServerStep
<1> QED BY <1>1, <1>2

LEMMA EndInit == Init => EndInv
BY DEF Init, EndInv

LEMMA EndNext ==
  TypeInv /\ KeyInv /\ FitInv /\ EndInv /\ [Next]_vars /\ [KeyIsNewAtTheEnd]_vars => EndInv'
<1>1. SUFFICES ASSUME TypeInv, KeyInv, FitInv, EndInv, [Next]_vars, [KeyIsNewAtTheEnd]_vars
               PROVE  EndInv'
  OBVIOUS
<1>2. CASE UNCHANGED vars
  BY <1>1, <1>2, ZenonT(40) DEF vars, serverVars, taskVars, netVars, EndInv, Processing, Outstanding
<1>3. CASE KeyIsNewAtTheEnd /\ ResumeCoroutine
  BY <1>1, <1>3, EndResumeCoroutine
<1>4. CASE status = "active" /\ sync_timer = "converged" /\ ~ResumeCoroutine
  <2>1. ~SyncTimeout /\ ~Activate
    BY <1>4 DEF SyncTimeout, Activate
  <2>2. ASSUME NEW p \in Peers, PeerStep(p) PROVE EndInv'
    BY <1>1, <1>4, <2>2, EndPeerStep
  <2>3. ASSUME NEW p \in Peers,
               Join(p) \/ Leave(p) \/ Lapse(p) \/ ServerWriteDone(p) \/ ReportArrives(p)
        PROVE  EndInv'
    BY <1>1, <1>4, <2>3, EndServerStep
  <2>4. CASE SaveTimeout
    <3>1. /\ UNCHANGED <<status, search, io_key, sync_msg, evaluated>>
          /\ UNCHANGED <<processing, peer, s2p, p2s>>
      BY <2>4 DEF SaveTimeout, netVars
    <3>2. \A q \in Processing' : Unheard(io_key, peer'[q], s2p'[q], Outstanding(q)')
      BY <1>1, <1>4, <3>1, ZenonT(40) DEF Processing, Outstanding, EndInv
    <3> QED BY <1>1, <1>4, <3>1, <3>2, EndKept
  <2>5. CASE OnConverged \/ Deactivate \/ Crash
    <3>1. status' # "active" /\ search' = FreshSearch
      BY <2>5 DEF OnConverged, Deactivate, Crash, StartFrom
    <3> QED BY <3>1, GridFacts DEF FreshSearch, EndInv
  <2> QED BY <1>1, <1>2, <1>4, <2>1, <2>2, <2>3, <2>4, <2>5 DEF Next, ServerStep
<1>5. CASE ~ResumeCoroutine /\ ~(status = "active" /\ sync_timer = "converged")
  BY <1>1, <1>5, EndElse
<1> QED BY <1>1, <1>2, <1>3, <1>4, <1>5

\* So the search is fit at all times, in memory and on disk.
LEMMA AlwaysFit ==
  ASSUME TypeInv, FitInv, EndInv
  PROVE  Fit(search, evaluated) /\ (disk # NoImage => Fit(Loaded(disk), evaluated))
<1>1. CASE status = "active" /\ sync_timer = "converged"
  BY <1>1 DEF EndInv, FitInv
<1>2. CASE ~(status = "active" /\ sync_timer = "converged")
  <2>1. Waiting(search.grid) # {}
    BY <1>2 DEF EndInv, TypeInv, Steady
  <2> QED BY <2>1 DEF FitInv
<1> QED BY <1>1, <1>2

\* Convergence asks the same of a search.
LEMMA SameClaims ==
  /\ \A s : Abstract!CoverageOf(s) <=> CoverageOf(s)
  /\ \A s, places : Abstract!BestOf(s, places) <=> BestOf(s, places)
  /\ \A s : Abstract!Struck(s) = Struck(s)
<1>1. \A s : Abstract!CoverageOf(s) <=> CoverageOf(s)
  BY DEF Abstract!CoverageOf, CoverageOf, Abstract!PlaceOf, PlaceOf, Abstract!Level, Level,
         Abstract!LevelRange, LevelRange
<1>2. \A s, places : Abstract!BestOf(s, places) <=> BestOf(s, places)
  BY DEF Abstract!BestOf, BestOf
<1>3. \A s : Abstract!Struck(s) = Struck(s)
  BY DEF Abstract!Struck, Struck, Abstract!PlaceOf, PlaceOf
<1> QED BY <1>1, <1>2, <1>3

EndedInv == SearchInv /\ EndInv

LEMMA EndedInvariant ==
  ASSUME 0 \notin JoinKeys
  PROVE  Spec /\ LastKeyIsNew => []EndedInv
<1>1. Init => EndedInv
  BY SearchInit, EndInit DEF EndedInv
<1>2. EndedInv /\ [Next]_vars /\ [KeyIsNewAtTheEnd]_vars => EndedInv'
  BY SearchNext, EndNext DEF EndedInv, SearchInv
<1> QED BY <1>1, <1>2, PTL DEF Spec, LastKeyIsNew

\* Coverage, however slow the writes: while shares are dealt, reported, lost with their
\* peers, and merged, no complexity of a level already opened drops out of the search,
\* in memory or in the saved state.
THEOREM NothingSlipsAway ==
  ASSUME 0 \notin JoinKeys
  PROVE  Spec /\ LastKeyIsNew => []Coverage
<1>1. EndedInv => Coverage
  <2>1. SUFFICES ASSUME EndedInv PROVE Coverage
    OBVIOUS
  <2>2. Fit(search, evaluated) /\ (disk # NoImage => Fit(Loaded(disk), evaluated))
    BY <2>1, AlwaysFit DEF EndedInv, SearchInv
  <2>3. ASSUME disk # NoImage PROVE CoverageOf(disk)
    <3> DEFINE s == Loaded(disk)
    <3>1. CoverageOf(s)
      BY <2>2, <2>3 DEF Fit, Sound
    <3>2. /\ s.am_bootstrapping = disk.am_bootstrapping /\ s.level = disk.level
          /\ s.remaining = disk.remaining /\ s.visited = disk.visited
          /\ \A x : PlaceOf(s, x) = PlaceOf(disk, x)
      BY LoadedFields
    <3> HIDE DEF s
    <3> QED BY <3>1, <3>2 DEF CoverageOf
  <2> QED BY <2>2, <2>3, SameClaims DEF Coverage, Abstract!Coverage, Fit, Sound
<1> QED BY <1>1, EndedInvariant, PTL

\* BestOfVisited, where the writes of the peers complete in time: the find that the
\* server holds is the best of all visited places, whatever reports cross with new keys,
\* are dropped with their peers, or come again.
THEOREM BestIsNotLost ==
  ASSUME 0 \notin JoinKeys, ~SlowWrites
  PROVE  Spec /\ LastKeyIsNew => []BestOfVisited
<1>1. EndedInv => BestOfVisited
  <2>1. SUFFICES ASSUME EndedInv PROVE BestOfVisited
    OBVIOUS
  <2>2. Fit(search, evaluated) /\ (disk # NoImage => Fit(Loaded(disk), evaluated))
    BY <2>1, AlwaysFit DEF EndedInv, SearchInv
  <2>3. ASSUME disk # NoImage PROVE BestOf(disk, disk.visited)
    <3> DEFINE s == Loaded(disk)
    <3>1. BestOf(s, Struck(s))
      BY <2>2, <2>3 DEF Fit, Good
    <3>2. /\ s.am_bootstrapping = disk.am_bootstrapping /\ s.e_min = disk.e_min
          /\ Struck(s) = disk.visited
      BY LoadedFields
    <3> HIDE DEF s
    <3> QED BY <3>1, <3>2 DEF BestOf
  <2> QED BY <2>2, <2>3, SameClaims DEF BestOfVisited, Abstract!BestOfVisited, Fit, Good
<1> QED BY <1>1, EndedInvariant, PTL

\* LocatesFromScratch: a location that is about to be accepted finds the search as
\* on_bootstrapping_peer_report asserts it, even after the last shrink of all.
THEOREM LocatedFromScratch ==
  ASSUME 0 \notin JoinKeys
  PROVE  Spec /\ LastKeyIsNew => []LocatesFromScratch
<1>1. EndedInv => LocatesFromScratch
  <2>1. SUFFICES ASSUME EndedInv, status = "active", coroutine = "none", NEW p \in Processing,
                        p2s[p] # <<>>, Head(p2s[p]).key = io_key, Head(p2s[p]).type = "boot"
                 PROVE  /\ search.am_bootstrapping /\ search.visited = {}
                        /\ search.level = 1 /\ search.remaining = LevelRange(1)
    BY DEF LocatesFromScratch
  <2>2. TypeInv /\ KeyInv /\ FitInv /\ EndInv
    BY <2>1 DEF EndedInv, SearchInv
  <2>3. p2s[p] \in Seq(Report) /\ Head(p2s[p]) \in Outstanding(p)
    <3>1. p2s[p] \in Seq(Report)
      BY <2>2, PeerTypes DEF TypeInv, NetTypes
    <3> QED BY <2>1, <3>1, HeadIsThere DEF Outstanding
  <2>4. sync_timer # "converged"
    BY <2>1, <2>2, <2>3 DEF EndInv, Unheard
  <2>5. Running /\ Waiting(search.grid) # {}
    BY <2>1, <2>2, <2>4 DEF Running, TypeInv, Steady
  <2>6. search.am_bootstrapping
    BY <2>1, <2>2, <2>3, <2>5, ReporterKnows DEF TypeFor, SenseOfKey
  <2>7. Phase(search)
    BY <2>2, <2>5 DEF FitInv, Fit, Sound
  <2> QED BY <2>5, <2>6, <2>7 DEF Phase
<1> QED BY <1>1, EndedInvariant, PTL

-----------------------------------------------------------------------------
(* The refinement: the protocol does to the search what Convergence allows. *)

\* Convergence computes with the same operators.
LEMMA SameSets ==
  /\ Abstract!Complexity = Complexity /\ Abstract!NoComplexity = NoComplexity
  /\ Abstract!Grid = Grid /\ Abstract!Level = Level /\ Abstract!NoLevel = NoLevel
  /\ \A l : Abstract!LevelRange(l) = LevelRange(l)
BY DEF Abstract!Complexity, Complexity, Abstract!NoComplexity, NoComplexity, Abstract!Grid, Grid,
       Abstract!Level, Level, Abstract!NoLevel, NoLevel, Abstract!LevelRange, LevelRange

LEMMA SameFresh == Abstract!FreshSearch = FreshSearch
BY SameSets DEF Abstract!FreshSearch, FreshSearch

LEMMA SamePlaceOf == \A s, x : Abstract!PlaceOf(s, x) = PlaceOf(s, x)
BY DEF Abstract!PlaceOf, PlaceOf

LEMMA SameReported ==
  \A s, value, x, done : Abstract!Reported(s, value, x, done) = Reported(s, value, x, done)
BY SameSets DEF Abstract!Reported, Reported

LEMMA SameMerged == \A s : Abstract!Merged(s) = Merged(s)
BY DEF Abstract!Merged, Merged, Abstract!PlaceOf, PlaceOf

LEMMA SameUnvisited == \A s, l : Abstract!Unvisited(s, l) = Unvisited(s, l)
BY DEF Abstract!Unvisited, Unvisited, Abstract!PlaceOf, PlaceOf, Abstract!LevelRange, LevelRange

LEMMA SameFirstOfPlace == \A s, X : Abstract!FirstOfPlace(s, X) = FirstOfPlace(s, X)
BY DEF Abstract!FirstOfPlace, FirstOfPlace, Abstract!PlaceOf, PlaceOf

LEMMA SameBootstrapped ==
  \A s, pl, value : Abstract!Bootstrapped(s, pl, value) = Bootstrapped(s, pl, value)
BY SameWaiting, SameUnvisited, SameFirstOfPlace, ZenonT(40) DEF Abstract!Bootstrapped, Bootstrapped

LEMMA SameRecentred == \A s : Abstract!Recentred(s) = Recentred(s)
BY SameSets, SamePlaceOf, SameUnvisited DEF Abstract!Recentred, Recentred

LEMMA SameOpened == \A s, l : Abstract!Opened(s, l) = Opened(s, l)
BY SameWaiting, SameUnvisited, SameFirstOfPlace
   DEF Abstract!Opened, Opened, Abstract!CullDuplicates, CullDuplicates

LevelAfter(s, open) ==
  LET l == CHOOSE m \in open : \A n \in open : m <= n
  IN [s EXCEPT !.level = l, !.remaining = Opened(s, l)]

LEMMA SameAdvanced == \A s : Abstract!Advanced(s) = Advanced(s)
<1>1. SUFFICES ASSUME NEW s PROVE Abstract!Advanced(s) = Advanced(s)
  OBVIOUS
<1> DEFINE open == {l \in Level : l > s.level /\ Opened(s, l) # {}}
           open2 == {l \in Abstract!Level : l > s.level /\ Abstract!Opened(s, l) # {}}
<1>2. open2 = open
  BY SameSets, SameOpened
<1>3. Advanced(s) = IF s.remaining # {} THEN s
                    ELSE IF open = {} THEN [s EXCEPT !.level = NoLevel] ELSE LevelAfter(s, open)
  BY DEF Advanced, LevelAfter
<1>4. LevelAfter(s, open2) =
        LET l == CHOOSE m \in open2 : \A n \in open2 : m <= n
        IN [s EXCEPT !.level = l, !.remaining = Abstract!Opened(s, l)]
  BY SameOpened DEF LevelAfter
<1>5. Abstract!Advanced(s) = IF s.remaining # {} THEN s
                             ELSE IF open2 = {} THEN [s EXCEPT !.level = Abstract!NoLevel]
                             ELSE LevelAfter(s, open2)
  BY <1>4 DEF Abstract!Advanced
<1> HIDE DEF open, open2
<1> QED BY <1>2, <1>3, <1>5, SameSets

LEMMA SameShrunk == \A s : Abstract!Shrunk(s) = Shrunk(s)
BY SameSets, SameWaiting DEF Abstract!Shrunk, Shrunk

LEMMA SameRunThrough == \A s : Abstract!RunThrough(s) = RunThrough(s)
BY SameSets, SameMerged, SameRecentred, SameAdvanced, SameShrunk
   DEF Abstract!RunThrough, RunThrough

LEMMA SameImages ==
  \A s : /\ Abstract!Saved(s) = Saved(s) /\ Abstract!Loaded(s) = Loaded(s)
         /\ Abstract!Synced(s) = Synced(s)
BY SameSets DEF Abstract!Saved, Saved, Abstract!Loaded, Loaded, Abstract!Synced, Synced

\* A peer looks at places; the search is not touched.
LEMMA PeersEvaluate ==
  ASSUME TypeInv, NEW p \in Peers, PeerStep(p)
  PROVE  Abstract!Evaluate \/ UNCHANGED Abstract!vars
<1>1. UNCHANGED <<status, search, disk>>
  <2>1. PeerUnchanged
    BY DEF PeerStep, PeerReads, SkipIteration, ProcessNothing, Process, Bootstrap,
           PeerWriteDone, RollbackTimeout
  <2> QED BY <2>1 DEF PeerUnchanged, serverVars, taskVars
<1>2. CASE evaluated' = evaluated
  BY <1>1, <1>2 DEF Abstract!vars
<1>3. ASSUME NEW g \in Grid, NEW pl \in Place, evaluated' = evaluated \cup {<<g, pl>>}
      PROVE  Abstract!Evaluate
  BY <1>1, <1>3, SameSets DEF Abstract!Evaluate
<1>4. peer[p].grid \in Grid /\ peer[p].centre \in Place
  BY DEF TypeInv, NetTypes, PeerState
<1>5. CASE Process(p)
  <2>1. PICK x \in LastOfFirstRange(peer[p].remaining) :
          \/ evaluated' = evaluated
          \/ evaluated' = evaluated \cup {<<peer[p].grid, Demod[peer[p].grid][peer[p].centre][x]>>}
    BY <1>5 DEF Process
  <2>2. x \in Complexity
    <3>1. x \in peer[p].remaining
      BY DEF LastOfFirstRange
    <3> QED BY <3>1 DEF TypeInv, NetTypes, PeerState
  <2> DEFINE pl == Demod[peer[p].grid][peer[p].centre][x]
  <2>3. pl \in Place
    BY <1>4, <2>2, SearchAssumption
  <2> HIDE DEF pl
  <2> QED BY <1>2, <1>3, <1>4, <2>1, <2>3 DEF pl
<1>6. CASE Bootstrap(p)
  <2>1. PICK pl \in BootPlaces[peer[p].grid] : evaluated' = evaluated \cup {<<peer[p].grid, pl>>}
    BY <1>6 DEF Bootstrap
  <2>2. pl \in Place
    BY <1>4, <2>1, SearchAssumption
  <2> QED BY <1>3, <1>4, <2>1, <2>2
<1> QED BY <1>2, <1>5, <1>6 DEF PeerStep, PeerReads, SkipIteration, ProcessNothing,
                                PeerWriteDone, RollbackTimeout

\* A location that is accepted was evaluated, on this grid.
LEMMA BootReportLocates ==
  ASSUME EndedInv, NEW p \in Peers, ReportArrives(p), NEW m, m = Head(p2s[p]),
         m.key = io_key, m.type = "boot", search' = Bootstrapped(search, m.place, m.value)
  PROVE  Abstract!Locate
<1>1. /\ status = "active" /\ Elsewhere /\ disk' = disk /\ p \in Processing
      /\ m.place \in Place /\ p2s[p] \in Seq(Report) /\ p2s[p] # <<>>
      /\ TypeInv /\ KeyInv /\ WorkInv /\ FitInv /\ EndInv
  BY ReportRead DEF EndedInv, SearchInv
<1>2. m \in Outstanding(p)
  BY <1>1, HeadIsThere DEF Outstanding
<1>3. sync_timer # "converged"
  BY <1>1, <1>2 DEF EndInv, Unheard
<1>4. Running /\ Working /\ Waiting(search.grid) # {}
  BY <1>1, <1>3 DEF Running, Working, TypeInv, Steady, ReportArrives
<1>5. search.am_bootstrapping
  BY <1>1, <1>2, <1>4, ReporterKnows DEF TypeFor, SenseOfKey
<1>6. m.value = Value[m.place] /\ <<search.grid, m.place>> \in evaluated
  BY <1>1, <1>2, <1>4 DEF WorkInv, HonestPeer, Honest
<1>7. search' = Bootstrapped(search, m.place, Value[m.place])
  BY <1>6
<1>8. search' = Abstract!Bootstrapped(search, m.place, Value[m.place])
  BY <1>7, SameBootstrapped
<1> QED BY <1>1, <1>4, <1>5, <1>6, <1>8, SameWaiting DEF Abstract!Locate, Elsewhere

\* What is reported was evaluated around this centre, and no find is passed over.
LEMMA PeerReportReports ==
  ASSUME ~SlowWrites, EndedInv, NEW p \in Peers, ReportArrives(p), NEW m, m = Head(p2s[p]),
         m.key = io_key, m.type = "report", search' = Reported(search, m.value, m.x, m.done)
  PROVE  Abstract!Report(m.done, m.x) /\ m.done \in SUBSET Complexity
         /\ m.x \in m.done \cup {NoComplexity}
<1>1. /\ status = "active" /\ Elsewhere /\ disk' = disk /\ p \in Processing
      /\ m.value \in Likelihood /\ m.done \in SUBSET Complexity
      /\ m.x \in Complexity \cup {NoComplexity}
      /\ p2s[p] \in Seq(Report) /\ p2s[p] # <<>>
      /\ TypeInv /\ KeyInv /\ WorkInv /\ FindsInv /\ FitInv /\ EndInv
  BY ReportRead DEF EndedInv, SearchInv
<1>2. m \in Outstanding(p)
  BY <1>1, HeadIsThere DEF Outstanding
<1>3. sync_timer # "converged"
  BY <1>1, <1>2 DEF EndInv, Unheard
<1>4. Running /\ Working /\ Waiting(search.grid) # {} /\ Fit(search, evaluated)
  BY <1>1, <1>3 DEF Running, Working, TypeInv, Steady, ReportArrives, FitInv
<1>5. ~search.am_bootstrapping
  BY <1>1, <1>2, <1>4, ReporterKnows DEF TypeFor, SenseOfKey
<1>6. search.centre \in search.visited
  BY <1>4, <1>5 DEF Fit, Sound, Phase
<1>7. Honest(search, evaluated, m)
  BY <1>1, <1>2, <1>4 DEF WorkInv, HonestPeer
<1>8. /\ m.x \in m.done \cup {NoComplexity}
      /\ m.x # NoComplexity => m.value = Value[PlaceOf(search, m.x)]
      /\ \A y \in m.done : PlaceOf(search, y) \in search.visited
                           \/ <<search.grid, PlaceOf(search, y)>> \in evaluated
  BY <1>1, <1>6, <1>7 DEF Honest, Seen
<1> DEFINE value == IF m.x = NoComplexity THEN Largish ELSE Value[PlaceOf(search, m.x)]
           s == Reported(search, value, m.x, m.done)
<1>9. search' = s
  BY <1>8 DEF Reported
<1>10. /\ NoBetter(search, m.done, m.value)
       /\ search.e_min <= m.value \/ m.x # NoComplexity
  <2>1. Bests(search, io_key, peer[p], s2p[p], p2s[p])
    BY <1>1, <1>4, <1>5 DEF FindsInv
  <2>2. 1 \in 1 .. Len(p2s[p]) /\ m = p2s[p][1]
    BY <1>1, HeadIsThere
  <2>3. NoBetter(search, m.done, m.value) /\ Found(search, io_key, p2s[p], 1, m.value)
    BY <2>1, <2>2 DEF Bests
  <2> QED BY <2>2, <2>3 DEF Found
<1>11. search \in Search
  BY <1>1 DEF TypeInv, SearchTypes
<1>12. search'.e_min <= m.value /\ search'.e_min \in Likelihood
  <2>1. search'.e_min = IF m.x # NoComplexity /\ m.value < search.e_min
                        THEN m.value ELSE search.e_min
    BY <1>1, <1>11, ReportedMinimum
  <2>2. m.value \in Int /\ search.e_min \in Int /\ search.e_min \in Likelihood
    BY <1>1, <1>11, LikelihoodFacts DEF Search
  <2> QED BY <1>1, <1>10, <2>1, <2>2
<1>13. \A y \in m.done : Value[PlaceOf(search, y)] >= Target[search'.e_min]
  <2>1. Target[search'.e_min] <= Target[m.value] /\ Target[search'.e_min] \in Int
        /\ Target[m.value] \in Int
    BY <1>1, <1>12, LikelihoodFacts
  <2>2. ASSUME NEW y \in m.done PROVE Value[PlaceOf(search, y)] \in Int
    <3>1. PlaceOf(search, y) \in Place
      BY <1>1, <1>11, PlaceOfIsAPlace
    <3> QED BY <3>1, LikelihoodFacts
  <2> QED BY <1>10, <2>1, <2>2 DEF NoBetter
<1>14. search' = Abstract!Reported(search, value, m.x, m.done)
  BY <1>9, SameReported
<1>15. \A y \in m.done : <<search.grid, PlaceOf(search, y)>>
                           \in {search.grid} \X search.visited \cup evaluated
  BY <1>8
<1> HIDE DEF s
<1> QED BY <1>1, <1>5, <1>8, <1>13, <1>14, <1>15, SamePlaceOf, SameSets
        DEF Abstract!Report, Elsewhere

LEMMA ReportArrivesIsAbstract ==
  ASSUME ~SlowWrites, EndedInv, NEW p \in Peers, ReportArrives(p)
  PROVE  Abstract!Next \/ UNCHANGED Abstract!vars
<1> DEFINE m == Head(p2s[p])
           lk == [link EXCEPT ![p].echo = m.key]
<1>1. CASE m.key = io_key /\ m.type = "boot" /\ OnBootstrappingReport(m, lk)
  <2>1. Abstract!Locate
    BY <1>1, BootReportLocates DEF OnBootstrappingReport
  <2> QED BY <2>1 DEF Abstract!Next
<1>2. CASE m.key = io_key /\ m.type = "report" /\ OnPeerReport(p, m, lk)
  <2>1. /\ Abstract!Report(m.done, m.x) /\ m.done \in SUBSET Complexity
        /\ m.x \in m.done \cup {NoComplexity}
    BY <1>2, PeerReportReports DEF OnPeerReport
  <2> QED BY <2>1, SameSets DEF Abstract!Next
<1>3. CASE UNCHANGED search
  BY <1>3 DEF ReportArrives, taskVars, Abstract!vars
<1> QED BY <1>1, <1>2, <1>3 DEF ReportArrives

\* A sync, whole or in two parts.
LEMMA SyncIsAbstract ==
  ASSUME EndedInv, SyncTimeout \/ ResumeCoroutine
  PROVE  Abstract!SyncStep
<1>1. TypeInv /\ FitInv
  BY DEF EndedInv, SearchInv
<1>2. /\ status = "active" /\ status' = "active" /\ evaluated' = evaluated
      /\ Waiting(search.grid) # {}
  BY <1>1 DEF SyncTimeout, ResumeCoroutine, TypeInv, Steady
<1>3. ASSUME NEW s, Conclude(s), Waiting(s.grid) # {}
      PROVE  /\ search' = s /\ disk' \in {disk, Abstract!Saved(search')}
             /\ Abstract!Waiting(search'.grid) # {}
  BY <1>3, SameImages, SameWaiting DEF Conclude
<1>4. CASE SyncTimeout
  <2> DEFINE s == Merged(search)
             r == Recentred(s)
             x == search.e_min_complexity
  <2>1. \/ x # NoComplexity /\ (Yield("recentre", r, MergedLinks, x) \/ Conclude(r))
        \/ x = NoComplexity /\ (Yield("level", s, MergedLinks, NoComplexity) \/ Conclude(s))
    BY <1>4 DEF SyncTimeout, SendRecentre, SendComplexities, SendAssisted
  <2>2. search \in Search
    BY <1>1 DEF TypeInv, SearchTypes
  <2>3. s.grid = search.grid /\ (x # NoComplexity => r.grid = search.grid)
    <3>1. s \in Search /\ s.grid = search.grid /\ s.e_min_complexity = x
      BY <2>2, MergedFields
    <3> QED BY <3>1, RecentredFields
  <2>4. Abstract!Merged(search) = s /\ Abstract!Recentred(Abstract!Merged(search)) = r
    BY SameMerged, SameRecentred
  <2> HIDE DEF s, r
  <2>5. \/ x # NoComplexity /\ search' = r
        \/ x = NoComplexity /\ search' = s
    BY <1>3, <2>1, <2>3, <1>2 DEF Yield
  <2>6. /\ disk' \in {disk, Abstract!Saved(search')}
        /\ Abstract!Waiting(search'.grid) # {}
    <3>1. CASE UNCHANGED disk
      BY <1>2, <2>3, <2>5, <3>1, SameWaiting
    <3>2. CASE x # NoComplexity /\ Conclude(r)
      BY <1>2, <1>3, <2>3, <3>2
    <3>3. CASE x = NoComplexity /\ Conclude(s)
      BY <1>2, <1>3, <2>3, <3>3
    <3> QED BY <2>1, <3>1, <3>2, <3>3 DEF Yield
  <2> QED BY <1>2, <2>4, <2>5, <2>6, SameSets, SameWaiting DEF Abstract!SyncStep
<1>5. CASE ResumeCoroutine
  <2> DEFINE a == Advanced(search)
             z == Shrunk(a)
  <2>1. Synced(search) /\ search.remaining = {} /\ Fit(search, evaluated)
    BY <1>1, <1>2, <1>5 DEF FitInv, ResumeCoroutine
  <2>2. a.grid = search.grid
    BY <1>2, <2>1, GoodAdvanced DEF Fit
  <2>3. \/ a.level = NoLevel /\ SendShrunk(z, link)
        \/ a.level # NoLevel /\ Conclude(a)
    BY <1>5 DEF ResumeCoroutine, SendRecentre, SendComplexities
  <2>4. Abstract!Advanced(search) = a /\ Abstract!Shrunk(a) = z
    BY SameAdvanced, SameShrunk
  <2> HIDE DEF a, z
  <2>5. /\ search' = IF a.level = NoLevel THEN z ELSE a
        /\ disk' \in {disk, Abstract!Saved(search')}
        /\ Abstract!Waiting(search'.grid) = {} => disk' = Abstract!Saved(search')
    <3>1. CASE a.level # NoLevel /\ Conclude(a)
      BY <1>2, <1>3, <2>2, <3>1
    <3>2. CASE a.level = NoLevel /\ SendShrunk(z, link) /\ Waiting(z.grid) = {}
      BY <3>2, SameImages DEF SendShrunk
    <3>3. CASE a.level = NoLevel /\ SendShrunk(z, link) /\ Waiting(z.grid) # {}
      BY <1>3, <3>3 DEF SendShrunk
    <3> QED BY <2>3, <3>1, <3>2, <3>3
  <2>6. search' = LET b == Abstract!Advanced(search)
                  IN IF b.level = Abstract!NoLevel THEN Abstract!Shrunk(b) ELSE b
    BY <2>4, <2>5, SameSets
  <2> QED BY <1>2, <2>1, <2>5, <2>6, SameImages, SameWaiting DEF Abstract!SyncStep
<1> QED BY <1>4, <1>5

\* A saved image is that of a synced search, a task ends when its ranges have ended,
\* and what stops or resumes a task does so to the search.
LEMMA LifeIsAbstract ==
  ASSUME EndedInv
  PROVE  /\ SaveTimeout => Abstract!Save \/ UNCHANGED Abstract!vars
         /\ OnConverged => Abstract!Complete
         /\ Deactivate \/ Crash => Abstract!Stop
         /\ Activate => Abstract!Resume
<1>1. TypeInv /\ FitInv
  BY DEF EndedInv, SearchInv
<1>2. ASSUME SaveTimeout PROVE Abstract!Save \/ UNCHANGED Abstract!vars
  <2>1. /\ status = "active" /\ UNCHANGED <<status, search, evaluated>>
        /\ disk' = disk \/ (sync_timer = "off" /\ disk' = Saved(search))
    BY <1>2 DEF SaveTimeout
  <2> QED BY <1>1, <2>1, SameImages DEF FitInv, Abstract!Save, Abstract!vars
<1>3. ASSUME OnConverged PROVE Abstract!Complete
  BY <1>1, <1>3, SameWaiting, SameFresh DEF OnConverged, StartFrom, FitInv, Abstract!Complete
<1>4. ASSUME Deactivate \/ Crash PROVE Abstract!Stop
  <2>1. /\ status = "active" /\ status' = "inactive" /\ search' = FreshSearch
        /\ evaluated' = evaluated
        /\ \/ disk' = disk
           \/ sync_timer = "sync" /\ disk' = Saved(RunThrough(search))
           \/ sync_timer = "off" /\ disk' = Saved(search)
    BY <1>4 DEF Deactivate, Crash, StartFrom
  <2>2. sync_timer = "sync" => Waiting(search.grid) # {}
    BY <1>1, <2>1 DEF TypeInv, Steady
  <2>3. sync_timer = "off" => Synced(search)
    BY <1>1 DEF FitInv
  <2> QED BY <2>1, <2>2, <2>3, SameImages, SameRunThrough, SameWaiting, SameFresh
          DEF Abstract!Stop
<1>5. ASSUME Activate PROVE Abstract!Resume
  BY <1>5, SameImages, SameWaiting, SameFresh
     DEF Activate, StartFrom, serverVars, Abstract!Resume
<1> QED BY <1>2, <1>3, <1>4, <1>5

\* Whatever else happens stays between the server and its peers.
LEMMA ConnectionsAreHidden ==
  ASSUME NEW p \in Peers, Join(p) \/ Leave(p) \/ Lapse(p) \/ ServerWriteDone(p)
  PROVE  UNCHANGED Abstract!vars
BY DEF Join, Leave, Lapse, Lose, ServerWriteDone, serverVars, taskVars, Abstract!vars

LEMMA EveryStepIsAbstract ==
  ASSUME ~SlowWrites, EndedInv, [Next]_vars
  PROVE  [Abstract!Next]_(Abstract!vars)
<1>1. CASE UNCHANGED vars
  BY <1>1 DEF vars, serverVars, taskVars, Abstract!vars
<1>2. ASSUME NEW p \in Peers, PeerStep(p) PROVE [Abstract!Next]_(Abstract!vars)
  BY <1>2, PeersEvaluate DEF Abstract!Next, EndedInv, SearchInv
<1>3. ASSUME NEW p \in Peers, ReportArrives(p) PROVE [Abstract!Next]_(Abstract!vars)
  BY <1>3, ReportArrivesIsAbstract
<1>4. ASSUME NEW p \in Peers, Join(p) \/ Leave(p) \/ Lapse(p) \/ ServerWriteDone(p)
      PROVE  [Abstract!Next]_(Abstract!vars)
  BY <1>4, ConnectionsAreHidden
<1>5. CASE SyncTimeout \/ ResumeCoroutine
  BY <1>5, SyncIsAbstract DEF Abstract!Next
<1>6. CASE SaveTimeout \/ OnConverged \/ Deactivate \/ Crash \/ Activate
  BY <1>6, LifeIsAbstract DEF Abstract!Next
<1> QED BY <1>1, <1>2, <1>3, <1>4, <1>5, <1>6 DEF Next, ServerStep

\* Implements, where the writes of the peers complete in time: for any number of peers,
\* keys, grids and faults the protocol - shares, keys, late writes, lost peers, restarts -
\* does nothing to the search that Convergence does not allow.
THEOREM ProtocolImplementsSearch ==
  ASSUME 0 \notin JoinKeys, ~SlowWrites
  PROVE  Spec /\ LastKeyIsNew => Implements
<1>1. Init => Abstract!Init
  BY SameFresh DEF Init, Abstract!Init
<1>2. EndedInv /\ [Next]_vars => [Abstract!Next]_(Abstract!vars)
  BY EveryStepIsAbstract
<1> QED BY <1>1, <1>2, EndedInvariant, PTL DEF Spec, Implements, Abstract!Spec

-----------------------------------------------------------------------------
(* Shares.  Ranks leave no gap, so every share of something is something.   *)

LEMMA Greatest ==
  ASSUME NEW N \in Nat, NEW S \in SUBSET (0 .. N), S # {}
  PROVE  \E m \in S : \A n \in S : n <= m
<1> DEFINE R == {N - n : n \in S}
<1>1. R \in SUBSET Nat /\ R # {}
  <2>1. PICK n \in S : TRUE
    OBVIOUS
  <2>2. N - n \in R
    BY <2>1
  <2>3. \A q \in S : N - q \in Nat
    OBVIOUS
  <2> QED BY <2>2, <2>3
<1>2. PICK r \in R : \A q \in R : r <= q
  <2> HIDE DEF R
  <2> QED BY <1>1, Least
<1>3. PICK m \in S : r = N - m
  BY <1>2
<1>4. ASSUME NEW n \in S PROVE n <= m
  <2>1. N - n \in R /\ n \in Int /\ m \in Int
    OBVIOUS
  <2>2. N - m <= N - n
    BY <1>2, <1>3, <2>1
  <2> QED BY <2>1, <2>2
<1> QED BY <1>4

LEMMA RankFacts ==
  ASSUME NEW N \in Nat, NEW S \in SUBSET (0 .. N)
  PROVE  /\ IsFiniteSet(S) /\ Cardinality(S) \in Nat
         /\ \A x : IsFiniteSet({y \in S : y < x}) /\ Rank(S, x) \in Nat
<1>1. IsFiniteSet(0 .. N)
  BY FS_Interval
<1>2. IsFiniteSet(S) /\ Cardinality(S) \in Nat
  BY <1>1, FS_Subset, FS_CardinalityType
<1>3. ASSUME NEW x PROVE IsFiniteSet({y \in S : y < x}) /\ Rank(S, x) \in Nat
  <2> DEFINE B == {y \in S : y < x}
  <2>1. B \in SUBSET S
    OBVIOUS
  <2> HIDE DEF B
  <2>2. IsFiniteSet(B) /\ Cardinality(B) \in Nat
    BY <1>2, <2>1, FS_Subset, FS_CardinalityType
  <2> QED BY <2>2 DEF B, Rank
<1> QED BY <1>2, <1>3

LEMMA RankOfNext ==
  ASSUME NEW N \in Nat, NEW S \in SUBSET (0 .. N), NEW x \in S, NEW z \in S, z < x,
         \A y \in S : y < x => y <= z
  PROVE  Rank(S, x) = Rank(S, z) + 1
<1> DEFINE B == {y \in S : y < x}
           C == {y \in S : y < z}
<1>1. B = C \cup {z} /\ z \notin C
  <2>1. ASSUME NEW y \in S PROVE y < x <=> y < z \/ y = z
    <3>1. y \in Int /\ x \in Int /\ z \in Int
      OBVIOUS
    <3> QED BY <3>1
  <2>2. ~ (z < z)
    <3>1. z \in Int
      OBVIOUS
    <3> QED BY <3>1
  <2> QED BY <2>1, <2>2
<1>2. IsFiniteSet(C)
  BY RankFacts
<1> HIDE DEF B, C
<1>3. Cardinality(B) = Cardinality(C) + 1
  BY <1>1, <1>2, FS_AddElement
<1> QED BY <1>3 DEF Rank, B, C

LEMMA RankExists ==
  ASSUME NEW N \in Nat, NEW S \in SUBSET (0 .. N), NEW k \in Nat, k < Cardinality(S)
  PROVE  \E x \in S : Rank(S, x) = k
<1> DEFINE T == {x \in S : Rank(S, x) >= k}
<1>1. /\ IsFiniteSet(S) /\ Cardinality(S) \in Nat
      /\ \A x : IsFiniteSet({y \in S : y < x}) /\ Rank(S, x) \in Nat
  BY RankFacts
<1>2. S # {}
  BY <1>1, FS_EmptySet
<1>3. PICK m \in S : \A n \in S : n <= m
  BY <1>2, Greatest
<1>4. m \in T
  <2>1. {y \in S : y < m} = S \ {m}
    <3>1. ASSUME NEW y \in S PROVE y < m <=> y # m
      <4>1. y \in Int /\ m \in Int /\ y <= m
        BY <1>3
      <4> QED BY <4>1
    <3> QED BY <3>1
  <2>2. Cardinality(S \ {m}) = Cardinality(S) - 1
    BY <1>1, FS_RemoveElement
  <2>3. Rank(S, m) = Cardinality(S) - 1
    BY <2>1, <2>2 DEF Rank
  <2> QED BY <1>1, <2>3
<1>5. PICK x \in T : \A y \in T : x <= y
  <2>1. T \in SUBSET Nat
    <3>1. S \subseteq Nat /\ T \subseteq S
      OBVIOUS
    <3> HIDE DEF T
    <3> QED BY <3>1
  <2> HIDE DEF T
  <2> QED BY <1>4, <2>1, Least
<1>6. Rank(S, x) = k
  <2>1. SUFFICES ASSUME Rank(S, x) # k PROVE FALSE
    OBVIOUS
  <2>2. Rank(S, x) \in Nat /\ Rank(S, x) > k /\ x \in S
    <3>1. x \in S /\ Rank(S, x) >= k
      BY <1>5
    <3>2. Rank(S, x) \in Nat
      BY <1>1
    <3> QED BY <2>1, <3>1, <3>2
  <2> DEFINE B == {y \in S : y < x}
  <2>3. B # {}
    <3>1. B = {} => Cardinality(B) = 0
      BY FS_EmptySet
    <3> QED BY <2>2, <3>1 DEF Rank
  <2>4. PICK z \in B : \A y \in B : y <= z
    <3>1. B \in SUBSET (0 .. N)
      OBVIOUS
    <3> HIDE DEF B
    <3> QED BY <2>3, <3>1, Greatest
  <2>5. Rank(S, x) = Rank(S, z) + 1
    BY <2>2, <2>4, RankOfNext
  <2>6. Rank(S, z) \in Nat /\ z \in S /\ z < x
    BY <1>1, <2>4
  <2>7. z \in T
    BY <2>2, <2>5, <2>6
  <2>8. x <= z /\ x \in Int /\ z \in Int
    BY <1>5, <2>7
  <2> QED BY <2>6, <2>8
<1> QED BY <1>6

\* Whoever is dealt a share of something is dealt something.
LEMMA ShareNotEmpty ==
  ASSUME NEW N \in Nat, NEW S \in SUBSET (0 .. N), S # {}, NEW n \in Nat \ {0}, NEW i \in 1 .. n
  PROVE  Share(S, n, i) # {}
<1> DEFINE total == Cardinality(S)
           chunk == total \div n
<1>1. total \in Nat \ {0}
  BY RankFacts, FS_EmptySet
<1> HIDE DEF total
<1>2. CASE total < n
  <2>1. (i - 1) % total \in Nat /\ (i - 1) % total < total
    BY <1>1
  <2>2. PICK x \in S : Rank(S, x) = (i - 1) % total
    BY <2>1, RankExists DEF total
  <2> QED BY <1>2, <2>2 DEF Share, total
<1>3. CASE ~ (total < n)
  <2>1. chunk \in Nat /\ chunk >= 1 /\ n * chunk <= total
    BY <1>1, <1>3
  <2> HIDE DEF chunk
  <2> DEFINE k == (i - 1) * chunk
  <2>2. k \in Nat /\ i * chunk = k + chunk
    BY <2>1
  <2>3. k + chunk <= n * chunk
    <3>1. n * chunk = (n - i) * chunk + i * chunk /\ (n - i) * chunk \in Nat
      BY <2>1
    <3>2. i * chunk \in Nat /\ n * chunk \in Nat
      BY <2>1
    <3> HIDE DEF k
    <3> QED BY <2>2, <3>1, <3>2
  <2>4. n * chunk \in Nat
    BY <2>1
  <2> HIDE DEF k
  <2>5. k < total /\ k \in k .. (i * chunk - 1)
    BY <1>1, <2>1, <2>2, <2>3, <2>4
  <2>6. PICK x \in S : Rank(S, x) = k
    BY <2>2, <2>5, RankExists DEF total
  <2> QED BY <1>3, <2>5, <2>6 DEF Share, total, chunk, k
<1> QED BY <1>2, <1>3

-----------------------------------------------------------------------------
(* Nobody idles unnoticed: what a processing peer is dealt is never nothing, *)
(* and when its share is used up a redistribution is due.                    *)

\* Once the bootstrapping location is the centre there is work around it.
LEMMA BootstrappedHasWork ==
  ASSUME NEW s \in Search, Waiting(s.grid) # {}, NEW pl \in Place, NEW v \in Likelihood
  PROVE  Bootstrapped(s, pl, v).remaining # {}
<1> DEFINE b == [s EXCEPT !.am_bootstrapping = FALSE, !.e_min = v,
                          !.centre = pl, !.visited = {pl}]
           X == Unvisited(b, 1)
<1>1. b.grid = s.grid /\ b.centre = pl /\ b.visited = {pl} /\ s.grid \in Grid
  BY DEF Search
<1>2. Bootstrapped(s, pl, v).remaining =
        IF Waiting(b.grid) = Coefficient THEN X ELSE FirstOfPlace(b, X)
  BY DEF Bootstrapped, Search
<1> HIDE DEF b
<1>3. PICK x \in LevelRange(1) : Demod[s.grid][pl][x] # pl
  BY <1>1, MovingAssumption
<1>4. x \in X
  BY <1>1, <1>3 DEF Unvisited, PlaceOf
<1>5. X \subseteq Complexity
  BY LevelFacts DEF Unvisited
<1> HIDE DEF X
<1>6. FirstOfPlace(b, X) # {}
  BY <1>4, <1>5, FirstOfPlaceCovers
<1> QED BY <1>2, <1>4, <1>6

\* The next level that a coroutine goes on with holds work.
LEMMA AdvancedHasWork ==
  ASSUME NEW s \in Search, s.remaining = {}, Advanced(s).level # NoLevel
  PROVE  Advanced(s).remaining # {}
<1> DEFINE open == {l \in Level : l > s.level /\ Opened(s, l) # {}}
           least == CHOOSE m \in open : \A n \in open : m <= n
<1>1. open # {}
  BY DEF Advanced, Search
<1>2. open \in SUBSET Nat
  <2>1. Level \subseteq Nat /\ open \subseteq Level
    BY LevelFacts
  <2> HIDE DEF open
  <2> QED BY <2>1
<1>3. Advanced(s).remaining = Opened(s, least)
  BY <1>1 DEF Advanced, Search
<1>4. \E m \in open : \A n \in open : m <= n
  <2> HIDE DEF open
  <2> QED BY <1>1, <1>2, Least
<1>5. least \in open
  <2> HIDE DEF open
  <2> QED BY <1>4
<1> HIDE DEF least
<1> QED BY <1>3, <1>5

\* All that process are dealt something of something.
LEMMA DealtSomething ==
  ASSUME TypeInv, NEW lk, LinksOf(lk), NEW rem \in SUBSET Complexity, rem # {},
         NEW q \in Processing
  PROVE  Dealt(lk, rem)[q].remaining # {}
<1> DEFINE i == CHOOSE j \in 1 .. Len(processing) : processing[j] = q
           N == LevelEnd[Len(LevelEnd)] - 1
<1>1. q \in Peers /\ processing \in Seq(Peers) /\ lk[q] \in Link
  BY PeerTypes DEF TypeInv, NetTypes, LinksOf
<1>2. Len(processing) \in Nat /\ \E j \in 1 .. Len(processing) : processing[j] = q
  BY <1>1, LenProperties DEF Processing, Members
<1>3. i \in 1 .. Len(processing)
  BY <1>2
<1>4. Dealt(lk, rem)[q].remaining = Share(rem, Len(processing), i)
  BY <1>1 DEF Dealt, Link
<1>5. N \in Nat /\ rem \in SUBSET (0 .. N)
  BY SearchAssumption, LevelFacts DEF Complexity
<1> HIDE DEF i, N
<1>6. Len(processing) \in Nat \ {0}
  BY <1>2, <1>3
<1> QED BY <1>3, <1>4, <1>5, <1>6, ShareNotEmpty

\* Announcing leaves the shares of the links that it keeps as they are.
LEMMA AnnouncedShares ==
  ASSUME NEW lk \in [Peers -> Link], NEW key, NEW to, NEW gone, NEW m,
         Announce(lk, key, to, gone, m), NEW q \in Peers, q \notin gone
  PROVE  link'[q].remaining = lk[q].remaining
<1>1. \A l \in Link : Posted(key, l).remaining = l.remaining
  BY DEF Posted, Link
<1> QED BY <1>1 DEF Announce

\* IdleMeansRedistribution holds where links are not touched, or shares are kept.
LEMMA IdleKept ==
  ASSUME IdleMeansRedistribution, Settled' => Settled,
         search'.am_bootstrapping = search.am_bootstrapping,
         \A q \in Processing' : q \in Processing /\ link'[q].remaining = link[q].remaining,
         redistribute => redistribute', sync_timer = "sync" => sync_timer' = "sync"
  PROVE  IdleMeansRedistribution'
BY DEF IdleMeansRedistribution

LEMMA IdleJoin ==
  ASSUME TypeInv, IdleMeansRedistribution, NEW p \in Peers, Join(p)
  PROVE  IdleMeansRedistribution'
<1>1. redistribute' /\ (~search'.am_bootstrapping /\ Settled' => sync_timer' = "sync")
  BY DEF Join, PostedTimer, Settled, TypeInv, SearchTypes
<1> QED BY <1>1 DEF IdleMeansRedistribution

LEMMA IdleLose ==
  ASSUME TypeInv, IdleMeansRedistribution, NEW p \in Peers, p \in Processing, Lose(p),
         faults' \in Nat
  PROVE  IdleMeansRedistribution'
<1>1. Processing' = Processing \ {p} /\ UNCHANGED <<serverVars, status>>
  BY TypeLose DEF Lose
<1>2. \A q \in Processing' : q \in Processing /\ link'[q].remaining = link[q].remaining
  BY <1>1, PeerTypes DEF Lose, TypeInv, NetTypes
<1> QED BY <1>1, <1>2, IdleKept DEF serverVars, Settled

LEMMA IdleServerWriteDone ==
  ASSUME TypeInv, IdleMeansRedistribution, NEW p \in Peers, ServerWriteDone(p)
  PROVE  IdleMeansRedistribution'
<1> DEFINE done == [link[p] EXCEPT !.writing = FALSE, !.late = FALSE]
           lk == [link EXCEPT ![p] = done]
<1>1. /\ UNCHANGED <<serverVars, status, processing>> /\ Processing' = Processing
      /\ link \in [Peers -> Link] /\ link[p] \in Link
  BY DEF ServerWriteDone, taskVars, Processing, TypeInv, NetTypes
<1>2. lk \in [Peers -> Link] /\ \A q \in Peers : lk[q].remaining = link[q].remaining
  BY <1>1 DEF Link
<1>3. link' = lk \/ Announce(lk, io_key, {p}, {}, StateFor(sync_msg))
  BY DEF ServerWriteDone
<1> HIDE DEF lk
<1>4. \A q \in Processing' : q \in Processing /\ link'[q].remaining = link[q].remaining
  <2>1. ASSUME NEW q \in Peers PROVE link'[q].remaining = lk[q].remaining
    <3>1. ASSUME Announce(lk, io_key, {p}, {}, StateFor(sync_msg))
          PROVE  link'[q].remaining = lk[q].remaining
      BY <1>2, <3>1, AnnouncedShares
    <3> QED BY <1>3, <3>1
  <2> QED BY <1>1, <1>2, <2>1, PeerTypes
<1> QED BY <1>1, <1>4, IdleKept DEF serverVars, Settled

LEMMA IdleReportArrives ==
  ASSUME TypeInv, IdleMeansRedistribution, NEW p \in Peers, ReportArrives(p)
  PROVE  IdleMeansRedistribution'
<1> DEFINE m == Head(p2s[p])
           lk == [link EXCEPT ![p].echo = m.key]
<1>1. /\ status = "active" /\ coroutine = "none" /\ p \in Processing
      /\ m \in Report /\ m.key \in Key
      /\ m.type = "boot" => m.place \in Place /\ m.value \in Likelihood
      /\ m.type = "report" => /\ m.value \in Likelihood /\ m.done \in SUBSET Complexity
                              /\ m.x \in Complexity \cup {NoComplexity}
      /\ LinksOf(lk) /\ Elsewhere /\ UNCHANGED coroutine
  BY ReportRead
<1>2. lk \in [Peers -> Link] /\ \A q \in Peers : lk[q].remaining = link[q].remaining
  BY <1>1 DEF LinksOf, TypeInv, NetTypes, Link
<1>3. CASE m.key = io_key /\ m.type = "boot" /\ OnBootstrappingReport(m, lk)
  <2> DEFINE s == Bootstrapped(search, m.place, m.value)
             gone == WrappedAround(lk, NextKey)
  <2>1. Processing' = Processing \ gone
    <3> HIDE DEF lk
    <3>1. lk = [link EXCEPT ![p].echo = m.key]
      BY DEF lk
    <3> HIDE DEF m
    <3>2. m = Head(p2s[p])
      BY DEF m
    <3> QED BY <1>3, <3>1, <3>2, TypeBootReport
  <2>2. CASE Settled'
    <3>1. sync_timer # "converged"
      BY <1>3, <2>2 DEF OnBootstrappingReport, PostedTimer, Settled
    <3>2. s.remaining # {} /\ s.remaining \in SUBSET Complexity
      <4>1. search \in Search /\ Waiting(search.grid) # {}
        BY <1>1, <3>1 DEF TypeInv, SearchTypes, Steady
      <4>2. s \in Search
        BY <1>1, <1>3, <4>1, BootstrappedSearch
      <4>3. s.remaining # {}
        BY <1>1, <1>3, <4>1, BootstrappedHasWork
      <4> HIDE DEF s
      <4> QED BY <4>2, <4>3 DEF Search
    <3> DEFINE rem == s.remaining
    <3> HIDE DEF s
    <3>3. Announce(Dealt(lk, rem), NextKey, Processing \ gone, gone, StateFor(Cooked(s, NextKey)))
      BY <1>3 DEF OnBootstrappingReport, s
    <3> HIDE DEF rem, lk, gone
    <3>4. Dealt(lk, rem) \in [Peers -> Link]
      BY <1>2, <3>2, DealtFacts DEF rem
    <3>5. \A q \in Processing' : link'[q].remaining = Dealt(lk, rem)[q].remaining
      BY <2>1, <3>3, <3>4, AnnouncedShares, PeerTypes
    <3>6. \A q \in Processing : Dealt(lk, rem)[q].remaining # {}
      BY <1>1, <3>2, DealtSomething DEF rem
    <3> QED BY <2>1, <3>5, <3>6 DEF IdleMeansRedistribution
  <2> QED BY <2>2 DEF IdleMeansRedistribution
<1>4. CASE m.key = io_key /\ m.type = "report" /\ OnPeerReport(p, m, lk)
  <2>1. /\ Processing' = Processing /\ search'.am_bootstrapping = search.am_bootstrapping
    <3> HIDE DEF lk
    <3>1. lk = [link EXCEPT ![p].echo = m.key]
      BY DEF lk
    <3> HIDE DEF m
    <3>2. m = Head(p2s[p])
      BY DEF m
    <3> QED BY <1>4, <3>1, <3>2, TypePeerReport
  <2>2. /\ redistribute => redistribute'
        /\ lk[p].remaining \ m.done = {} => redistribute'
        /\ sync_timer' = PostedTimer
        /\ link' = [lk EXCEPT ![p].remaining = lk[p].remaining \ m.done]
    BY <1>4 DEF OnPeerReport
  <2> HIDE DEF lk, m
  <2>3. /\ link'[p].remaining = lk[p].remaining \ m.done
        /\ \A q \in Peers : q # p => link'[q] = lk[q]
    BY <1>2, <2>2 DEF Link
  <2>4. Settled' => Settled /\ sync_timer' = "sync"
    BY <1>1, <2>2 DEF PostedTimer, Settled, TypeInv, SearchTypes
  <2> QED BY <1>2, <2>1, <2>2, <2>3, <2>4, PeerTypes DEF IdleMeansRedistribution
<1>5. CASE /\ IF Stale(io_key, link[p])
              THEN Announce(lk, io_key, {p}, {}, StateFor(sync_msg))
              ELSE link' = lk /\ UNCHANGED s2p
           /\ UNCHANGED <<search, sync_msg, io_key, redistribute, sync_timer, processing, peer>>
  <2> HIDE DEF lk
  <2>1. Processing' = Processing
    BY <1>5 DEF Processing
  <2>2. \A q \in Processing' : q \in Processing /\ link'[q].remaining = link[q].remaining
    BY <1>2, <1>5, <2>1, AnnouncedShares, PeerTypes, SMTT(30), ZenonT(40)
  <2> QED BY <1>1, <1>5, <2>2, IdleKept DEF Settled, Elsewhere
<1> QED BY <1>3, <1>4, <1>5 DEF ReportArrives

\* New shares of something that remains: nobody idles.
LEMMA IdleDealt ==
  ASSUME TypeInv, NEW lk, LinksOf(lk), NEW rem \in SUBSET Complexity, rem # {},
         NEW key, NEW to, NEW gone, NEW m, Announce(Dealt(lk, rem), key, to, gone, m),
         \A q \in Processing' : q \in Processing /\ q \notin gone
  PROVE  \A q \in Processing' : link'[q].remaining # {}
<1>1. Dealt(lk, rem) \in [Peers -> Link]
  BY DealtFacts DEF LinksOf
<1>2. \A q \in Processing : Dealt(lk, rem)[q].remaining # {} /\ q \in Peers
  BY DealtSomething, PeerTypes
<1>3. ASSUME NEW q \in Processing' PROVE link'[q].remaining # {}
  <2>1. link'[q].remaining = Dealt(lk, rem)[q].remaining
    BY <1>1, <1>2, AnnouncedShares
  <2> QED BY <1>2, <2>1
<1> QED BY <1>3

LEMMA IdleSendRecentre ==
  ASSUME TypeInv, Elsewhere, status = "active", NEW s \in Search, Waiting(s.grid) # {},
         s.remaining # {}, NEW lk, LinksOf(lk), NEW x \in Complexity, SendRecentre(s, lk, x)
  PROVE  IdleMeansRedistribution'
<1> DEFINE rem == s.remaining
           gone == WrappedAround(lk, NextKey)
<1>1. Processing' = Processing \ gone
  BY TypeSendRecentre
<1>2. rem \in SUBSET Complexity /\ rem # {}
  BY DEF Search
<1>3. Announce(Dealt(lk, rem), NextKey, Processing \ gone, gone, RecentreFor(NextKey, s.e_min, x))
  BY DEF SendRecentre
<1>4. \A q \in Processing' : q \in Processing /\ q \notin gone
  BY <1>1
<1> HIDE DEF rem, gone
<1>5. \A q \in Processing' : link'[q].remaining # {}
  BY <1>2, <1>3, <1>4, IdleDealt
<1> QED BY <1>5 DEF IdleMeansRedistribution

LEMMA IdleSendComplexities ==
  ASSUME TypeInv, NEW s \in Search, s.remaining # {}, NEW lk, LinksOf(lk),
         SendComplexities(s, lk)
  PROVE  IdleMeansRedistribution'
<1> DEFINE rem == s.remaining
<1>1. rem \in SUBSET Complexity /\ rem # {}
  BY DEF Search
<1>2. Announce(Dealt(lk, rem), io_key, Processing, {}, ComplexityFor(FALSE)) /\ Processing' = Processing
  BY DEF SendComplexities, Keep, Processing
<1> HIDE DEF rem
<1>3. \A q \in Processing' : link'[q].remaining # {}
  BY <1>1, <1>2, IdleDealt
<1> QED BY <1>3 DEF IdleMeansRedistribution

\* Shares are left alone only where each of them holds something.
LEMMA IdleSendAssisted ==
  ASSUME TypeInv, IdleMeansRedistribution, Settled, sync_timer = "sync", ~WantsRedistribution,
         NEW s \in Search, s.am_bootstrapping = search.am_bootstrapping,
         SendAssisted(s, MergedLinks, Assisted)
  PROVE  IdleMeansRedistribution'
<1>1. SUFFICES ASSUME ~search'.am_bootstrapping, NEW q \in Processing', link'[q].remaining = {}
               PROVE  FALSE
  BY DEF IdleMeansRedistribution
<1>2. /\ Processing' = Processing /\ search' = s
      /\ Announce(MergedLinks, io_key, Assisted, {}, ComplexityFor(TRUE))
  BY DEF SendAssisted, Keep, Conclude, Processing
<1>3. q \in Processing /\ q \in Peers /\ MergedLinks \in [Peers -> Link]
  BY <1>1, <1>2, PeerTypes, MergedLinksFacts DEF LinksOf
<1>4. MergedLinks[q].remaining = {}
  <2> DEFINE lk == MergedLinks
             m == ComplexityFor(TRUE)
  <2>1. Announce(lk, io_key, Assisted, {}, m) /\ lk \in [Peers -> Link]
    BY <1>2, <1>3
  <2> HIDE DEF lk, m
  <2>2. link'[q].remaining = lk[q].remaining
    BY <1>3, <2>1, AnnouncedShares
  <2> QED BY <1>1, <2>2 DEF lk
<1>5. search.accumulated = {} /\ ~redistribute
  BY <1>3, <1>4 DEF WantsRedistribution
<1>6. MergedLinks[q] = link[q]
  BY <1>3, <1>5 DEF MergedLinks, Assisted
<1> QED BY <1>1, <1>2, <1>3, <1>4, <1>5, <1>6 DEF IdleMeansRedistribution

\* A coroutine is only in progress when the level is used up.
DoneInv == coroutine # "none" => search.remaining = {}

LEMMA DoneNext == DoneInv /\ [Next]_vars => DoneInv'
<1> SUFFICES ASSUME DoneInv, [Next]_vars PROVE DoneInv'
  OBVIOUS
<1>1. CASE UNCHANGED <<coroutine, search>>
  BY <1>1 DEF DoneInv
<1>2. CASE coroutine' = "none"
  BY <1>2 DEF DoneInv
<1>3. CASE SyncTimeout \/ ResumeCoroutine
  <2>1. ASSUME NEW where, NEW s, NEW lk, NEW x, Yield(where, s, lk, x), s.remaining = {}
        PROVE  DoneInv'
    BY <2>1 DEF Yield, DoneInv
  <2>2. ASSUME NEW s, Conclude(s) PROVE DoneInv'
    BY <1>2, <2>2 DEF Conclude
  <2>3. ASSUME NEW s, NEW lk, SendShrunk(s, lk) PROVE DoneInv'
    BY <1>2, <2>2, <2>3 DEF SendShrunk
  <2>4. ASSUME SyncTimeout PROVE DoneInv'
    BY <2>1, <2>2, <2>4 DEF SyncTimeout, SendRecentre, SendComplexities, SendAssisted
  <2>5. ASSUME ResumeCoroutine PROVE DoneInv'
    BY <2>2, <2>3, <2>5 DEF ResumeCoroutine, SendRecentre, SendComplexities
  <2> QED BY <1>3, <2>4, <2>5
<1>4. CASE SaveTimeout \/ OnConverged \/ Activate \/ Deactivate \/ Crash
  BY <1>1, <1>2, <1>4 DEF SaveTimeout, OnConverged, Activate, Deactivate, Crash, StartFrom, serverVars
<1>5. ASSUME NEW p \in Peers, Join(p) \/ Leave(p) \/ Lapse(p) \/ ServerWriteDone(p) PROVE DoneInv'
  BY <1>1, <1>5 DEF Join, Leave, Lapse, Lose, ServerWriteDone, serverVars
<1>6. ASSUME NEW p \in Peers, ReportArrives(p) PROVE DoneInv'
  BY <1>2, <1>6 DEF ReportArrives
<1>7. ASSUME NEW p \in Peers, PeerStep(p) PROVE DoneInv'
  BY <1>1, <1>7 DEF PeerStep, PeerReads, SkipIteration, ProcessNothing, Process, Bootstrap,
                    PeerWriteDone, RollbackTimeout, PeerUnchanged, serverVars
<1>8. CASE UNCHANGED vars
  BY <1>1, <1>8 DEF vars, serverVars
<1> QED BY <1>3, <1>4, <1>5, <1>6, <1>7, <1>8 DEF Next, ServerStep

LEMMA IdleSyncTimeout ==
  ASSUME TypeInv, IdleMeansRedistribution, SyncTimeout
  PROVE  IdleMeansRedistribution'
<1> DEFINE s == Merged(search)
           r == Recentred(s)
           x == search.e_min_complexity
<1>1. /\ status = "active" /\ sync_timer = "sync" /\ coroutine = "none" /\ Elsewhere
      /\ Waiting(search.grid) # {}
  BY DEF SyncTimeout, TypeInv, Steady, Elsewhere
<1>2. /\ s \in Search /\ s.grid = search.grid /\ s.am_bootstrapping = search.am_bootstrapping
      /\ x # NoComplexity => x \in Complexity /\ r \in Search /\ r.grid = search.grid
      /\ LinksOf(MergedLinks)
  BY SyncedForms, MergedLinksFacts
<1>3. CASE Yield("recentre", r, MergedLinks, x) \/ Yield("level", s, MergedLinks, NoComplexity)
  <2>1. coroutine' # "none"
    BY <1>3 DEF Yield
  <2> QED BY <2>1 DEF IdleMeansRedistribution, Settled
<1>4. CASE x # NoComplexity /\ r.remaining # {} /\ SendRecentre(r, MergedLinks, x)
  <2> HIDE DEF r, s
  <2> QED BY <1>1, <1>2, <1>4, IdleSendRecentre
<1>5. CASE s.remaining # {} /\ SendComplexities(s, MergedLinks)
  <2> HIDE DEF r, s
  <2> QED BY <1>2, <1>5, IdleSendComplexities
<1>6. CASE ~WantsRedistribution /\ SendAssisted(s, MergedLinks, Assisted)
  <2> HIDE DEF r, s
  <2>1. Settled
    BY <1>1 DEF Settled
  <2> QED BY <1>1, <1>2, <1>6, <2>1, IdleSendAssisted
<1> QED BY <1>3, <1>4, <1>5, <1>6 DEF SyncTimeout

LEMMA IdleResumeCoroutine ==
  ASSUME TypeInv, DoneInv, IdleMeansRedistribution, ResumeCoroutine
  PROVE  IdleMeansRedistribution'
<1> DEFINE s == Advanced(search)
<1>1. /\ status = "active" /\ coroutine # "none" /\ Elsewhere /\ Waiting(search.grid) # {}
      /\ search \in Search /\ search.remaining = {}
  BY DEF ResumeCoroutine, TypeInv, Steady, Elsewhere, DoneInv, SearchTypes
<1>2. /\ s \in Search /\ s.grid = search.grid /\ LinksOf(link)
      /\ s.level # NoLevel => s.remaining # {}
  BY <1>1, AdvancedForms, AdvancedHasWork, MergedLinksFacts
<1> HIDE DEF s
<1>3. CASE SendShrunk(Shrunk(s), link)
  <2>1. Shrunk(s) \in Search /\ Shrunk(s).am_bootstrapping
    BY <1>1, <1>2, ShrunkFields
  <2> DEFINE z == Shrunk(s)
  <2> HIDE DEF z
  <2>2. search' = z \/ sync_timer' = "converged"
    BY <1>3 DEF SendShrunk, Conclude, z
  <2> QED BY <2>1, <2>2 DEF IdleMeansRedistribution, Settled, z
<1>4. CASE s.level # NoLevel /\ coroutine = "recentre" /\ SendRecentre(s, link, recentre_x)
  <2>1. recentre_x \in Complexity
    BY <1>4 DEF TypeInv, SearchTypes, Steady
  <2> QED BY <1>1, <1>2, <1>4, <2>1, IdleSendRecentre
<1>5. CASE s.level # NoLevel /\ SendComplexities(s, link)
  BY <1>2, <1>5, IdleSendComplexities
<1> QED BY <1>3, <1>4, <1>5 DEF ResumeCoroutine, s

LEMMA IdleNext ==
  TypeInv /\ DoneInv /\ IdleMeansRedistribution /\ [Next]_vars => IdleMeansRedistribution'
<1> SUFFICES ASSUME TypeInv, DoneInv, IdleMeansRedistribution, [Next]_vars
             PROVE  IdleMeansRedistribution'
  OBVIOUS
<1>1. CASE UNCHANGED <<status, coroutine, sync_timer, search, redistribute, processing, link>>
  <2>1. \A q \in Processing' : q \in Processing /\ link'[q].remaining = link[q].remaining
    BY <1>1 DEF Processing
  <2> QED BY <1>1, <2>1, IdleKept DEF Settled
<1>2. CASE UNCHANGED vars
  BY <1>1, <1>2 DEF vars, serverVars, taskVars, netVars
<1>3. ASSUME NEW p \in Peers, PeerStep(p) PROVE IdleMeansRedistribution'
  <2>1. PeerUnchanged
    BY <1>3 DEF PeerStep, PeerReads, SkipIteration, ProcessNothing, Process, Bootstrap,
                PeerWriteDone, RollbackTimeout
  <2> QED BY <1>1, <2>1 DEF PeerUnchanged, serverVars, taskVars
<1>4. CASE SyncTimeout \/ ResumeCoroutine
  BY <1>4, IdleSyncTimeout, IdleResumeCoroutine
<1>5. CASE SaveTimeout
  BY <1>1, <1>5 DEF SaveTimeout, netVars
<1>6. CASE OnConverged \/ Deactivate \/ Crash
  <2>1. status' # "active"
    BY <1>6, TypeLeaving
  <2> QED BY <2>1 DEF IdleMeansRedistribution, Settled
<1>7. CASE Activate
  <2>1. Processing' = {}
    BY <1>7 DEF Activate, TypeInv, Steady, netVars, Processing, Members
  <2> QED BY <2>1 DEF IdleMeansRedistribution
<1>8. ASSUME NEW p \in Peers, Join(p) \/ Leave(p) \/ Lapse(p) \/ ServerWriteDone(p) \/ ReportArrives(p)
      PROVE  IdleMeansRedistribution'
  <2>1. CASE Join(p)
    BY <2>1, IdleJoin
  <2>2. CASE Leave(p) \/ Lapse(p)
    <3>1. p \in Processing /\ Lose(p) /\ faults' \in Nat
      BY <2>2 DEF Leave, Lapse, Fault, TypeInv, TaskTypes
    <3> QED BY <3>1, IdleLose
  <2>3. CASE ServerWriteDone(p)
    BY <2>3, IdleServerWriteDone
  <2>4. CASE ReportArrives(p)
    BY <2>4, IdleReportArrives
  <2> QED BY <1>8, <2>1, <2>2, <2>3, <2>4
<1> QED BY <1>2, <1>3, <1>4, <1>5, <1>6, <1>7, <1>8 DEF Next, ServerStep

\* IdleMeansRedistribution: a peer that has used up its share - because it did all of it,
\* or because others did - is dealt a new one at the next sync, and the timer of that sync
\* runs.  What it takes is that no peer is ever dealt an empty share: not of the
\* complexities around a centre (MovingAssumption), nor of a level that was opened.
THEOREM NobodyIdles == Spec => []IdleMeansRedistribution
<1>1. Init => IdleMeansRedistribution
  <2>1. Init => Processing = {}
    BY DEF Init, Processing, Members
  <2> QED BY <2>1 DEF IdleMeansRedistribution
<1>2. Init => DoneInv
  BY DEF Init, DoneInv
<1> QED BY <1>1, <1>2, TypeInit, TypeNext, DoneNext, IdleNext, PTL DEF Spec

-----------------------------------------------------------------------------
(* A peer owes its share: it is in the last message that waits for the peer, *)
(* or else - unless the whole state is due to be sent - with the peer, or in *)
(* a report that the server will take for one on the current key.            *)

Accounted(key, c, in) ==
  c.remaining \cup c.unreported
  \cup {x \in Complexity : \E i \in 1 .. Len(in) : /\ in[i].key = key /\ in[i].type = "report"
                                                   /\ x \in in[i].done}

Owes(key, l, c, out, in) ==
  ~l.late => IF out # <<>> THEN l.remaining \subseteq out[Len(out)].remaining
             ELSE c.key = key => l.remaining \subseteq Accounted(key, c, in)

OwesPeer(p) == Owes(io_key, link[p], peer[p], s2p[p], p2s[p])

OweInv ==
  ~SlowWrites /\ Settled /\ ~search.am_bootstrapping => \A p \in Processing : OwesPeer(p)

\* What is announced to a peer holds the share that its link does, or is late.
LEMMA OwesAnnounced ==
  ASSUME TypeInv, NEW lk \in [Peers -> Link], NEW key, NEW to, NEW gone, NEW m,
         \A r \in SUBSET Complexity : WithShare(m, r) \in Sent /\ WithShare(m, r).remaining = r,
         Announce(lk, key, to, gone, m), NEW q \in Peers, q \notin gone, q \in to
  PROVE  OwesPeer(q)'
<1> DEFINE l == lk[q]
           n == WithShare(m, l.remaining)
           out == s2p[q]
<1>1. l \in Link /\ out \in Seq(Sent) /\ l.remaining \in SUBSET Complexity
  BY PeerTypes DEF Link
<1>2. n \in Sent /\ n.remaining = l.remaining
  BY <1>1
<1>3. link'[q] = Posted(key, l) /\ link'[q].remaining = l.remaining
  <2>1. link'[q] = Posted(key, l)
    BY DEF Announce
  <2>2. link'[q].remaining = l.remaining
    BY AnnouncedShares
  <2> QED BY <2>1, <2>2
<1>4. CASE ~CanWrite(key, l)
  <2>1. link'[q].late
    BY <1>1, <1>3, <1>4, PostedFacts
  <2> QED BY <2>1 DEF OwesPeer, Owes
<1>5. CASE CanWrite(key, l)
  <2>1. s2p'[q] = Append(out, n)
    BY <1>5 DEF Announce, WithShare
  <2> HIDE DEF n, out, l
  <2>2. Append(out, n) # <<>> /\ Append(out, n)[Len(Append(out, n))] = n
    BY <1>1, <1>2, AppendProperties, LenProperties, EmptySeq
  <2> QED BY <1>2, <1>3, <2>1, <2>2 DEF OwesPeer, Owes
<1> QED BY <1>4, <1>5

\* The messages that are sent have the share filled in.
LEMMA SharesFilledIn ==
  /\ \A m \in CookedSync, r \in SUBSET Complexity :
       WithShare(StateFor(m), r) \in Sent /\ WithShare(StateFor(m), r).remaining = r
  /\ \A k \in Key, v \in Likelihood, x \in Complexity, r \in SUBSET Complexity :
       WithShare(RecentreFor(k, v, x), r) \in Sent /\ WithShare(RecentreFor(k, v, x), r).remaining = r
  /\ \A b \in BOOLEAN, r \in SUBSET Complexity :
       WithShare(ComplexityFor(b), r) \in Sent /\ WithShare(ComplexityFor(b), r).remaining = r
<1>1. \A m, r : WithShare(StateFor(m), r).remaining = r
  BY DEF WithShare, StateFor
<1>2. \A k, v, x, r : WithShare(RecentreFor(k, v, x), r).remaining = r
  BY DEF WithShare, RecentreFor
<1>3. \A b, r : WithShare(ComplexityFor(b), r).remaining = r
  BY DEF WithShare, ComplexityFor
<1> QED BY <1>1, <1>2, <1>3, StateForms, RecentreForms, ComplexityForms

\* All processing peers are told at once.
LEMMA OweToAll ==
  ASSUME TypeInv, NEW lk \in [Peers -> Link], NEW key, NEW to, NEW gone, NEW m,
         \A r \in SUBSET Complexity : WithShare(m, r) \in Sent /\ WithShare(m, r).remaining = r,
         Announce(lk, key, to, gone, m), Processing' \subseteq to,
         \A q \in Processing' : q \in Processing /\ q \notin gone
  PROVE  OweInv'
<1>1. \A q \in Processing' : q \in Peers
  BY PeerTypes
<1>2. \A q \in Processing' : OwesPeer(q)'
  BY <1>1, OwesAnnounced
<1> QED BY <1>2 DEF OweInv

\* A smaller share is owed by whoever owed the larger one and reads what it did; what
\* others report changes nothing.
LEMMA OwesLess ==
  ASSUME NEW q, OwesPeer(q), io_key' = io_key, s2p'[q] = s2p[q], peer'[q] = peer[q],
         p2s'[q] = p2s[q], link'[q].late = link[q].late,
         link'[q].remaining \subseteq link[q].remaining
  PROVE  OwesPeer(q)'
BY DEF OwesPeer, Owes

\* Nobody is concerned but, maybe, those that are told the new share.
LEMMA OweKept ==
  ASSUME OweInv, Settled' => Settled, io_key' = io_key,
         search'.am_bootstrapping = search.am_bootstrapping,
         \A q \in Processing' :
           \/ OwesPeer(q)'
           \/ /\ q \in Processing /\ peer'[q] = peer[q] /\ s2p'[q] = s2p[q]
              /\ p2s'[q] = p2s[q] /\ link'[q].late = link[q].late
              /\ link'[q].remaining \subseteq link[q].remaining
  PROVE  OweInv'
<1>1. SUFFICES ASSUME ~SlowWrites, Settled', ~search'.am_bootstrapping, NEW q \in Processing'
               PROVE  OwesPeer(q)'
  BY DEF OweInv
<1>2. Settled /\ ~search.am_bootstrapping
  BY <1>1
<1>3. CASE q \in Processing
  BY <1>1, <1>2, <1>3, OwesLess DEF OweInv
<1> QED BY <1>3

LEMMA OweJoin ==
  ASSUME TypeInv, OweInv, NEW p \in Peers, Join(p)
  PROVE  OweInv'
<1> DEFINE l == [NoLink EXCEPT !.echo = io_key, !.writing = TRUE]
           n == StateFor(sync_msg)
<1>1. link'[p] = l /\ s2p'[p] = <<n>> /\ l.remaining = {}
  BY DEF Join, TypeInv, NetTypes, NoLink
<1> HIDE DEF l, n
<1>2. OwesPeer(p)'
  BY <1>1 DEF OwesPeer, Owes
<1>3. Processing' = Processing \cup {p}
  BY TypeJoin
<1>4. ASSUME NEW q \in Processing', q # p
      PROVE  /\ q \in Processing /\ peer'[q] = peer[q] /\ s2p'[q] = s2p[q]
             /\ p2s'[q] = p2s[q] /\ link'[q] = link[q]
  <2>1. q \in Processing /\ q \in Peers
    BY <1>3, <1>4, PeerTypes
  <2> QED BY <1>4, <2>1 DEF Join, TypeInv, NetTypes
<1>5. Settled' => Settled
  BY DEF Join, PostedTimer, Settled, taskVars
<1>6. io_key' = io_key /\ search' = search
  BY DEF Join
<1> QED BY <1>2, <1>4, <1>5, <1>6, OweKept

LEMMA OweLose ==
  ASSUME TypeInv, OweInv, NEW p \in Peers, p \in Processing, Lose(p), faults' \in Nat
  PROVE  OweInv'
<1>1. Processing' = Processing \ {p} /\ UNCHANGED <<serverVars, status>>
  BY TypeLose DEF Lose
<1>2. ASSUME NEW q \in Processing'
      PROVE  /\ q \in Processing /\ peer'[q] = peer[q] /\ s2p'[q] = s2p[q]
             /\ p2s'[q] = p2s[q] /\ link'[q] = link[q]
  <2>1. q \in Processing /\ q # p /\ q \in Peers
    BY <1>1, <1>2, PeerTypes
  <2> QED BY <2>1 DEF Lose, Forget, TypeInv, NetTypes
<1> QED BY <1>1, <1>2, OweKept DEF serverVars, Settled

LEMMA OweServerWriteDone ==
  ASSUME TypeInv, OweInv, NEW p \in Peers, ServerWriteDone(p)
  PROVE  OweInv'
<1> DEFINE done == [link[p] EXCEPT !.writing = FALSE, !.late = FALSE]
           lk == [link EXCEPT ![p] = done]
           m == StateFor(sync_msg)
<1>1. /\ UNCHANGED <<serverVars, status, processing, peer, p2s>> /\ Processing' = Processing
      /\ link \in [Peers -> Link] /\ link[p] \in Link /\ sync_msg \in CookedSync
  BY DEF ServerWriteDone, taskVars, Processing, TypeInv, NetTypes, SearchTypes
<1>2. lk \in [Peers -> Link] /\ \A q \in Peers : q # p => lk[q] = link[q]
  BY <1>1 DEF Link
<1>3. \/ link[p].late /\ Announce(lk, io_key, {p}, {}, m)
      \/ ~link[p].late /\ link' = lk /\ s2p' = s2p
  BY DEF ServerWriteDone
<1>4. /\ done.remaining = link[p].remaining /\ done.late = FALSE /\ lk[p] = done
      /\ link[p].late \in BOOLEAN
  BY <1>1 DEF Link
<1>5. \A r \in SUBSET Complexity : WithShare(m, r) \in Sent /\ WithShare(m, r).remaining = r
  BY <1>1, SharesFilledIn
<1> HIDE DEF lk, m, done
<1>6. ASSUME NEW q \in Processing', q # p
      PROVE  /\ q \in Processing /\ peer'[q] = peer[q] /\ s2p'[q] = s2p[q]
             /\ p2s'[q] = p2s[q] /\ link'[q] = link[q]
  <2>1. q \in Processing /\ q \in Peers
    BY <1>1, <1>6, PeerTypes
  <2> QED BY <1>1, <1>2, <1>3, <1>6, <2>1 DEF Announce
<1>7. \/ OwesPeer(p)'
      \/ /\ peer'[p] = peer[p] /\ s2p'[p] = s2p[p] /\ p2s'[p] = p2s[p]
         /\ link'[p].late = link[p].late /\ link'[p].remaining = link[p].remaining
  <2>1. CASE Announce(lk, io_key, {p}, {}, m)
    <3>1. OwesPeer(p)'
      <4> DEFINE to == {p}
                 gone == {}
      <4>1. p \in to /\ p \notin gone /\ Announce(lk, io_key, to, gone, m)
        BY <2>1
      <4> HIDE DEF to, gone
      <4> QED BY <1>2, <1>5, <4>1, OwesAnnounced
    <3> QED BY <3>1
  <2>2. CASE ~link[p].late /\ link' = lk /\ s2p' = s2p
    BY <1>1, <1>4, <2>2
  <2> QED BY <1>3, <2>1, <2>2
<1>8. Settled' => Settled
  BY <1>1 DEF Settled, serverVars
<1> QED BY <1>1, <1>6, <1>7, <1>8, OweKept DEF serverVars

\* A report that counts takes what it says is done off the share that is owed.
LEMMA OwesReported ==
  ASSUME NEW key, NEW l, NEW h, NEW c, NEW out, NEW in \in Seq(Report), in # <<>>,
         NEW m, m = Head(in), Owes(key, l, c, out, in), h.late = l.late,
         \/ m.key = key /\ m.type = "report" /\ h.remaining = l.remaining \ m.done
         \/ m.key # key /\ h.remaining = l.remaining
  PROVE  Owes(key, h, c, out, Tail(in))
<1>1. CASE out # <<>>
  BY <1>1 DEF Owes
<1>2. CASE out = <<>> /\ ~l.late /\ c.key = key
  <2>1. l.remaining \subseteq Accounted(key, c, in)
    BY <1>2 DEF Owes
  <2>2. ASSUME NEW i \in 1 .. Len(in) PROVE in[i] = m \/ \E j \in 1 .. Len(Tail(in)) : in[i] = Tail(in)[j]
    <3>1. /\ Len(in) \in Nat /\ Len(Tail(in)) = Len(in) - 1 /\ in[1] = m
          /\ \A j \in 1 .. Len(Tail(in)) : Tail(in)[j] = in[j + 1]
      BY HeadTailProperties, LenProperties
    <3>2. CASE i # 1
      <4>1. i - 1 \in 1 .. Len(Tail(in)) /\ (i - 1) + 1 = i
        BY <3>1, <3>2
      <4> QED BY <3>1, <4>1
    <3> QED BY <3>1, <3>2
  <2>3. \A x \in Accounted(key, c, in) :
          x \in Accounted(key, c, Tail(in)) \/ (m.key = key /\ m.type = "report" /\ x \in m.done)
    BY <2>2 DEF Accounted
  <2>4. h.remaining \subseteq Accounted(key, c, Tail(in))
    BY <2>1, <2>3
  <2> QED BY <1>2, <2>4 DEF Owes
<1> QED BY <1>1, <1>2 DEF Owes

LEMMA OweReportArrives ==
  ASSUME TypeInv, OweInv, NEW p \in Peers, ReportArrives(p)
  PROVE  OweInv'
<1> DEFINE m == Head(p2s[p])
           lk == [link EXCEPT ![p].echo = m.key]
<1>1. /\ status = "active" /\ coroutine = "none" /\ p \in Processing
      /\ p2s[p] \in Seq(Report) /\ p2s[p] # <<>> /\ m \in Report /\ m.key \in Key
      /\ m.type = "boot" => m.place \in Place /\ m.value \in Likelihood
      /\ LinksOf(lk) /\ Elsewhere /\ UNCHANGED coroutine
      /\ \A q \in Members(processing') : p2s'[q] = IF q = p THEN Tail(p2s[p]) ELSE p2s[q]
  BY ReportRead
<1>2. /\ lk \in [Peers -> Link]
      /\ \A q \in Peers : lk[q].remaining = link[q].remaining /\ lk[q].late = link[q].late
      /\ \A q \in Peers : q # p => lk[q] = link[q]
  BY <1>1 DEF LinksOf, TypeInv, NetTypes, Link
<1>3. CASE m.key = io_key /\ m.type = "boot" /\ OnBootstrappingReport(m, lk)
  <2> DEFINE s == Bootstrapped(search, m.place, m.value)
             gone == WrappedAround(lk, NextKey)
             to == Processing \ gone
             n == StateFor(Cooked(s, NextKey))
  <2>1. Processing' = Processing \ gone
    <3> HIDE DEF lk
    <3>1. lk = [link EXCEPT ![p].echo = m.key]
      BY DEF lk
    <3> HIDE DEF m
    <3>2. m = Head(p2s[p])
      BY DEF m
    <3> QED BY <1>3, <3>1, <3>2, TypeBootReport
  <2>2. s \in Search /\ s.remaining \in SUBSET Complexity
    <3>1. s \in Search
      BY <1>1, <1>3, BootstrappedSearch DEF TypeInv, SearchTypes
    <3> HIDE DEF s
    <3> QED BY <3>1 DEF Search
  <2> DEFINE deal == Dealt(lk, s.remaining)
  <2>3. Announce(deal, NextKey, to, gone, n)
    BY <1>3 DEF OnBootstrappingReport
  <2>4. deal \in [Peers -> Link]
    <3> DEFINE rem == s.remaining
    <3> HIDE DEF rem, lk, s
    <3> QED BY <1>2, <2>2, DealtFacts DEF rem
  <2>5. \A r \in SUBSET Complexity : WithShare(n, r) \in Sent /\ WithShare(n, r).remaining = r
    <3>1. Cooked(s, NextKey) \in CookedSync
      <4> HIDE DEF s
      <4> QED BY <2>2, SearchForms, BlankFacts DEF NextKey, TypeInv, SearchTypes
    <3> QED BY <3>1, SharesFilledIn
  <2> HIDE DEF s, deal, n, to, gone
  <2> QED BY <2>1, <2>3, <2>4, <2>5, OweToAll DEF to
<1>4. CASE m.key = io_key /\ m.type = "report" /\ OnPeerReport(p, m, lk)
  <2>1. Processing' = Processing /\ search'.am_bootstrapping = search.am_bootstrapping
    <3> HIDE DEF lk
    <3>1. lk = [link EXCEPT ![p].echo = m.key]
      BY DEF lk
    <3> HIDE DEF m
    <3>2. m = Head(p2s[p])
      BY DEF m
    <3> QED BY <1>4, <3>1, <3>2, TypePeerReport
  <2>2. /\ sync_timer' = PostedTimer /\ UNCHANGED <<io_key, s2p, peer>>
        /\ link' = [lk EXCEPT ![p].remaining = lk[p].remaining \ m.done]
    BY <1>4 DEF OnPeerReport
  <2> HIDE DEF lk
  <2>3. /\ link'[p].remaining = link[p].remaining \ m.done /\ link'[p].late = link[p].late
        /\ \A q \in Peers : q # p => link'[q] = link[q]
    BY <1>2, <2>2 DEF Link
  <2>4. Settled' => Settled
    BY <1>1, <2>2 DEF PostedTimer, Settled
  <2>5. SUFFICES ASSUME ~SlowWrites, Settled, ~search.am_bootstrapping, NEW q \in Processing
                 PROVE  OwesPeer(q)'
    BY <2>1, <2>4 DEF OweInv
  <2>6. OwesPeer(q) /\ q \in Peers /\ q \in Members(processing')
    BY <2>1, <2>5, PeerTypes DEF OweInv, Processing
  <2>7. CASE q # p
    BY <1>1, <2>2, <2>3, <2>6, <2>7, OwesLess
  <2>8. CASE q = p
    <3>1. Owes(io_key, link'[p], peer[p], s2p[p], Tail(p2s[p]))
      BY <1>1, <1>4, <2>3, <2>6, <2>8, OwesReported DEF OwesPeer
    <3>2. p2s'[p] = Tail(p2s[p])
      BY <1>1, <2>6, <2>8
    <3> QED BY <2>2, <2>8, <3>1, <3>2 DEF OwesPeer
  <2> QED BY <2>7, <2>8
<1>5. CASE /\ m.key # io_key
           /\ IF Stale(io_key, link[p])
              THEN Announce(lk, io_key, {p}, {}, StateFor(sync_msg))
              ELSE link' = lk /\ UNCHANGED s2p
           /\ UNCHANGED <<search, sync_msg, io_key, redistribute, sync_timer, processing, peer>>
  <2> DEFINE to == {p}
             gone == {}
             n == StateFor(sync_msg)
  <2>1. Processing' = Processing /\ Members(processing') = Processing
    BY <1>5 DEF Processing
  <2>2. Announce(lk, io_key, to, gone, n) \/ (link' = lk /\ s2p' = s2p)
    BY <1>5
  <2>3. \A r \in SUBSET Complexity : WithShare(n, r) \in Sent /\ WithShare(n, r).remaining = r
    BY SharesFilledIn DEF TypeInv, SearchTypes
  <2>4. p \in to /\ p \notin gone /\ \A q \in Peers : q # p => q \notin to /\ q \notin gone
    OBVIOUS
  <2> HIDE DEF to, gone, n, lk
  <2>5. ASSUME NEW q \in Processing', q # p
        PROVE  /\ q \in Processing /\ peer'[q] = peer[q] /\ s2p'[q] = s2p[q]
               /\ p2s'[q] = p2s[q] /\ link'[q] = link[q]
    <3>1. q \in Processing /\ q \in Peers
      BY <2>1, <2>5, PeerTypes
    <3> QED BY <1>1, <1>2, <1>5, <2>1, <2>2, <2>4, <2>5, <3>1 DEF Announce
  <2>6. CASE Announce(lk, io_key, to, gone, n)
    <3>1. OwesPeer(p)'
      BY <1>2, <2>3, <2>4, <2>6, OwesAnnounced
    <3>2. Settled' => Settled
      BY <1>1, <1>5 DEF Settled, Elsewhere
    <3> QED BY <1>5, <2>5, <3>1, <3>2, OweKept
  <2>7. CASE link' = lk /\ s2p' = s2p
    <3>1. OwesPeer(p) => OwesPeer(p)'
      <4>1. OwesPeer(p) => Owes(io_key, link'[p], peer[p], s2p[p], Tail(p2s[p]))
        BY <1>1, <1>2, <1>5, <2>7, OwesReported DEF OwesPeer
      <4> QED BY <1>1, <1>5, <2>1, <2>7, <4>1 DEF OwesPeer
    <3>2. SUFFICES ASSUME ~SlowWrites, Settled', ~search'.am_bootstrapping, NEW q \in Processing'
                   PROVE  OwesPeer(q)'
      BY DEF OweInv
    <3>3. OwesPeer(q)
      BY <1>1, <1>5, <2>1, <3>2 DEF OweInv, Settled, Elsewhere
    <3>4. CASE q # p
      BY <1>5, <2>5, <3>3, <3>4, OwesLess
    <3> QED BY <3>1, <3>3, <3>4
  <2> QED BY <2>2, <2>6, <2>7
<1> QED BY <1>3, <1>4, <1>5 DEF ReportArrives

\* The centre moves, or new shares are dealt: all are told.
LEMMA OweSendRecentre ==
  ASSUME TypeInv, Elsewhere, status = "active", NEW s \in Search, Waiting(s.grid) # {},
         NEW lk, LinksOf(lk), NEW x \in Complexity, SendRecentre(s, lk, x)
  PROVE  OweInv'
<1> DEFINE rem == s.remaining
           gone == WrappedAround(lk, NextKey)
           to == Processing \ gone
           deal == Dealt(lk, rem)
           m == RecentreFor(NextKey, s.e_min, x)
<1>1. Processing' = Processing \ gone
  BY TypeSendRecentre
<1>2. rem \in SUBSET Complexity /\ s.e_min \in Likelihood
  BY DEF Search
<1>3. Announce(deal, NextKey, to, gone, m)
  BY DEF SendRecentre
<1>4. deal \in [Peers -> Link]
  <2> HIDE DEF rem
  <2> QED BY <1>2, DealtFacts DEF LinksOf
<1>5. \A r \in SUBSET Complexity : WithShare(m, r) \in Sent /\ WithShare(m, r).remaining = r
  <2>1. NextKey \in Key
    BY BlankFacts DEF NextKey, TypeInv, SearchTypes
  <2> QED BY <1>2, <2>1, SharesFilledIn
<1> HIDE DEF rem, gone, deal, m, to
<1> QED BY <1>1, <1>3, <1>4, <1>5, OweToAll DEF to

LEMMA OweSendComplexities ==
  ASSUME TypeInv, NEW s \in Search, NEW lk, LinksOf(lk), SendComplexities(s, lk)
  PROVE  OweInv'
<1> DEFINE rem == s.remaining
           gone == {}
           to == Processing
           deal == Dealt(lk, rem)
           m == ComplexityFor(FALSE)
<1>1. rem \in SUBSET Complexity
  BY DEF Search
<1>2. Announce(deal, io_key, to, gone, m) /\ Processing' = Processing
  BY DEF SendComplexities, Keep, Processing
<1>3. deal \in [Peers -> Link]
  <2> HIDE DEF rem
  <2> QED BY <1>1, DealtFacts DEF LinksOf
<1>4. \A r \in SUBSET Complexity : WithShare(m, r) \in Sent /\ WithShare(m, r).remaining = r
  BY SharesFilledIn
<1>5. \A q \in Processing' : q \in Processing /\ q \notin gone
  BY <1>2
<1>6. Processing' \subseteq to
  BY <1>2
<1> HIDE DEF rem, gone, deal, m, to
<1> QED BY <1>2, <1>3, <1>4, <1>5, <1>6, OweToAll

\* Where others did part of a share its owner is told the rest.
LEMMA OweSendAssisted ==
  ASSUME TypeInv, OweInv, Settled, NEW s \in Search,
         s.am_bootstrapping = search.am_bootstrapping,
         SendAssisted(s, MergedLinks, Assisted)
  PROVE  OweInv'
<1> DEFINE lk == MergedLinks
           m == ComplexityFor(TRUE)
           gone == {}
           to == Assisted
<1>1. /\ Processing' = Processing /\ search' = s /\ Announce(lk, io_key, to, gone, m)
      /\ UNCHANGED <<io_key, peer, p2s>>
  BY DEF SendAssisted, Keep, Conclude, Processing
<1>2. lk \in [Peers -> Link] /\ \A q \in Peers : q \notin to => lk[q] = link[q]
  BY MergedLinksFacts DEF LinksOf, MergedLinks
<1>3. \A r \in SUBSET Complexity : WithShare(m, r) \in Sent /\ WithShare(m, r).remaining = r
  BY SharesFilledIn
<1>4. \A q \in Peers : q \notin gone
  OBVIOUS
<1> HIDE DEF lk, m, to, gone
<1>5. ASSUME NEW q \in Processing'
      PROVE  \/ OwesPeer(q)'
             \/ /\ q \in Processing /\ peer'[q] = peer[q] /\ s2p'[q] = s2p[q]
                /\ p2s'[q] = p2s[q] /\ link'[q] = link[q]
  <2>1. q \in Processing /\ q \in Peers
    BY <1>1, <1>5, PeerTypes
  <2>2. CASE q \in to
    BY <1>1, <1>2, <1>3, <1>4, <2>1, <2>2, OwesAnnounced
  <2>3. CASE q \notin to
    BY <1>1, <1>2, <1>4, <2>1, <2>3 DEF Announce
  <2> QED BY <2>2, <2>3
<1> QED BY <1>1, <1>5, OweKept

LEMMA OweSyncTimeout ==
  ASSUME TypeInv, OweInv, SyncTimeout
  PROVE  OweInv'
<1> DEFINE s == Merged(search)
           r == Recentred(s)
           x == search.e_min_complexity
<1>1. /\ status = "active" /\ sync_timer = "sync" /\ coroutine = "none" /\ Elsewhere
      /\ Waiting(search.grid) # {}
  BY DEF SyncTimeout, TypeInv, Steady, Elsewhere
<1>2. /\ s \in Search /\ s.grid = search.grid /\ s.am_bootstrapping = search.am_bootstrapping
      /\ x # NoComplexity => x \in Complexity /\ r \in Search /\ r.grid = search.grid
      /\ LinksOf(MergedLinks)
  BY SyncedForms, MergedLinksFacts
<1>3. CASE Yield("recentre", r, MergedLinks, x) \/ Yield("level", s, MergedLinks, NoComplexity)
  <2>1. coroutine' # "none"
    BY <1>3 DEF Yield
  <2> QED BY <2>1 DEF OweInv, Settled
<1>4. CASE x # NoComplexity /\ SendRecentre(r, MergedLinks, x)
  <2> HIDE DEF r, s
  <2> QED BY <1>1, <1>2, <1>4, OweSendRecentre
<1>5. CASE SendComplexities(s, MergedLinks)
  <2> HIDE DEF r, s
  <2> QED BY <1>2, <1>5, OweSendComplexities
<1>6. CASE SendAssisted(s, MergedLinks, Assisted)
  <2> HIDE DEF r, s
  <2>1. Settled
    BY <1>1 DEF Settled
  <2> QED BY <1>1, <1>2, <1>6, <2>1, OweSendAssisted
<1> QED BY <1>3, <1>4, <1>5, <1>6 DEF SyncTimeout

LEMMA OweResumeCoroutine ==
  ASSUME TypeInv, OweInv, ResumeCoroutine
  PROVE  OweInv'
<1> DEFINE s == Advanced(search)
<1>1. /\ status = "active" /\ coroutine # "none" /\ Elsewhere /\ Waiting(search.grid) # {}
      /\ search \in Search
  BY DEF ResumeCoroutine, TypeInv, Steady, Elsewhere, SearchTypes
<1>2. s \in Search /\ s.grid = search.grid /\ LinksOf(link)
  BY <1>1, AdvancedForms, MergedLinksFacts
<1> HIDE DEF s
<1>3. CASE SendShrunk(Shrunk(s), link)
  <2>1. Shrunk(s) \in Search /\ Shrunk(s).am_bootstrapping
    BY <1>1, <1>2, ShrunkFields
  <2> DEFINE z == Shrunk(s)
  <2> HIDE DEF z
  <2>2. search' = z \/ sync_timer' = "converged"
    BY <1>3 DEF SendShrunk, Conclude, z
  <2> QED BY <2>1, <2>2 DEF OweInv, Settled, z
<1>4. CASE coroutine = "recentre" /\ SendRecentre(s, link, recentre_x)
  <2>1. recentre_x \in Complexity
    BY <1>4 DEF TypeInv, SearchTypes, Steady
  <2> QED BY <1>1, <1>2, <1>4, <2>1, OweSendRecentre
<1>5. CASE SendComplexities(s, link)
  BY <1>2, <1>5, OweSendComplexities
<1> QED BY <1>3, <1>4, <1>5 DEF ResumeCoroutine, s

\* One peer steps: what the others owe is what it was.
LEMMA OweOfOne ==
  ASSUME TypeInv, OweInv, NEW p \in Processing, PeerUnchanged, Processing' = Processing,
         \A q \in Processing : q # p =>
           s2p'[q] = s2p[q] /\ p2s'[q] = p2s[q] /\ peer'[q] = peer[q],
         ~SlowWrites /\ Settled /\ ~search.am_bootstrapping /\ OwesPeer(p) => OwesPeer(p)'
  PROVE  OweInv'
<1>1. UNCHANGED <<io_key, search, status, coroutine, sync_timer, link>>
  BY DEF PeerUnchanged, serverVars, taskVars
<1>2. SUFFICES ASSUME ~SlowWrites, Settled, ~search.am_bootstrapping, NEW q \in Processing
               PROVE  OwesPeer(q)'
  BY <1>1 DEF OweInv, Settled
<1>3. OwesPeer(q)
  BY <1>2 DEF OweInv
<1>4. CASE q # p
  BY <1>1, <1>3, <1>4 DEF OwesPeer, Owes
<1> QED BY <1>2, <1>3, <1>4

\* What a peer does of its share it keeps unreported, or reports.
LEMMA OwesWorked ==
  ASSUME NEW key, NEW l, NEW c, NEW d, NEW out, NEW in \in Seq(Report), NEW in2,
         Owes(key, l, c, out, in), d.key = c.key, c.unreported \subseteq Complexity,
         NEW x \in Complexity, c.remaining \subseteq d.remaining \cup {x},
         NEW m \in Report, m.type = "report", m.key = c.key, m.done = c.unreported \cup {x},
         in2 = Append(in, m) \/ (in2 = in /\ d.unreported = m.done)
  PROVE  Owes(key, l, d, out, in2)
<1>1. CASE out # <<>>
  BY <1>1 DEF Owes
<1>2. CASE out = <<>> /\ ~l.late /\ c.key = key
  <2>1. l.remaining \subseteq Accounted(key, c, in)
    BY <1>2 DEF Owes
  <2>2. CASE in2 = in /\ d.unreported = m.done
    <3>1. Accounted(key, c, in) \subseteq Accounted(key, d, in2)
      BY <2>2 DEF Accounted
    <3> QED BY <1>2, <2>1, <3>1 DEF Owes
  <2>3. CASE in2 = Append(in, m)
    <3>1. /\ Len(in2) = Len(in) + 1 /\ in2[Len(in) + 1] = m /\ Len(in) \in Nat
          /\ \A i \in 1 .. Len(in) : in2[i] = in[i] /\ i \in 1 .. Len(in2)
          /\ Len(in) + 1 \in 1 .. Len(in2)
      BY <2>3, AppendProperties, LenProperties
    <3>2. ASSUME NEW y \in Complexity, y \in m.done PROVE y \in Accounted(key, d, in2)
      BY <1>2, <2>3, <3>1, <3>2 DEF Accounted
    <3>3. ASSUME NEW y \in Complexity, NEW i \in 1 .. Len(in), in[i].key = key,
                 in[i].type = "report", y \in in[i].done
          PROVE  y \in Accounted(key, d, in2)
      BY <3>1, <3>3 DEF Accounted
    <3>4. ASSUME NEW y \in c.remaining PROVE y \in Accounted(key, d, in2)
      <4>1. CASE y = x
        BY <2>3, <3>2, <4>1
      <4> QED BY <3>4, <4>1 DEF Accounted
    <3>5. Accounted(key, c, in) \subseteq Accounted(key, d, in2)
      BY <2>3, <3>2, <3>3, <3>4 DEF Accounted
    <3> QED BY <1>2, <2>1, <3>5 DEF Owes
  <2> QED BY <1>2, <2>2, <2>3
<1> QED BY <1>1, <1>2 DEF Owes

LEMMA OwePeerStep ==
  ASSUME TypeInv, KeyInv, QuietInv, OweInv, NEW p \in Peers, PeerStep(p)
  PROVE  OweInv'
<1>1. CASE PeerReads(p)
  <2>1. Processing' = Processing /\ p \in Processing /\ s2p[p] # <<>> /\ PeerUnchanged
    BY <1>1, PeerHears
  <2>2. PICK d \in PeerState : Read(p, d)
    BY <1>1, PeerReadsNews
  <2> DEFINE out == s2p[p]
  <2>3. /\ peer'[p] = d /\ s2p'[p] = Tail(out) /\ p2s' = p2s /\ d.remaining = Head(out).remaining
        /\ \A q \in Processing : q # p => s2p'[q] = s2p[q] /\ peer'[q] = peer[q]
        /\ out \in Seq(Sent)
    BY <2>2, PeerTypes DEF Read, TypeInv, NetTypes
  <2>4. ASSUME OwesPeer(p) PROVE OwesPeer(p)'
    <3> DEFINE l == link[p]
    <3>1. link' = link /\ io_key' = io_key
      BY <2>1 DEF PeerUnchanged, serverVars
    <3>2. ~l.late => l.remaining \subseteq out[Len(out)].remaining
      BY <2>1, <2>4 DEF OwesPeer, Owes
    <3> HIDE DEF l
    <3>3. CASE Tail(out) = <<>>
      <4>1. Len(out) = 1 /\ Head(out) = out[1]
        <5>1. Len(Tail(out)) = 0
          BY <3>3, EmptySeq
        <5>2. Len(Tail(out)) = Len(out) - 1 /\ Len(out) \in Nat
          BY <2>1, <2>3, HeadTailProperties, LenProperties
        <5>3. Head(out) = out[1]
          BY <2>1, <2>3, HeadTailProperties
        <5> QED BY <5>1, <5>2, <5>3
      <4>2. ~l.late => l.remaining \subseteq d.remaining
        BY <2>3, <3>2, <4>1
      <4> QED BY <2>3, <3>1, <3>3, <4>2 DEF OwesPeer, Owes, Accounted, l
    <3>4. CASE Tail(out) # <<>>
      <4>1. /\ Len(Tail(out)) = Len(out) - 1 /\ Len(out) \in Nat
            /\ \A j \in 1 .. Len(Tail(out)) : Tail(out)[j] = out[j + 1]
        BY <2>1, <2>3, HeadTailProperties, LenProperties
      <4>2. Len(Tail(out)) \in 1 .. Len(Tail(out))
        BY <2>1, <2>3, <3>4, <4>1, HeadTailProperties, EmptySeq, LenProperties
      <4>3. Tail(out)[Len(Tail(out))] = out[Len(out)]
        BY <4>1, <4>2
      <4> QED BY <2>3, <3>1, <3>2, <3>4, <4>3 DEF OwesPeer, Owes, l
    <3> QED BY <3>3, <3>4
  <2> QED BY <2>1, <2>3, <2>4, OweOfOne
<1>2. CASE ~PeerReads(p)
  <2>1. /\ Processing' = Processing /\ p \in Processing /\ PeerUnchanged /\ s2p' = s2p
        /\ peer[p] # FreshPeer /\ link' = link /\ io_key' = io_key
    BY <1>2, PeerWorks DEF PeerUnchanged, serverVars
  <2> DEFINE c == peer[p]
             in == p2s[p]
  <2>2. /\ c \in PeerState /\ in \in Seq(Report) /\ c.unreported \subseteq Complexity
        /\ ~SlowWrites => ~c.writing
    BY PeerTypes DEF PeerState, QuietInv
  <2>3. ASSUME NEW d, peer' = [peer EXCEPT ![p] = d],
               p2s' = p2s \/ \E m : p2s' = [p2s EXCEPT ![p] = Append(p2s[p], m)],
               ~SlowWrites /\ Settled /\ ~search.am_bootstrapping /\ OwesPeer(p) =>
                 Owes(io_key, link[p], d, s2p[p], p2s'[p])
        PROVE  OweInv'
    <3>1. /\ peer'[p] = d
          /\ \A q \in Processing : q # p => s2p'[q] = s2p[q] /\ p2s'[q] = p2s[q] /\ peer'[q] = peer[q]
      BY <2>1, <2>3, PeerTypes DEF TypeInv, NetTypes
    <3>2. ~SlowWrites /\ Settled /\ ~search.am_bootstrapping /\ OwesPeer(p) => OwesPeer(p)'
      BY <2>1, <2>3, <3>1 DEF OwesPeer
    <3> QED BY <2>1, <3>1, <3>2, OweOfOne
  <2>4. CASE Process(p)
    <3>1. PICK x \in Complexity, better \in BOOLEAN, d \in PeerState, m \in PeerReport :
            Tried(p, x, better, d, m)
      BY <2>4, ProcessTries
    <3>2. /\ peer' = [peer EXCEPT ![p] = d] /\ d.key = c.key
          /\ c.remaining \subseteq d.remaining \cup {x}
          /\ m.type = "report" /\ m.key = c.key /\ m.done = c.unreported \cup {x} /\ m \in Report
          /\ Told(p, c, d, m.done, m) \/ KeptQuiet(c, d, m.done)
      BY <3>1 DEF Tried, SameWork, Report
    <3>3. /\ p2s' = p2s \/ p2s' = [p2s EXCEPT ![p] = Append(p2s[p], m)]
          /\ ~c.writing => p2s'[p] = Append(in, m) \/ (p2s'[p] = in /\ d.unreported = m.done)
      BY <3>2 DEF Told, KeptQuiet, TypeInv, NetTypes
    <3>4. ~SlowWrites /\ OwesPeer(p) => Owes(io_key, link[p], d, s2p[p], p2s'[p])
      BY <2>2, <3>2, <3>3, OwesWorked, ZenonT(40) DEF OwesPeer
    <3> QED BY <2>3, <3>2, <3>3, <3>4
  <2>5. CASE Bootstrap(p)
    <3>1. PICK pl \in Place, d \in PeerState, m \in BootReport : Drawn(p, pl, d, m)
      BY <2>5, BootstrapDraws
    <3>2. /\ peer' = [peer EXCEPT ![p] = d] /\ d.key = c.key /\ c.am_bootstrapping
          /\ p2s' = p2s \/ p2s' = [p2s EXCEPT ![p] = Append(p2s[p], m)]
      BY <3>1 DEF Drawn, SameWork, Told
    <3>3. Settled /\ ~search.am_bootstrapping => c.key # io_key
      BY <2>1, <3>2, PeerKnows DEF Settled, Working, Running
    <3>4. Settled /\ ~search.am_bootstrapping /\ OwesPeer(p) =>
            Owes(io_key, link[p], d, s2p[p], p2s'[p])
      BY <3>2, <3>3 DEF OwesPeer, Owes
    <3> QED BY <2>3, <3>2, <3>4
  <2>6. CASE PeerWriteDone(p)
    <3>1. PICK d \in PeerState : WroteDeferred(p, d)
      BY <2>6, WriteDoneWrites
    <3>2. /\ peer' = [peer EXCEPT ![p] = d] /\ c.writing
          /\ p2s' = p2s \/ p2s' = [p2s EXCEPT ![p] = Append(p2s[p], c.deferred)]
      BY <3>1 DEF WroteDeferred
    <3> QED BY <2>2, <2>3, <3>2
  <2>7. CASE SkipIteration(p) \/ ProcessNothing(p) \/ RollbackTimeout(p)
    <3>1. PICK d \in PeerState : Idled(p, d)
      BY <2>7, TimersIdle
    <3>2. /\ peer' = [peer EXCEPT ![p] = d] /\ p2s' = p2s /\ d.key = c.key
          /\ d.remaining = c.remaining /\ d.unreported = c.unreported
      BY <3>1 DEF Idled, KeptQuiet, SameWork
    <3>3. OwesPeer(p) => Owes(io_key, link[p], d, s2p[p], p2s'[p])
      BY <3>2 DEF OwesPeer, Owes, Accounted
    <3> QED BY <2>3, <3>2, <3>3
  <2> QED BY <1>2, <2>4, <2>5, <2>6, <2>7 DEF PeerStep
<1> QED BY <1>1, <1>2

LEMMA OweNext ==
  TypeInv /\ KeyInv /\ QuietInv /\ OweInv /\ [Next]_vars => OweInv'
<1> SUFFICES ASSUME TypeInv, KeyInv, QuietInv, OweInv, [Next]_vars PROVE OweInv'
  OBVIOUS
<1>1. CASE UNCHANGED <<status, coroutine, sync_timer, search, io_key, netVars>>
  <2>1. \A q \in Processing' :
          /\ q \in Processing /\ peer'[q] = peer[q] /\ s2p'[q] = s2p[q]
          /\ p2s'[q] = p2s[q] /\ link'[q] = link[q]
    BY <1>1 DEF netVars, Processing
  <2> QED BY <1>1, <2>1, OweKept DEF Settled
<1>2. CASE UNCHANGED vars
  BY <1>1, <1>2 DEF vars, serverVars, taskVars
<1>3. ASSUME NEW p \in Peers, PeerStep(p) PROVE OweInv'
  BY <1>3, OwePeerStep
<1>4. CASE SyncTimeout \/ ResumeCoroutine
  BY <1>4, OweSyncTimeout, OweResumeCoroutine
<1>5. CASE SaveTimeout
  BY <1>1, <1>5 DEF SaveTimeout
<1>6. CASE OnConverged \/ Deactivate \/ Crash
  <2>1. status' # "active"
    BY <1>6, TypeLeaving
  <2> QED BY <2>1 DEF OweInv, Settled
<1>7. CASE Activate
  <2>1. Processing' = {}
    BY <1>7 DEF Activate, TypeInv, Steady, netVars, Processing, Members
  <2> QED BY <2>1 DEF OweInv
<1>8. ASSUME NEW p \in Peers, Join(p) \/ Leave(p) \/ Lapse(p) \/ ServerWriteDone(p) \/ ReportArrives(p)
      PROVE  OweInv'
  <2>1. CASE Join(p)
    BY <2>1, OweJoin
  <2>2. CASE Leave(p) \/ Lapse(p)
    <3>1. p \in Processing /\ Lose(p) /\ faults' \in Nat
      BY <2>2 DEF Leave, Lapse, Fault, TypeInv, TaskTypes
    <3> QED BY <3>1, OweLose
  <2>3. CASE ServerWriteDone(p)
    BY <2>3, OweServerWriteDone
  <2>4. CASE ReportArrives(p)
    BY <2>4, OweReportArrives
  <2> QED BY <1>8, <2>1, <2>2, <2>3, <2>4
<1> QED BY <1>2, <1>3, <1>4, <1>5, <1>6, <1>7, <1>8 DEF Next, ServerStep

LEMMA OweImplies == TypeInv /\ QuietInv /\ ~SlowWrites /\ OweInv => OwesItsShare
<1> SUFFICES ASSUME TypeInv, QuietInv, ~SlowWrites, OweInv, Settled, ~search.am_bootstrapping,
                    NEW p \in Processing, s2p[p] = <<>>, ~link[p].late, peer[p].key = io_key
             PROVE  link[p].remaining \subseteq peer[p].remaining \cup peer[p].unreported
                                                \cup UNION {m.done : m \in Reports(p)}
  BY DEF OwesItsShare
<1>1. link[p].remaining \subseteq Accounted(io_key, peer[p], p2s[p])
  BY DEF OweInv, OwesPeer, Owes
<1>2. ASSUME NEW i \in 1 .. Len(p2s[p]), p2s[p][i].type = "report"
      PROVE  p2s[p][i] \in Reports(p)
  BY <1>2 DEF Reports, Outstanding
<1> QED BY <1>1, <1>2 DEF Accounted

\* OwesItsShare: whatever is dealt, announced late, assisted by others, reported or rolled
\* back, what the server believes a peer to be working on is still with the peer or in a
\* report on its way.  It takes that the writes of the peer complete in time: a report
\* that is deferred goes out without what was done since, and clears that, too.
THEOREM SharesAreOwed ==
  ASSUME 0 \notin JoinKeys, ~SlowWrites
  PROVE  Spec => []OwesItsShare
<1>1. Init => OweInv
  <2>1. Init => Processing = {}
    BY DEF Init, Processing, Members
  <2> QED BY <2>1 DEF OweInv
<1>2. SearchInv => TypeInv /\ KeyInv /\ QuietInv
  BY DEF SearchInv
<1>3. SearchInv /\ OweInv => OwesItsShare
  BY <1>2, OweImplies
<1> QED BY <1>1, <1>2, <1>3, SearchInit, SearchNext, OweNext, PTL DEF Spec

-----------------------------------------------------------------------------
(* Recentring messages.  Whatever a peer will know when it reads one, the   *)
(* message's key is not the one that it has, there is work in it, and its   *)
(* complexity leads from there to a place with the value that it says.      *)

IsNews(u, m) ==
  m.key # u.key /\ m.remaining # {} /\ Value[Demod[u.grid][u.centre][m.x]] = m.value

\* v is what a peer c will know after each message of `out'.
Chain(c, out, v) ==
  /\ v[0] = ViewOf(c)
  /\ \A i \in 1 .. Len(out) : v[i] = ViewAfter(v[i - 1], out[i])

Newsy(c, out) ==
  \E v \in [0 .. Len(out) -> View] :
    /\ Chain(c, out, v)
    /\ \A i \in 1 .. Len(out) : out[i].type = "recentre" => IsNews(v[i - 1], out[i])

NewsInv == \A p \in Peers : Newsy(peer[p], s2p[p])

\* What a peer will know in the end depends on nothing else.
LEMMA OneChain ==
  ASSUME NEW c, NEW out \in Seq(Sent), NEW v, NEW w, Chain(c, out, v), Chain(c, out, w)
  PROVE  v[Len(out)] = w[Len(out)]
<1> DEFINE n == Len(out)
           S == {i \in 0 .. n : v[i] = w[i]}
<1>1. n \in Nat
  BY LenProperties
<1> HIDE DEF n
<1>2. 0 \in S
  BY <1>1 DEF Chain
<1>3. ASSUME NEW i \in 1 .. n, i - 1 \in S PROVE i \in S
  <2>1. v[i] = ViewAfter(v[i - 1], out[i]) /\ w[i] = ViewAfter(w[i - 1], out[i])
    BY DEF Chain, n
  <2> QED BY <1>1, <1>3, <2>1
<1>4. n \in 0 .. n
  BY <1>1
<1> HIDE DEF S
<1>5. 0 .. n \subseteq S
  BY <1>1, <1>2, <1>3, UpTo
<1> QED BY <1>4, <1>5 DEF S, n

\* One more message, which is news if it moves the centre.
LEMMA NewsyMore ==
  ASSUME NEW c, NEW out \in Seq(Sent), NEW m \in Sent, Newsy(c, out),
         m.type = "recentre" =>
           \A w \in [0 .. Len(out) -> View] : Chain(c, out, w) => IsNews(w[Len(out)], m)
  PROVE  Newsy(c, Append(out, m))
<1> DEFINE n == Len(out)
           all == Append(out, m)
<1>1. PICK v \in [0 .. n -> View] :
        /\ Chain(c, out, v)
        /\ \A i \in 1 .. n : out[i].type = "recentre" => IsNews(v[i - 1], out[i])
  BY DEF Newsy
<1> DEFINE last == ViewAfter(v[n], m)
           w == [i \in 0 .. n + 1 |-> IF i = n + 1 THEN last ELSE v[i]]
<1>2. /\ n \in Nat /\ Len(all) = n + 1 /\ all[n + 1] = m
      /\ \A i \in 1 .. n : all[i] = out[i]
  BY LenProperties, AppendProperties
<1>3. last \in View
  <2>1. v[n] \in View
    BY <1>2
  <2> QED BY <2>1, ViewAfterIsAView
<1>4. w \in [0 .. n + 1 -> View]
  BY <1>2, <1>3
<1>5. /\ w[n + 1] = last
      /\ \A i \in 0 .. n : w[i] = v[i]
  BY <1>2
<1>6. m.type = "recentre" => IsNews(v[n], m)
  BY <1>1
<1>7. /\ w[0] = ViewOf(c)
      /\ \A i \in 1 .. n : v[i] = ViewAfter(v[i - 1], out[i])
  BY <1>1, <1>2, <1>5 DEF Chain
<1> HIDE DEF n, w, all, last
<1>8. ASSUME NEW i \in 1 .. n + 1
      PROVE  /\ w[i] = ViewAfter(w[i - 1], all[i])
             /\ all[i].type = "recentre" => IsNews(w[i - 1], all[i])
  <2>1. CASE i = n + 1
    <3>1. i - 1 = n /\ w[n] = v[n]
      BY <1>2, <1>5, <2>1
    <3> QED BY <1>2, <1>5, <1>6, <2>1, <3>1 DEF last
  <2>2. CASE i # n + 1
    <3>1. i \in 1 .. n /\ i \in 0 .. n /\ i - 1 \in 0 .. n
      BY <1>2, <2>2
    <3>2. w[i] = v[i] /\ w[i - 1] = v[i - 1] /\ all[i] = out[i]
      BY <1>2, <1>5, <3>1
    <3> QED BY <1>1, <1>7, <3>1, <3>2
  <2> QED BY <2>1, <2>2
<1>9. Chain(c, all, w)
  BY <1>2, <1>7, <1>8 DEF Chain
<1> QED BY <1>2, <1>4, <1>8, <1>9 DEF Newsy, all

\* Whatever else is sent.
LEMMA NewsyPosted ==
  ASSUME NEW c, NEW out \in Seq(Sent), Newsy(c, out), NEW out2,
         out2 = out \/ \E n \in Sent : out2 = Append(out, n) /\ n.type # "recentre"
  PROVE  Newsy(c, out2)
<1>1. CASE out2 = out
  BY <1>1
<1>2. ASSUME NEW n \in Sent, out2 = Append(out, n), n.type # "recentre" PROVE Newsy(c, out2)
  BY <1>2, NewsyMore
<1> QED BY <1>1, <1>2

\* Nothing is on its way.
LEMMA NewsyNone ==
  ASSUME NEW c \in PeerState
  PROVE  Newsy(c, <<>>)
<1> DEFINE v == [i \in 0 .. 0 |-> ViewOf(c)]
<1>1. Len(<<>>) = 0
  OBVIOUS
<1>2. ViewOf(c) \in View
  BY DEF ViewOf, View, PeerState
<1>3. v \in [0 .. 0 -> View] /\ v[0] = ViewOf(c)
  BY <1>2
<1> HIDE DEF v
<1> QED BY <1>1, <1>3 DEF Newsy, Chain

\* A message is read, and does what it was to do.
LEMMA NewsyRead ==
  ASSUME NEW c, NEW d, NEW out \in Seq(Sent), out # <<>>, Newsy(c, out),
         ViewOf(d) = ViewAfter(ViewOf(c), Head(out))
  PROVE  Newsy(d, Tail(out))
<1> DEFINE n == Len(out)
<1>1. PICK v \in [0 .. n -> View] :
        /\ Chain(c, out, v)
        /\ \A i \in 1 .. n : out[i].type = "recentre" => IsNews(v[i - 1], out[i])
  BY DEF Newsy
<1> DEFINE w == [i \in 0 .. n - 1 |-> v[i + 1]]
           rest == Tail(out)
<1>2. /\ n \in Nat \ {0} /\ Len(rest) = n - 1 /\ Head(out) = out[1]
      /\ \A i \in 1 .. n - 1 : rest[i] = out[i + 1]
  BY EmptySeq, LenProperties, HeadTailProperties
<1>3. w \in [0 .. n - 1 -> View]
  BY <1>2
<1>4. \A i \in 1 .. n : v[i] = ViewAfter(v[i - 1], out[i])
  BY <1>1 DEF Chain
<1> HIDE DEF n, rest
<1>5. w[0] = ViewOf(d)
  <2>1. v[1] = ViewAfter(v[0], out[1]) /\ v[0] = ViewOf(c)
    BY <1>1, <1>2, <1>4 DEF Chain
  <2> QED BY <1>2, <2>1
<1>6. ASSUME NEW i \in 1 .. n - 1
      PROVE  /\ w[i] = ViewAfter(w[i - 1], rest[i])
             /\ rest[i].type = "recentre" => IsNews(w[i - 1], rest[i])
  <2>1. /\ w[i] = v[i + 1] /\ w[i - 1] = v[i] /\ rest[i] = out[i + 1]
        /\ i + 1 \in 1 .. n /\ (i + 1) - 1 = i
    BY <1>2
  <2>2. v[i + 1] = ViewAfter(v[(i + 1) - 1], out[i + 1])
    BY <1>4, <2>1
  <2>3. out[i + 1].type = "recentre" => IsNews(v[(i + 1) - 1], out[i + 1])
    BY <1>1, <2>1
  <2> QED BY <2>1, <2>2, <2>3
<1> HIDE DEF w
<1>7. Chain(d, rest, w)
  BY <1>2, <1>5, <1>6 DEF Chain
<1> QED BY <1>2, <1>3, <1>6, <1>7 DEF Newsy, rest

\* A peer that was told of the key, and of what it stands for.
LEMMA ToldOfTheKey ==
  ASSUME NEW key, NEW g, NEW l, NEW c, NEW out \in Seq(Sent), NEW in, NEW due, ~due,
         InTouch(key, g, l, c, out, in, due), NEW w, Chain(c, out, w)
  PROVE  w[Len(out)].key = key /\ Agrees(w[Len(out)], g)
<1>1. PICK b \in {0, 1}, v \in [0 .. Len(out) -> View] : Linked(key, g, l, c, out, in, due, b, v)
  BY DEF InTouch
<1>2. Chain(c, out, v)
  BY <1>1 DEF Linked, Chain
<1>3. v[Len(out)] = w[Len(out)]
  BY <1>2, OneChain
<1>4. Len(out) \in b .. Len(out)
  BY <1>1, LenProperties DEF Linked
<1>5. v[Len(out)].key = key /\ Agrees(v[Len(out)], g)
  BY <1>1, <1>4 DEF Linked
<1> QED BY <1>3, <1>5

\* Messages that do not move the centre are announced, and peers are dropped.
LEMMA NewsAnnounced ==
  ASSUME TypeInv, NewsInv, NEW lk \in [Peers -> Link], NEW key, NEW to, NEW gone, NEW m,
         \A r \in SUBSET Complexity :
           WithShare(m, r) \in Sent /\ WithShare(m, r).type # "recentre",
         Announce(lk, key, to, gone, m),
         \A q \in Peers : peer'[q] = IF q \in gone THEN FreshPeer ELSE peer[q]
  PROVE  NewsInv'
<1>1. ASSUME NEW q \in Peers PROVE Newsy(peer'[q], s2p'[q])
  <2>1. CASE q \in gone
    <3>1. peer'[q] = FreshPeer /\ s2p'[q] = <<>>
      BY <2>1 DEF Announce
    <3> QED BY <3>1, NewsyNone, BlankFacts
  <2>2. CASE q \notin gone
    <3>1. peer'[q] = peer[q] /\ Newsy(peer[q], s2p[q]) /\ s2p[q] \in Seq(Sent)
      BY <2>2, PeerTypes DEF NewsInv
    <3>2. s2p'[q] = s2p[q] \/ \E r \in SUBSET Complexity : s2p'[q] = Append(s2p[q], WithShare(m, r))
      BY <2>2, AnnouncedTo
    <3>3. s2p'[q] = s2p[q] \/ \E n \in Sent : s2p'[q] = Append(s2p[q], n) /\ n.type # "recentre"
      BY <3>2
    <3> DEFINE c == peer[q]
               out == s2p[q]
               out2 == s2p'[q]
    <3> HIDE DEF c, out, out2
    <3>4. Newsy(c, out2)
      BY <3>1, <3>3, NewsyPosted DEF c, out, out2
    <3> QED BY <3>1, <3>4 DEF c, out2
  <2> QED BY <2>1, <2>2
<1> QED BY <1>1 DEF NewsInv

\* Peers that are dropped know nothing, and are sent nothing.
LEMMA NewsForgotten ==
  ASSUME TypeInv, NewsInv,
         \A q \in Peers : \/ peer'[q] = peer[q] /\ s2p'[q] = s2p[q]
                          \/ peer'[q] = FreshPeer /\ s2p'[q] = <<>>
  PROVE  NewsInv'
BY NewsyNone, BlankFacts DEF NewsInv

LEMMA NewsJoin ==
  ASSUME TypeInv, NewsInv, NEW p \in Peers, Join(p)
  PROVE  NewsInv'
<1> DEFINE none == {}
           n == WithShare(StateFor(sync_msg), none)
<1>1. n \in Sent /\ n.type = "state"
  BY StateForms DEF TypeInv, SearchTypes
<1>2. StateFor(sync_msg) = n
  BY DEF StateFor, WithShare
<1>3. peer' = peer /\ s2p' = [s2p EXCEPT ![p] = <<n>>] /\ p \notin Processing
  BY <1>2 DEF Join
<1> HIDE DEF n
<1>4. s2p'[p] = Append(s2p[p], n) /\ \A q \in Peers : q # p => s2p'[q] = s2p[q]
  <2>1. s2p[p] = <<>>
    BY <1>3 DEF TypeInv, Apart, Blank
  <2> QED BY <1>3, <2>1 DEF TypeInv, NetTypes
<1>5. ASSUME NEW q \in Peers PROVE Newsy(peer'[q], s2p'[q])
  <2>1. Newsy(peer[q], s2p[q]) /\ s2p[q] \in Seq(Sent)
    BY PeerTypes DEF NewsInv
  <2>2. s2p'[q] = s2p[q] \/ (s2p'[q] = Append(s2p[q], n) /\ n.type # "recentre")
    BY <1>1, <1>4
  <2> QED BY <1>1, <1>3, <2>1, <2>2, NewsyPosted
<1> QED BY <1>5 DEF NewsInv

LEMMA NewsLose ==
  ASSUME TypeInv, NewsInv, NEW p \in Peers, Lose(p)
  PROVE  NewsInv'
<1>1. \A q \in Peers : peer'[q] = IF q = p THEN FreshPeer ELSE peer[q]
  BY DEF Lose, Forget
<1>2. s2p'[p] = <<>> /\ \A q \in Peers : q # p => s2p'[q] = s2p[q]
  BY DEF Lose, TypeInv, NetTypes
<1> QED BY <1>1, <1>2, NewsForgotten

\* The whole state is no recentring, nor are shares around the same centre.
LEMMA NoRecentring ==
  /\ \A m \in CookedSync, r \in SUBSET Complexity :
       WithShare(StateFor(m), r) \in Sent /\ WithShare(StateFor(m), r).type # "recentre"
  /\ \A b \in BOOLEAN, r \in SUBSET Complexity :
       WithShare(ComplexityFor(b), r) \in Sent /\ WithShare(ComplexityFor(b), r).type # "recentre"
BY StateForms, ComplexityForms

LEMMA NewsServerWriteDone ==
  ASSUME TypeInv, NewsInv, NEW p \in Peers, ServerWriteDone(p)
  PROVE  NewsInv'
<1> DEFINE done == [link[p] EXCEPT !.writing = FALSE, !.late = FALSE]
           lk == [link EXCEPT ![p] = done]
           to == {p}
           gone == {}
           m == StateFor(sync_msg)
<1>1. peer' = peer /\ lk \in [Peers -> Link]
  BY DEF ServerWriteDone, TypeInv, NetTypes, Link
<1>2. (Announce(lk, io_key, to, gone, m)) \/ s2p' = s2p
  BY DEF ServerWriteDone
<1>3. \A r \in SUBSET Complexity : WithShare(m, r) \in Sent /\ WithShare(m, r).type # "recentre"
  BY NoRecentring DEF TypeInv, SearchTypes
<1>4. \A q \in Peers : peer'[q] = IF q \in gone THEN FreshPeer ELSE peer[q]
  BY <1>1
<1> HIDE DEF lk, to, gone, m
<1>5. CASE Announce(lk, io_key, to, gone, m)
  BY <1>1, <1>3, <1>4, <1>5, NewsAnnounced
<1> QED BY <1>1, <1>2, <1>5, NewsForgotten

LEMMA NewsReportArrives ==
  ASSUME TypeInv, NewsInv, NEW p \in Peers, ReportArrives(p)
  PROVE  NewsInv'
<1> DEFINE m == Head(p2s[p])
           lk == [link EXCEPT ![p].echo = m.key]
<1>1. LinksOf(lk) /\ (m.type = "boot" => m.place \in Place /\ m.value \in Likelihood)
  BY ReportRead
<1>2. CASE m.type = "boot" /\ OnBootstrappingReport(m, lk)
  <2> DEFINE s == Bootstrapped(search, m.place, m.value)
             rem == s.remaining
             deal == Dealt(lk, rem)
             gone == WrappedAround(lk, NextKey)
             to == Processing \ gone
             msg == StateFor(Cooked(s, NextKey))
  <2>1. s \in Search /\ NextKey \in Key
    BY <1>1, <1>2, BootstrappedSearch, BlankFacts DEF TypeInv, SearchTypes, NextKey
  <2>2. /\ Announce(deal, NextKey, to, gone, msg)
        /\ \A q \in Peers : peer'[q] = IF q \in gone THEN FreshPeer ELSE peer[q]
    BY <1>2 DEF OnBootstrappingReport, Forget
  <2>3. Cooked(s, NextKey) \in CookedSync /\ rem \in SUBSET Complexity
    <3> HIDE DEF s
    <3> QED BY <2>1 DEF Cooked, CookedSync, Search
  <2>4. deal \in [Peers -> Link]
    <3> HIDE DEF rem, lk
    <3> QED BY <1>1, <2>3, DealtFacts DEF LinksOf
  <2>5. \A r \in SUBSET Complexity : WithShare(msg, r) \in Sent /\ WithShare(msg, r).type # "recentre"
    <3> DEFINE cooked == Cooked(s, NextKey)
    <3> HIDE DEF cooked
    <3> QED BY <2>3, NoRecentring DEF cooked
  <2> HIDE DEF deal, gone, to, msg
  <2> QED BY <2>2, <2>4, <2>5, NewsAnnounced
<1>3. CASE OnPeerReport(p, m, lk)
  <2>1. s2p' = s2p /\ peer' = peer
    BY <1>3 DEF OnPeerReport
  <2> QED BY <2>1, NewsForgotten
<1>4. CASE /\ IF Stale(io_key, link[p])
              THEN Announce(lk, io_key, {p}, {}, StateFor(sync_msg))
              ELSE link' = lk /\ UNCHANGED s2p
           /\ peer' = peer
  <2> DEFINE to == {p}
             gone == {}
             msg == StateFor(sync_msg)
  <2>1. (Announce(lk, io_key, to, gone, msg)) \/ s2p' = s2p
    BY <1>4
  <2>2. \A r \in SUBSET Complexity : WithShare(msg, r) \in Sent /\ WithShare(msg, r).type # "recentre"
    BY NoRecentring DEF TypeInv, SearchTypes
  <2>3. (\A q \in Peers : peer'[q] = IF q \in gone THEN FreshPeer ELSE peer[q]) /\ lk \in [Peers -> Link]
    BY <1>1, <1>4 DEF LinksOf
  <2> HIDE DEF lk, to, gone, msg
  <2>4. CASE Announce(lk, io_key, to, gone, msg)
    BY <2>2, <2>3, <2>4, NewsAnnounced
  <2> QED BY <1>4, <2>1, <2>4, NewsForgotten
<1> HIDE DEF lk
<1> QED BY <1>2, <1>3, <1>4 DEF ReportArrives, lk

\* The new centre, in its place among the complexities of the old one.  Whoever it can
\* be written to was told of the old centre: nothing else was due.
LEMMA NewsSendRecentre ==
  ASSUME TypeInv, KeyInv, NewsInv, Running,
         NEW s \in Search, s.remaining # {}, NEW x \in Complexity,
         \A u \in View : Agrees(u, SenseOfKey) => Value[Demod[u.grid][u.centre][x]] = s.e_min,
         NEW lk, LinksOf(lk),
         \A q \in Processing : /\ lk[q].echo = link[q].echo /\ lk[q].late = link[q].late
                               /\ lk[q].writing = link[q].writing,
         SendRecentre(s, lk, x)
  PROVE  NewsInv'
<1> DEFINE rem == s.remaining
           gone == WrappedAround(lk, NextKey)
           to == Processing \ gone
           m == RecentreFor(NextKey, s.e_min, x)
           deal == Dealt(lk, rem)
<1>1. /\ Announce(deal, NextKey, to, gone, m)
      /\ \A q \in Peers : peer'[q] = IF q \in gone THEN FreshPeer ELSE peer[q]
  BY DEF SendRecentre, ForgetWithReports, Forget
<1>2. rem \in SUBSET Complexity /\ rem # {} /\ NextKey \in Key /\ s.e_min \in Likelihood
  BY BlankFacts DEF TypeInv, SearchTypes, NextKey, Search
<1> HIDE DEF rem
<1>3. /\ deal \in [Peers -> Link]
      /\ \A q \in Peers : deal[q].echo = lk[q].echo /\ deal[q].writing = lk[q].writing
  <2>1. LinksOf(deal)
    BY <1>2, DealtLinks
  <2> QED BY <1>2, <2>1, DealtKeeps DEF LinksOf
<1>4. \A q \in Processing : deal[q].remaining # {}
  BY <1>2, DealtSomething
<1>5. \A r \in SUBSET Complexity :
        LET n == WithShare(m, r)
        IN n \in Sent /\ n.type = "recentre" /\ n.key = NextKey /\ n.x = x /\ n.value = s.e_min
           /\ n.remaining = r
  BY <1>2, RecentreForms, RecentreValue, SharesFilledIn
<1> HIDE DEF deal, m
<1>6. ASSUME NEW q \in Peers PROVE Newsy(peer'[q], s2p'[q])
  <2> DEFINE c == peer[q]
             out == s2p[q]
             l == link[q]
             n == WithShare(m, deal[q].remaining)
  <2>1. c \in PeerState /\ out \in Seq(Sent) /\ l \in Link /\ Newsy(c, out)
    BY PeerTypes DEF NewsInv
  <2>2. CASE q \in gone
    <3>1. peer'[q] = FreshPeer /\ s2p'[q] = <<>>
      BY <1>1, <2>2 DEF Announce
    <3> QED BY <3>1, NewsyNone, BlankFacts
  <2>3. CASE q \notin gone /\ s2p'[q] = out
    BY <1>1, <2>1, <2>3
  <2>4. CASE q \notin gone /\ s2p'[q] # out
    <3>1. /\ s2p'[q] = Append(out, n) /\ q \in Processing /\ peer'[q] = c
          /\ CanWrite(NextKey, deal[q])
      BY <1>1, <2>4 DEF Announce, WithShare, to
    <3>2. deal[q].remaining \in SUBSET Complexity /\ deal[q].remaining # {}
      BY <1>3, <1>4, <3>1 DEF Link
    <3>3. /\ n \in Sent /\ n.type = "recentre" /\ n.key = NextKey /\ n.x = x /\ n.value = s.e_min
          /\ n.remaining # {}
      BY <1>5, <3>2
    <3>4. l.echo # NextKey /\ CanWrite(NextKey, l)
      <4>1. lk[q].echo # NextKey
        BY <2>4, <3>1 DEF WrappedAround, gone
      <4>2. deal[q].echo = l.echo /\ deal[q].writing = l.writing
        BY <1>3, <3>1
      <4> QED BY <1>3, <3>1, <4>1, <4>2 DEF CanWrite, Stale, Lag
    <3>5. io_key \in Key /\ NextKey # io_key /\ KeyMod \in Nat
      <4>1. io_key \in Key
        BY PeerTypes
      <4> QED BY <4>1, ConvergerAssumption DEF NextKey, Key
    <3>6. ~Due(io_key, l)
      <4>1. Lag(NextKey, l) = Lag(io_key, l) + 1
        BY <2>1, <3>4, <3>5, LagOfNext DEF Link, NextKey
      <4>2. Lag(io_key, l) \in Int /\ StaleLimit \in Int
        BY <2>1, <3>5, LagIs, ConvergerAssumption DEF Link
      <4>3. ~Stale(io_key, l) /\ ~l.writing
        BY <3>4, <4>1, <4>2 DEF CanWrite, Stale
      <4> QED BY <4>3 DEF Due
    <3>7. InTouch(io_key, SenseOfKey, l, c, out, p2s[q], Due(io_key, l))
      BY <3>1 DEF KeyInv, PeerTouch
    <3> DEFINE due == Due(io_key, l)
    <3> HIDE DEF due, c, out, l, n
    <3>8. ASSUME NEW w \in [0 .. Len(out) -> View], Chain(c, out, w) PROVE IsNews(w[Len(out)], n)
      <4>1. w[Len(out)].key = io_key /\ Agrees(w[Len(out)], SenseOfKey)
        BY <2>1, <3>6, <3>7, <3>8, ToldOfTheKey DEF due
      <4>2. w[Len(out)] \in View
        BY <2>1, LenProperties
      <4> QED BY <3>3, <3>5, <4>1, <4>2 DEF IsNews
    <3> QED BY <2>1, <3>1, <3>3, <3>8, NewsyMore
  <2> QED BY <2>2, <2>3, <2>4
<1> QED BY <1>6 DEF NewsInv

LEMMA NewsSendShrunk ==
  ASSUME TypeInv, NewsInv, NEW s \in Search, SendShrunk(s, link)
  PROVE  NewsInv'
<1>1. CASE Waiting(s.grid) = {}
  BY <1>1, NewsForgotten DEF SendShrunk
<1>2. CASE Waiting(s.grid) # {}
  <2> DEFINE cooked == Cooked(s, NextKey)
             gone == WrappedAround(link, NextKey)
             to == Processing \ gone
             m == StateFor(cooked)
  <2>1. /\ Announce(link, NextKey, to, gone, m)
        /\ \A q \in Peers : peer'[q] = IF q \in gone THEN FreshPeer ELSE peer[q]
    BY <1>2 DEF SendShrunk, ForgetWithReports, Forget
  <2>2. cooked \in CookedSync
    BY BlankFacts DEF TypeInv, SearchTypes, NextKey, Cooked, CookedSync, Search
  <2> HIDE DEF cooked, gone, to
  <2>3. \A r \in SUBSET Complexity : WithShare(m, r) \in Sent /\ WithShare(m, r).type # "recentre"
    BY <2>2, NoRecentring
  <2>4. link \in [Peers -> Link]
    BY DEF TypeInv, NetTypes
  <2> HIDE DEF m
  <2> QED BY <2>1, <2>3, <2>4, NewsAnnounced
<1> QED BY <1>1, <1>2

LEMMA NewsSendShares ==
  ASSUME TypeInv, NewsInv, NEW lk, LinksOf(lk), NEW to, NEW b \in BOOLEAN, peer' = peer,
         Announce(lk, io_key, to, {}, ComplexityFor(b))
  PROVE  NewsInv'
<1> DEFINE gone == {}
           m == ComplexityFor(b)
<1>1. Announce(lk, io_key, to, gone, m) /\ lk \in [Peers -> Link]
  BY DEF LinksOf
<1>2. \A q \in Peers : peer'[q] = IF q \in gone THEN FreshPeer ELSE peer[q]
  OBVIOUS
<1>3. \A r \in SUBSET Complexity : WithShare(m, r) \in Sent /\ WithShare(m, r).type # "recentre"
  BY NoRecentring
<1> HIDE DEF gone, m
<1> QED BY <1>1, <1>2, <1>3, NewsAnnounced

LEMMA NewsSyncTimeout ==
  ASSUME TypeInv, KeyInv, FitInv, NewsInv, SyncTimeout
  PROVE  NewsInv'
<1> DEFINE s == Merged(search)
           r == Recentred(s)
           x == search.e_min_complexity
<1>1. /\ status = "active" /\ sync_timer = "sync" /\ coroutine = "none" /\ Running
      /\ Waiting(search.grid) # {} /\ search \in Search
  BY DEF SyncTimeout, TypeInv, Steady, SearchTypes, Running
<1>2. /\ s \in Search /\ s.remaining \in SUBSET Complexity
      /\ x # NoComplexity => x \in Complexity /\ r \in Search
      /\ LinksOf(MergedLinks)
      /\ \A q \in Processing : /\ MergedLinks[q].echo = link[q].echo
                               /\ MergedLinks[q].late = link[q].late
                               /\ MergedLinks[q].writing = link[q].writing
  BY SyncedForms, MergedLinksFacts, PeerTypes
<1>3. CASE Yield("recentre", r, MergedLinks, x) \/ Yield("level", s, MergedLinks, NoComplexity)
  <2>1. peer' = peer /\ s2p' = s2p
    BY <1>3 DEF Yield
  <2> QED BY <2>1, NewsForgotten
<1>4. CASE x # NoComplexity /\ r.remaining # {} /\ SendRecentre(r, MergedLinks, x)
  <2>1. ~search.am_bootstrapping /\ search.e_min = Value[PlaceOf(search, x)]
    <3>1. Sound(search, evaluated)
      BY <1>1 DEF FitInv, Fit
    <3> QED BY <1>4, <3>1 DEF Sound, Phase, Synced, FindIsKnown
  <2>2. r.e_min = search.e_min
    <3>1. s.e_min = search.e_min /\ s.e_min_complexity = x
      BY <1>1, MergedFields
    <3> HIDE DEF s
    <3> QED BY <1>2, <1>4, <3>1, RecentredFields
  <2>3. /\ SenseOfKey.grid = search.grid /\ SenseOfKey.boot = search.am_bootstrapping
        /\ SenseOfKey.centre = search.centre /\ SenseOfKey.via = NoComplexity
    BY <1>1, SenseFacts
  <2> HIDE DEF r, x
  <2>4. \A u \in View : Agrees(u, SenseOfKey) => Value[Demod[u.grid][u.centre][x]] = r.e_min
    BY <2>1, <2>2, <2>3 DEF Agrees, PlaceOf
  <2> QED BY <1>1, <1>2, <1>4, <2>4, NewsSendRecentre
<1>5. CASE SendComplexities(s, MergedLinks)
  <2> DEFINE rem == s.remaining
             lk == Dealt(MergedLinks, rem)
             b == FALSE
             to == Processing
  <2>1. Announce(lk, io_key, to, {}, ComplexityFor(b)) /\ peer' = peer /\ b \in BOOLEAN
    BY <1>5 DEF SendComplexities, Keep
  <2> HIDE DEF rem
  <2>2. LinksOf(lk)
    BY <1>2, DealtLinks DEF rem
  <2> HIDE DEF lk, b, to
  <2> QED BY <2>1, <2>2, NewsSendShares
<1>6. CASE SendAssisted(s, MergedLinks, Assisted)
  <2> DEFINE b == TRUE
  <2>1. Announce(MergedLinks, io_key, Assisted, {}, ComplexityFor(b)) /\ peer' = peer /\ b \in BOOLEAN
    BY <1>6 DEF SendAssisted, Keep
  <2> HIDE DEF b
  <2> QED BY <1>2, <2>1, NewsSendShares
<1> QED BY <1>3, <1>4, <1>5, <1>6 DEF SyncTimeout

LEMMA NewsResumeCoroutine ==
  ASSUME TypeInv, KeyInv, FitInv, NewsInv, ResumeCoroutine
  PROVE  NewsInv'
<1> DEFINE s == Advanced(search)
<1>1. /\ status = "active" /\ coroutine # "none" /\ Waiting(search.grid) # {}
      /\ Running /\ search \in Search /\ search.remaining = {} /\ Synced(search)
      /\ Sound(search, evaluated)
  BY DEF ResumeCoroutine, TypeInv, Steady, SearchTypes, Running, FitInv, Fit
<1>2. /\ s \in Search /\ s.grid = search.grid /\ s.e_min = search.e_min /\ LinksOf(link)
      /\ ~search.am_bootstrapping
  BY <1>1, AdvancedFields, MergedLinksFacts, GoodAdvanced
<1>3. s.level # NoLevel => s.remaining # {}
  BY <1>1, AdvancedHasWork
<1> HIDE DEF s
<1>4. CASE SendShrunk(Shrunk(s), link)
  <2> DEFINE z == Shrunk(s)
  <2>1. z \in Search /\ SendShrunk(z, link)
    BY <1>1, <1>2, <1>4, ShrunkFields
  <2> HIDE DEF z
  <2> QED BY <2>1, NewsSendShrunk
<1>5. CASE s.level # NoLevel /\ coroutine = "recentre" /\ SendRecentre(s, link, recentre_x)
  <2>1. recentre_x \in Complexity /\ recentre_x # NoComplexity
    <3>1. recentre_x \in Complexity
      BY <1>5, SenseFacts
    <3> QED BY <3>1, LevelFacts
  <2>2. search.e_min = Value[search.centre]
    BY <1>1, <1>2 DEF Sound, FindIsKnown, Synced
  <2>3. /\ SenseOfKey.grid = search.grid /\ SenseOfKey.boot = search.am_bootstrapping
        /\ SenseOfKey.centre = search.centre /\ SenseOfKey.via = recentre_x
    BY <1>5, SenseFacts
  <2>4. \A u \in View : Agrees(u, SenseOfKey) => Value[Demod[u.grid][u.centre][recentre_x]] = s.e_min
    BY <1>2, <2>1, <2>2, <2>3 DEF Agrees
  <2> QED BY <1>1, <1>2, <1>3, <1>5, <2>1, <2>4, NewsSendRecentre
<1>6. CASE SendComplexities(s, link)
  <2> DEFINE rem == s.remaining
             lk == Dealt(link, rem)
             b == FALSE
             to == Processing
  <2>1. Announce(lk, io_key, to, {}, ComplexityFor(b)) /\ peer' = peer /\ b \in BOOLEAN
    BY <1>6 DEF SendComplexities, Keep
  <2>2. rem \in SUBSET Complexity
    BY <1>2 DEF Search
  <2> HIDE DEF rem
  <2>3. LinksOf(lk)
    BY <1>2, <2>2, DealtLinks
  <2> HIDE DEF lk, b, to
  <2> QED BY <2>1, <2>3, NewsSendShares
<1> QED BY <1>4, <1>5, <1>6 DEF ResumeCoroutine, s

LEMMA NewsPeerStep ==
  ASSUME TypeInv, NewsInv, NEW p \in Peers, PeerStep(p)
  PROVE  NewsInv'
<1>1. CASE PeerReads(p)
  <2>1. PICK d \in PeerState :
          /\ peer' = [peer EXCEPT ![p] = d] /\ s2p' = [s2p EXCEPT ![p] = Tail(s2p[p])]
          /\ ViewOf(d) = ViewAfter(ViewOf(peer[p]), Head(s2p[p]))
    BY <1>1, PeerHears
  <2>2. s2p[p] # <<>>
    BY <1>1, PeerHears
  <2>3. /\ peer'[p] = d /\ s2p'[p] = Tail(s2p[p])
        /\ \A q \in Peers : q # p => peer'[q] = peer[q] /\ s2p'[q] = s2p[q]
    BY <2>1 DEF TypeInv, NetTypes
  <2>4. Newsy(d, Tail(s2p[p]))
    BY <2>1, <2>2, PeerTypes, NewsyRead DEF NewsInv
  <2> QED BY <2>3, <2>4 DEF NewsInv
<1>2. CASE ~PeerReads(p)
  <2>1. s2p' = s2p /\ \E d \in PeerState, m \in Report : Works(p, peer[p], d, m)
    BY <1>2, PeerWorks
  <2>2. PICK d \in PeerState, m \in Report : Works(p, peer[p], d, m)
    BY <2>1
  <2>3. ViewOf(d) = ViewOf(peer[p]) /\ peer' = [peer EXCEPT ![p] = d]
    BY <2>2 DEF Works
  <2>4. peer'[p] = d /\ \A q \in Peers : q # p => peer'[q] = peer[q]
    BY <2>3 DEF TypeInv, NetTypes
  <2> QED BY <2>1, <2>3, <2>4, SMTT(30), ZenonT(40) DEF NewsInv, Newsy, Chain
<1> QED BY <1>1, <1>2

LEMMA NewsNext ==
  TypeInv /\ KeyInv /\ FitInv /\ NewsInv /\ [Next]_vars => NewsInv'
<1> SUFFICES ASSUME TypeInv, KeyInv, FitInv, NewsInv, [Next]_vars PROVE NewsInv'
  OBVIOUS
<1>1. CASE peer' = peer /\ s2p' = s2p
  BY <1>1, NewsForgotten
<1>2. CASE UNCHANGED vars \/ SaveTimeout \/ Activate
  <2>1. peer' = peer /\ s2p' = s2p
    BY <1>2 DEF vars, netVars, SaveTimeout, Activate
  <2> QED BY <1>1, <2>1
<1>3. CASE OnConverged \/ Deactivate \/ Crash
  <2>1. \A q \in Peers : peer'[q] = FreshPeer /\ s2p'[q] = <<>>
    BY <1>3 DEF OnConverged, Deactivate, Crash, NoConnections
  <2> QED BY <2>1, NewsForgotten
<1>4. CASE SyncTimeout \/ ResumeCoroutine
  BY <1>4, NewsSyncTimeout, NewsResumeCoroutine
<1>5. ASSUME NEW p \in Peers, Join(p) \/ Leave(p) \/ Lapse(p) \/ ServerWriteDone(p) \/ ReportArrives(p)
      PROVE  NewsInv'
  <2>1. CASE Leave(p) \/ Lapse(p)
    BY <2>1, NewsLose DEF Leave, Lapse
  <2> QED BY <1>5, <2>1, NewsJoin, NewsServerWriteDone, NewsReportArrives
<1>6. ASSUME NEW p \in Peers, PeerStep(p) PROVE NewsInv'
  BY <1>6, NewsPeerStep
<1> QED BY <1>2, <1>3, <1>4, <1>5, <1>6 DEF Next, ServerStep

LEMMA NewsImplies == TypeInv /\ NewsInv => RecentreIsNews
<1> SUFFICES ASSUME TypeInv, NewsInv, NEW p \in Peers, s2p[p] # <<>>, Head(s2p[p]).type = "recentre"
             PROVE  IsNews(ViewOf(peer[p]), Head(s2p[p]))
  BY DEF RecentreIsNews, IsNews, ViewOf
<1> DEFINE out == s2p[p]
           c == peer[p]
<1>1. out \in Seq(Sent) /\ out # <<>> /\ Newsy(c, out)
  BY PeerTypes DEF NewsInv
<1> HIDE DEF out, c
<1>2. 1 \in 1 .. Len(out) /\ Head(out) = out[1]
  BY <1>1, HeadIsThere
<1>3. PICK v \in [0 .. Len(out) -> View] :
        /\ Chain(c, out, v)
        /\ \A i \in 1 .. Len(out) : out[i].type = "recentre" => IsNews(v[i - 1], out[i])
  BY <1>1 DEF Newsy
<1>4. v[0] = ViewOf(c)
  BY <1>3 DEF Chain
<1>5. IsNews(v[1 - 1], out[1])
  BY <1>2, <1>3 DEF out
<1> QED BY <1>2, <1>4, <1>5 DEF out, c

\* RecentreIsNews: a peer that reads a recentring message does not have its key yet, is
\* given something to do, and arrives at a place that is as good as the message says:
\* the complexity is one of the centre that it is at by then, whatever it was sent
\* before, and however much of it late.
THEOREM NewCentreIsNews ==
  ASSUME 0 \notin JoinKeys
  PROVE  Spec => []RecentreIsNews
<1>1. Init => NewsInv
  BY NewsyNone, BlankFacts DEF Init, NewsInv
<1>2. SearchInv => TypeInv /\ KeyInv /\ FitInv
  BY DEF SearchInv
<1>3. SearchInv /\ NewsInv => RecentreIsNews
  BY <1>2, NewsImplies
<1> QED BY <1>1, <1>2, <1>3, SearchInit, SearchNext, NewsNext, PTL DEF Spec
=============================================================================
