----------------------------- MODULE MarketDesk -----------------------------
(***************************************************************************)
(* The market data side of the desk: the primary venue and its failover    *)
(* (scanner_market_data.py), the broad scan (scanner_discovery.py), the    *)
(* refresh of the followed symbols (scanner.py), the per-venue collectors  *)
(* beside the primary (cross_venue.py) and the tick that keeps every       *)
(* setup's own venue subscribed (lifecycle.py).                            *)
(*                                                                         *)
(* All of them are asyncio tasks: an action is what runs between two       *)
(* awaits that another task can use.  Candles, books and rankings are      *)
(* abstracted to the venue they come from.                                 *)
(***************************************************************************)
EXTENDS Naturals, FiniteSets

CONSTANTS
  Venue,     \* exchanges.VENUES
  Symbol,    \* symbols every venue lists
  First,     \* the venue an automatic desk starts from
  Capacity,  \* settings.deep_symbols
  MaxSetups, \* bound: setups active at a time
  MaxFails,  \* bound: failures of the cross-venue runner and its collectors
  None       \* nothing cached, held or chosen

DeskAssumption ==
  /\ First \in Venue
  /\ Capacity \in Nat
  /\ MaxSetups \in Nat /\ MaxFails \in Nat
  /\ None \notin Venue \cup Symbol

VARIABLES
  primary,   \* the venue of runtime.api and runtime.streams
  ready,     \* source_ready
  peers,     \* venues with a collector in cross_venue.peers
  coll,      \* per venue: symbols its collector streams, and required_symbols
  jobs,      \* cross_venue.jobs: no entry, a running task, an ended one
  runner,    \* CrossVenue.run is under way, or waits for its supervisor
  fails,     \* failures so far (bounds the model)
  setups,    \* active setups: venue, symbol and the venue of their candles
  context,   \* runtime.context: venue of the instrument and of the candles
  cache,     \* runtime.candle_cache: venue of the candles
  refresh,   \* the request of refresh_once that is in flight
  lock,      \* scan_lock: its holder, how far it is, what it has gathered
  seen       \* history: setups that a tick has followed, outside of a switch and
             \* since the collector of their venue began

vars == <<primary, ready, peers, coll, jobs, runner, fails, setups, context,
          cache, refresh, lock, seen>>

Closed == [sel |-> {}, req |-> {}]
Free == [by |-> None, at |-> "idle", to |-> None, pinned |-> {}, verified |-> {}]
Market == [inst : Venue, bars : Venue]
Setup == [source : Venue, symbol : Symbol, bars : Venue]

TypeOK ==
  /\ primary \in Venue /\ ready \in BOOLEAN /\ peers \subseteq Venue
  /\ coll \in [Venue -> [sel : SUBSET Symbol, req : SUBSET Symbol]]
  /\ jobs \in [Venue -> {"none", "run", "ended"}]
  /\ runner \in BOOLEAN /\ fails \in 0..MaxFails
  /\ setups \subseteq Setup
  /\ context \in [Symbol -> Market \cup {None}]
  /\ cache \in [Symbol -> Venue \cup {None}]
  /\ refresh = None \/ refresh \in [symbol : Symbol, inst : Venue, asked : Venue]
  /\ lock.by \in {None, "scan", "watch"}
  /\ lock.at \in {"idle", "probe", "stopping", "rows", "admit"}
  /\ seen \subseteq Venue \X Symbol

(***************************************************************************)
(* Setups and subscriptions.                                               *)
(***************************************************************************)
Followed == {<<p.source, p.symbol>> : p \in setups}
\* pending_symbols of the primary, required of another venue.
Pending(v) == {p.symbol : p \in {q \in setups : q.source = v}}

\* Streams._select and NativeStreams._select: what is required, and of the
\* rest all of it (Bybit) or as much as the capacity leaves (the others).
Chosen(asked, req) ==
  {req \cup o : o \in {o \in SUBSET (asked \ req) :
                        \/ o = asked \ req
                        \/ Cardinality(o) + Cardinality(req) = Capacity
                        \/ o = {} /\ Cardinality(req) > Capacity}}
Retained(v, asked, req) == Chosen(coll[v].sel \cup asked, req)
Subscribe(v, sel, req) == coll' = [coll EXCEPT ![v] = [sel |-> sel, req |-> req]]

\* A tape of the primary that is warm: any streaming symbol may have one.
FlowReady(s) == s \in coll[primary].sel
Overlaps(inst, s) == <<inst, s>> \in Followed

\* A plan is bound to the venue of its instrument and made of candles.
SaveCandidates(s, inst, bars) ==
  /\ FlowReady(s) /\ ~Overlaps(inst, s) /\ Cardinality(setups) < MaxSetups
  /\ setups' = setups \cup {[source |-> inst, symbol |-> s, bars |-> bars]}

\* The other horizons ask for their candles anew, the primary's by now.
DiscoverHorizons(s, inst, bars) == SaveCandidates(s, inst, bars)

Generate(s, inst, bars) ==
  \/ UNCHANGED setups
  \/ SaveCandidates(s, inst, bars)
  \/ DiscoverHorizons(s, inst, primary)

SetupEnds(p) ==
  /\ p \in setups
  /\ setups' = setups \ {p}
  /\ seen' = seen \ {<<p.source, p.symbol>>}
  /\ UNCHANGED <<primary, ready, peers, coll, jobs, runner, fails, context,
                 cache, refresh, lock>>

\* lifecycle.tick: the primary keeps what it streams and takes its setups'
\* symbols, then restore_required does the same on every other venue.
Restored(v) == Pending(v) # {} \/ v \in peers
Tick ==
  /\ \E sel \in [Venue -> SUBSET Symbol] :
       /\ \A v \in Venue :
            IF v = primary \/ Restored(v)
              THEN sel[v] \in Retained(v, Pending(v), Pending(v))
              ELSE sel[v] = coll[v].sel
       /\ coll' = [v \in Venue |-> [sel |-> sel[v],
             req |-> IF v = primary \/ Restored(v) THEN Pending(v) ELSE coll[v].req]]
  /\ peers' = peers \cup {v \in Venue \ {primary} : Restored(v)}
  /\ seen' = IF lock.at = "stopping" THEN seen ELSE Followed
  /\ UNCHANGED <<primary, ready, jobs, runner, fails, setups, context, cache,
                 refresh, lock>>

(***************************************************************************)
(* The broad scan and the watchdog, which share scan_lock.                 *)
(***************************************************************************)
\* The clients of some venues are closed: their request in flight fails.
Cut(closed) ==
  refresh' = IF refresh # None /\ refresh.asked \in closed THEN None ELSE refresh

desk == <<primary, ready, peers, jobs>>
others == <<runner, fails, refresh>>

\* scan_once takes the lock; select_source returns at once when ready.
ScanBegin ==
  /\ lock.by = None
  /\ lock' = [Free EXCEPT !.by = "scan", !.at = IF ready THEN "rows" ELSE "probe"]
  /\ UNCHANGED <<desk, others, coll, setups, context, cache, seen>>

\* source_watchdog: the feed has been silent for two minutes.
WatchBegin ==
  /\ lock.by = None /\ ready /\ coll[primary].sel # {}
  /\ \E sel \in Retained(primary, Pending(primary), Pending(primary)) :
       Subscribe(primary, sel, Pending(primary))
  /\ ready' = FALSE
  /\ lock' = [Free EXCEPT !.by = "watch", !.at = "probe"]
  /\ UNCHANGED <<primary, peers, jobs, others, setups, context, cache, seen>>

Leave == IF lock.by = "scan" THEN [lock EXCEPT !.at = "rows"] ELSE Free

\* No venue answers: the watchdog goes on with the old source; a scan fails.
ProbeNone ==
  /\ lock.at = "probe" /\ lock.by = "watch"
  /\ ready' = TRUE /\ lock' = Free
  /\ UNCHANGED <<primary, peers, jobs, others, coll, setups, context, cache, seen>>

ProbeSame ==
  /\ lock.at = "probe"
  /\ ready' = TRUE /\ lock' = Leave
  /\ UNCHANGED <<primary, peers, jobs, others, coll, setups, context, cache, seen>>

\* Venue v answers: its collector becomes the primary, and everything kept
\* of the old venue is forgotten.
Promote(v, stays) ==
  /\ primary' = v /\ ready' = TRUE
  /\ peers' = (peers \cup stays) \ {v}
  /\ coll' = [c \in Venue |-> IF (c = primary /\ stays = {}) \/ (c = v /\ v \notin peers)
                               THEN Closed ELSE coll[c]]
  /\ jobs' = [jobs EXCEPT ![v] = "none"]
  /\ context' = [s \in Symbol |-> None]
  /\ cache' = [s \in Symbol |-> None]
  /\ lock' = Leave
  /\ Cut({primary} \ stays)
  /\ UNCHANGED <<runner, fails, setups, seen>>

\* The old collector stays as a peer for as long as its setups need it.
KeptNever == {}
Kept == IF Pending(primary) # {} THEN {primary} ELSE {}
ProbeOther(v) ==
  /\ lock.at = "probe" /\ v # primary
  /\ IF Kept # {}
       THEN Promote(v, Kept)
       ELSE /\ lock' = [lock EXCEPT !.at = "stopping", !.to = v]
            /\ UNCHANGED <<desk, others, coll, setups, context, cache, seen>>
Stopped == lock.at = "stopping" /\ Promote(lock.to, {})

\* cached_candles of the scan: what is kept, or what the primary answers.
Bars(s) == IF cache[s] = None THEN primary ELSE cache[s]

ScanRows ==
  /\ lock.at = "rows"
  /\ lock' = [lock EXCEPT !.at = "admit", !.pinned = Pending(primary)]
  /\ UNCHANGED <<desk, others, coll, setups, context, cache, seen>>

\* admit: context, candidates and, for a setup's symbol, its subscription.
Admit(s) ==
  /\ lock.at = "admit" /\ s \notin lock.verified
  /\ cache' = [cache EXCEPT ![s] = Bars(s)]
  /\ context' = [context EXCEPT ![s] = [inst |-> primary, bars |-> Bars(s)]]
  /\ Generate(s, primary, Bars(s))
  /\ lock' = [lock EXCEPT !.verified = @ \cup {s}]
  /\ IF s \in lock.pinned
       THEN \E sel \in Retained(primary, {s}, coll[primary].req) :
              Subscribe(primary, sel, coll[primary].req)
       ELSE UNCHANGED coll
  /\ UNCHANGED <<desk, others, seen>>

\* The final selection: the streaming symbols of the setups known at the
\* start, then as many verified ones as the capacity, which a recorder under
\* pressure reduces, leaves.  required_symbols is what a task wrote last.
ScanSelects ==
  /\ lock.at = "admit"
  /\ LET retained == lock.pinned \cap coll[primary].sel IN
     \E more \in SUBSET lock.verified :
       /\ Cardinality(retained \cup more) <= Capacity \/ more \subseteq retained
       /\ \E sel \in Chosen(retained \cup more, coll[primary].req) :
            Subscribe(primary, sel, coll[primary].req)
  /\ lock' = Free
  /\ UNCHANGED <<desk, others, setups, context, cache, seen>>

\* Any failure or the cycle's timeout: scan_loop re-selects the setups.
ScanFails ==
  /\ lock.by = "scan"
  /\ \E sel \in Retained(primary, Pending(primary), Pending(primary)) :
       Subscribe(primary, IF lock.at = "stopping" THEN Pending(primary) ELSE sel,
                 Pending(primary))
  /\ lock' = Free
  /\ UNCHANGED <<desk, others, setups, context, cache, seen>>

(***************************************************************************)
(* refresh_once, which takes no lock: the context is held across requests. *)
(***************************************************************************)
RefreshAsks(s) ==
  /\ refresh = None /\ context[s] # None
  /\ s \in Pending(primary) \cup coll[primary].sel
  /\ refresh' = [symbol |-> s, inst |-> context[s].inst, asked |-> primary]
  /\ UNCHANGED <<desk, runner, fails, coll, setups, context, cache, lock, seen>>

RefreshGets ==
  /\ refresh # None
  /\ LET s == refresh.symbol IN
     /\ cache' = [cache EXCEPT ![s] = refresh.asked]
     /\ context' = [context EXCEPT ![s] = [inst |-> refresh.inst, bars |-> refresh.asked]]
     /\ Generate(s, refresh.inst, refresh.asked)
  /\ refresh' = None
  /\ UNCHANGED <<desk, runner, fails, coll, lock, seen>>

RefreshFails ==
  /\ refresh # None /\ refresh' = None
  /\ UNCHANGED <<desk, runner, fails, coll, setups, context, cache, lock, seen>>

(***************************************************************************)
(* CrossVenue.run and collect.                                             *)
(***************************************************************************)
market == <<primary, ready, setups, context, cache, lock>>

\* One round: every other venue without an entry in jobs gets a collector.
RunnerRound ==
  /\ runner /\ ready
  /\ jobs' = [v \in Venue |-> IF v = primary THEN "none"
                               ELSE IF jobs[v] = "none" THEN "run" ELSE jobs[v]]
  /\ peers' = peers \cup {v \in Venue \ {primary} : jobs[v] = "none"}
  /\ UNCHANGED <<market, coll, runner, fails, refresh, seen>>

\* collect: up to Capacity symbols of the primary, and its own setups'.
Collect(v) ==
  /\ jobs[v] = "run" /\ v \in peers
  /\ \E asked \in SUBSET (Pending(primary) \cup coll[primary].sel) :
     \E sel \in Chosen(asked, Pending(v)) : Subscribe(v, sel, Pending(v))
  /\ UNCHANGED <<market, peers, jobs, runner, fails, refresh, seen>>

Shut(gone) ==
  /\ jobs' = [v \in Venue |-> IF v \in gone THEN "ended" ELSE jobs[v]]
  /\ peers' = peers \ gone
  /\ coll' = [v \in Venue |-> IF v \in gone \cap peers THEN Closed ELSE coll[v]]
  /\ Cut(gone \cap peers)
  /\ seen' = {f \in seen : f[1] \notin gone}

\* A collector fails again while it handles a failure: its task ends.
CollectorDies(v) ==
  /\ jobs[v] = "run" /\ fails < MaxFails
  /\ Shut({v}) /\ fails' = fails + 1
  /\ UNCHANGED <<market, runner>>

\* publish fails: run cancels every collector and leaves jobs as it is.
RunnerFails ==
  /\ runner /\ ready /\ fails < MaxFails
  /\ Shut({v \in Venue : jobs[v] = "run"})
  /\ runner' = FALSE /\ fails' = fails + 1
  /\ UNCHANGED market

Supervise ==
  /\ ~runner /\ runner' = TRUE
  /\ UNCHANGED <<market, peers, coll, jobs, fails, refresh, seen>>

(***************************************************************************)
(* A restart of the process, with lifecycle.bootstrap.                     *)
(***************************************************************************)
Boot(v, known) ==
  /\ primary' = v /\ ready' = known
  /\ peers' = {u \in Venue \ {v} : Pending(u) # {}}
  /\ coll' = [u \in Venue |-> [sel |-> Pending(u), req |-> Pending(u)]]
  /\ jobs' = [u \in Venue |-> "none"] /\ runner' = TRUE
  /\ context' = [s \in Symbol |-> None] /\ cache' = [s \in Symbol |-> None]
  /\ refresh' = None /\ lock' = Free

Restart ==
  /\ IF setups = {} THEN Boot(First, FALSE)
                    ELSE \E p \in setups : Boot(p.source, TRUE)
  /\ UNCHANGED <<fails, setups, seen>>

Init ==
  /\ primary = First /\ ready = FALSE /\ peers = {}
  /\ coll = [v \in Venue |-> Closed]
  /\ jobs = [v \in Venue |-> "none"] /\ runner = TRUE /\ fails = 0
  /\ setups = {} /\ seen = {}
  /\ context = [s \in Symbol |-> None] /\ cache = [s \in Symbol |-> None]
  /\ refresh = None /\ lock = Free

Next ==
  \/ Tick \/ ScanBegin \/ WatchBegin \/ ProbeNone \/ ProbeSame \/ Stopped
  \/ ScanRows \/ ScanSelects \/ ScanFails
  \/ RefreshGets \/ RefreshFails
  \/ RunnerRound \/ RunnerFails \/ Supervise \/ Restart
  \/ \E p \in setups : SetupEnds(p)
  \/ \E v \in Venue : ProbeOther(v) \/ Collect(v) \/ CollectorDies(v)
  \/ \E s \in Symbol : Admit(s) \/ RefreshAsks(s)

Spec == Init /\ [][Next]_vars

(***************************************************************************)
(* Properties.                                                             *)
(***************************************************************************)
\* A setup that a tick has followed has its symbol streamed by its own venue,
\* through scans, switches of the primary and rounds of the collectors, until
\* it ends or its collector's task does ("original plans keep their own peer
\* and historical recovery", scanner_market_data.py).
HistoryKept == \A f \in seen : f[2] \in coll[f[1]].sel
=============================================================================
