---------------------------- MODULE ModelRegistry ----------------------------
(***************************************************************************)
(* Learning on paper outcomes: the ledger of consumed holdouts             *)
(* (ml/training.py), the planner that keeps later experiments off them     *)
(* (ml/validation.py, see Partitions), and the registry of models with its *)
(* champion (ml/registry.py, ml/drift.py).                                 *)
(*                                                                         *)
(* The worker and a manual trainer are processes of their own that share   *)
(* ml-fit.lock and the database; an operator promotes and rolls back from  *)
(* the command line, and the drift check degrades models at any time.      *)
(* Each may die between two commits.  What a fit computes is free.         *)
(***************************************************************************)
EXTENDS Partitions, Sequences, Functions

CONSTANTS
  Trainers,    \* processes that fit
  DecidedAt,   \* the times of the decisions, in order
  Early,       \* decisions whose outcome is known at the start, one instant later
  Start,       \* the instant at the start
  MaxNow,      \* the last instant
  MaxFits,     \* experiments
  MaxDeaths    \* of trainers and operators

Free == "free"

ASSUME RegistryAssumption ==
  /\ DecidedAt \in Seq(Nat \ {0}) /\ Early \subseteq DOMAIN DecidedAt
  /\ Start \in Nat /\ MaxNow \in Nat /\ MaxFits \in Nat /\ MaxDeaths \in Nat
  /\ \A i \in Early : DecidedAt[i] < Start
  /\ Free \notin Trainers

VARIABLES
  now,
  released,     \* the instant each outcome was available, 0 before
  trainer,      \* where each process is, with its dataset and plan
  lock,         \* ml-fit.lock
  ledger,       \* ml_holdouts
  looks,        \* history: the rows of each experiment, once its holdout was looked at
  models,       \* ml_models, by the number of their experiment
  approved, degraded,     \* ml_history
  champion, previous,     \* ml_champion, ml_previous_champion; 0 for none
  operator,     \* a promotion or a rollback under way
  deaths

outcomes == <<now, released>>
registry == <<models, approved, degraded, champion, previous>>
vars == <<outcomes, trainer, lock, ledger, looks, registry, operator, deaths>>

Decisions == DOMAIN DecidedAt
Experiments == 1 .. MaxFits
Idle == [pc |-> "idle", data |-> {}, cut |-> <<0, 0, 0>>, exp |-> 0, versus |-> 0, wins |-> FALSE]
NoOne == [pc |-> "idle", kind |-> "promote", id |-> 0]
NoModel == [start |-> 0, end |-> 0, good |-> FALSE, versus |-> 0, wins |-> FALSE]

Init ==
  /\ now = Start
  /\ released = [i \in Decisions |-> IF i \in Early THEN DecidedAt[i] + 1 ELSE 0]
  /\ trainer = [t \in Trainers |-> Idle] /\ lock = Free
  /\ ledger = <<>> /\ looks = [e \in Experiments |-> [data |-> {}, hold |-> {}]]
  /\ models = [e \in Experiments |-> NoModel]
  /\ approved = {} /\ degraded = {} /\ champion = 0 /\ previous = 0
  /\ operator = NoOne /\ deaths = 0

-----------------------------------------------------------------------------
(* Outcomes: a decision is made at its time and resolves later, in any     *)
(* order.                                                                  *)
Tick == now < MaxNow /\ now' = now + 1
        /\ UNCHANGED <<released, trainer, lock, ledger, looks, registry, operator, deaths>>

Resolve(i) ==
  /\ released[i] = 0 /\ DecidedAt[i] < now
  /\ released' = [released EXCEPT ![i] = now]
  /\ UNCHANGED <<now, trainer, lock, ledger, looks, registry, operator, deaths>>

Outcomes ==
  {[id |-> i, d |-> DecidedAt[i], rel |-> released[i]] : i \in {j \in Decisions : released[j] # 0}}

-----------------------------------------------------------------------------
(* A trainer.                                                              *)
Step(t, r) == trainer' = [trainer EXCEPT ![t] = r]

\* The dataset is a file: what is resolved later is not in it, however late it is read.
Export(t) ==
  /\ trainer[t].pc \in {"idle", "file"} /\ trainer[t].data # Outcomes
  /\ Step(t, [Idle EXCEPT !.pc = "file", !.data = Outcomes])
  /\ UNCHANGED <<outcomes, lock, ledger, looks, registry, operator, deaths>>

\* Mutated: only of experiments that were registered, so that a crash refunds.
LastEndRegistered ==
  CHOOSE e \in {models[m].end : m \in Experiments} : \A m \in Experiments : models[m].end <= e

LastEnd ==
  IF ledger = <<>> THEN 0
  ELSE CHOOSE e \in {ledger[k].end : k \in DOMAIN ledger} : \A k \in DOMAIN ledger : ledger[k].end <= e

HoldStart(r) == r.cut[3]
HoldEnd(r) ==
  CHOOSE e \in {x.rel : x \in Group(r.data, r.cut, Holdout)} :
    \A x \in Group(r.data, r.cut, Holdout) : x.rel <= e

\* Never reuse a prior holdout, even if the dataset changes.
Overlaps(r) ==
  \E k \in DOMAIN ledger : ledger[k].start <= HoldEnd(r) /\ ledger[k].end >= HoldStart(r)

Fitting(t) ==
  LET r == [trainer[t] EXCEPT !.cut = Plan(trainer[t].data, LastEnd)]
  IN  /\ Ready(r.cut) /\ ~Overlaps(r)
      /\ Step(t, [r EXCEPT !.pc = "fitting"]) /\ lock' = t

Unlocked(t) == lock' = IF lock = t THEN Free ELSE lock
\* The exception leaves the locked block; the file is tried again only by hand.
Abstain(t) == Step(t, Idle) /\ Unlocked(t)

\* The lock does not wait.  No split, single classes or too small a part end the fit.
Begin(t) ==
  /\ trainer[t].pc = "file" /\ Len(ledger) < MaxFits
  /\ \/ lock = Free /\ Fitting(t)
     \/ Abstain(t)
  /\ UNCHANGED <<outcomes, ledger, looks, registry, operator, deaths>>

\* The reservation comes before the labels of the holdout are read.
Reserve(t) ==
  /\ trainer[t].pc = "fitting"
  /\ IF Overlaps(trainer[t])
       THEN Abstain(t) /\ UNCHANGED ledger
       ELSE /\ ledger' = Append(ledger, [start |-> HoldStart(trainer[t]), end |-> HoldEnd(trainer[t])])
            /\ Step(t, [trainer[t] EXCEPT !.pc = "reserved", !.exp = Len(ledger) + 1])
            /\ UNCHANGED lock
  /\ UNCHANGED <<outcomes, looks, registry, operator, deaths>>

Evaluate(t) ==
  /\ trainer[t].pc = "reserved"
  /\ looks' = [looks EXCEPT ![trainer[t].exp] =
                 [data |-> trainer[t].data, hold |-> Group(trainer[t].data, trainer[t].cut, Holdout)]]
  /\ Step(t, [trainer[t] EXCEPT !.pc = "evaluated"])
  /\ UNCHANGED <<outcomes, lock, ledger, registry, operator, deaths>>

\* Registry.champion: what is deployed and still stands, 0 for none.
Standing ==
  IF champion # 0 /\ champion \notin degraded /\ champion \in approved /\ models[champion].good
  THEN champion ELSE 0

\* The comparison with the champion, only on outcomes that are later than its holdout.
Compare(t) ==
  /\ trainer[t].pc = "evaluated"
  /\ \E wins \in BOOLEAN :
       LET fair == Standing # 0 /\ HoldStart(trainer[t]) > models[Standing].end
       IN  Step(t, [trainer[t] EXCEPT !.pc = "compared",
                      !.versus = IF fair THEN Standing ELSE 0, !.wins = fair /\ wins])
  /\ UNCHANGED <<outcomes, lock, ledger, looks, registry, operator, deaths>>

\* good: no promotion_reasons, the statistics of the holdout.
Register(t) ==
  /\ trainer[t].pc = "compared"
  /\ \E good \in BOOLEAN :
       models' = [models EXCEPT ![trainer[t].exp] =
                    [start |-> HoldStart(trainer[t]), end |-> HoldEnd(trainer[t]), good |-> good,
                     versus |-> trainer[t].versus, wins |-> trainer[t].wins]]
  /\ Step(t, Idle) /\ Unlocked(t)
  /\ UNCHANGED <<outcomes, ledger, looks, approved, degraded, champion, previous, operator, deaths>>

Die == deaths < MaxDeaths /\ deaths' = deaths + 1

\* The ledger keeps what a dead trainer reserved; flock does not outlive it.
TrainerDies(t) ==
  /\ trainer[t].pc \notin {"idle", "file"} /\ Die /\ Abstain(t)
  /\ UNCHANGED <<outcomes, ledger, looks, registry, operator>>

-----------------------------------------------------------------------------
(* The registry.                                                           *)
Registered(m) == models[m] # NoModel

\* Mutated: any champion ever beaten will do.
ProvenOnce(m) == Standing \notin {0, m} => models[m].start > models[Standing].end /\ models[m].wins

Proven(m) ==
  Standing \notin {0, m} =>
    /\ models[m].start > models[Standing].end
    /\ models[m].versus = Standing /\ models[m].wins

Order(pc, kind, m) == operator' = [pc |-> pc, kind |-> kind, id |-> m]

\* promote: the reasons are looked for, then the approval is an event of its own.
Review(m) ==
  /\ operator = NoOne /\ Registered(m)
  /\ models[m].good /\ m \notin degraded /\ Proven(m)
  /\ Order("reviewed", "promote", m)
  /\ UNCHANGED <<outcomes, trainer, lock, ledger, looks, registry, deaths>>

Approve ==
  /\ operator.pc = "reviewed" /\ approved' = approved \cup {operator.id}
  /\ Order("approved", operator.kind, operator.id)
  /\ UNCHANGED <<outcomes, trainer, lock, ledger, looks, models, degraded, champion, previous, deaths>>

RollBack ==
  /\ operator = NoOne /\ previous # 0
  /\ previous \notin degraded /\ previous \in approved /\ models[previous].good
  /\ Order("approved", "rollback", previous)
  /\ UNCHANGED <<outcomes, trainer, lock, ledger, looks, registry, deaths>>

\* Two puts, two commits.
KeepPrevious ==
  /\ operator.pc = "approved" /\ previous' = champion
  /\ Order("kept", operator.kind, operator.id)
  /\ UNCHANGED <<outcomes, trainer, lock, ledger, looks, models, approved, degraded, champion, deaths>>

Install ==
  /\ operator.pc = "kept" /\ champion' = operator.id /\ operator' = NoOne
  /\ UNCHANGED <<outcomes, trainer, lock, ledger, looks, models, approved, degraded, previous, deaths>>

OperatorDies ==
  /\ operator # NoOne /\ Die /\ operator' = NoOne
  /\ UNCHANGED <<outcomes, trainer, lock, ledger, looks, registry>>

\* drift.check, of the champion by the worker or of any model by hand.
Degrade(m) ==
  /\ Registered(m) /\ m \notin degraded /\ degraded' = degraded \cup {m}
  /\ UNCHANGED <<outcomes, trainer, lock, ledger, looks, models, approved, champion, previous, operator, deaths>>

Next ==
  \/ Tick \/ \E i \in Decisions : Resolve(i)
  \/ \E t \in Trainers :
       \/ Export(t) \/ Begin(t) \/ Reserve(t) \/ Evaluate(t) \/ Compare(t) \/ Register(t)
       \/ TrainerDies(t)
  \/ \E m \in Experiments : Review(m) \/ Degrade(m)
  \/ Approve \/ RollBack \/ KeepPrevious \/ Install \/ OperatorDies

Spec == Init /\ [][Next]_vars

-----------------------------------------------------------------------------
Process ==
  [pc : {"idle", "file", "fitting", "reserved", "evaluated", "compared"}, data : SUBSET Row,
   cut : Nat \X Nat \X Nat, exp : Experiments \cup {0}, versus : Experiments \cup {0}, wins : BOOLEAN]
Reservation == [start : Nat, end : Nat]
Model == [start : Nat, end : Nat, good : BOOLEAN, versus : Experiments \cup {0}, wins : BOOLEAN]

TypeOK ==
  /\ now \in Nat /\ released \in [Decisions -> Nat]
  /\ trainer \in [Trainers -> Process]
  /\ lock \in Trainers \cup {Free}
  /\ ledger \in Seq(Reservation) /\ Len(ledger) <= MaxFits
  /\ looks \in [Experiments -> [data : SUBSET Row, hold : SUBSET Row]]
  /\ models \in [Experiments -> Model]
  /\ approved \subseteq Experiments /\ degraded \subseteq Experiments
  /\ champion \in Experiments \cup {0} /\ previous \in Experiments \cup {0}
  /\ operator \in [pc : {"idle", "reviewed", "approved", "kept"}, kind : {"promote", "rollback"},
                   id : Experiments \cup {0}]
  /\ deaths \in Nat

\* No outcome on which an experiment is judged was in the dataset of an
\* earlier one, not even of one whose trainer died after it had looked.
HoldoutUnseen ==
  \A e, f \in Experiments : e < f => looks[e].data \cap looks[f].hold = {}

\* The planner finds a split exactly when there is one, whatever it refines
\* afterwards, and what it finds is one.
PlanExact ==
  /\ Ready(Plan(Outcomes, LastEnd)) <=> Splittable(Outcomes, LastEnd)
  /\ Ready(Plan(Outcomes, LastEnd)) => Feasible(Outcomes, LastEnd, Plan(Outcomes, LastEnd))

\* A model replaces a champion that stands only after it has beaten it, on
\* outcomes neither of them was fitted to, or in going back to the one before.
ChampionProven ==
  [][champion' \notin {champion, 0} /\ Standing # 0 /\ operator.kind = "promote"
       => /\ models[champion'].versus = Standing /\ models[champion'].wins
          /\ looks[champion'].hold \cap looks[Standing].data = {}]_vars
=============================================================================
