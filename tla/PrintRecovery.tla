---------------------------- MODULE PrintRecovery ----------------------------
(***************************************************************************)
(* A primary label that was incomplete is recovered from the venue's own   *)
(* trades (ml/print_recovery.py), which come in pages from its REST for    *)
(* two days and from daily archives afterwards (ml/trade_history.py).      *)
(* Every page ends in a checkpoint, and a process may stop at any time.    *)
(*                                                                         *)
(* The replay of trades is that of PrimaryLabels; here it is how often the *)
(* position was fed each trade, and the trade that ends it.                *)
(***************************************************************************)
EXTENDS Naturals, FiniteSets, FiniteSetsExt

CONSTANTS
  Trades,   \* bound: trades of the venue, numbered from 1
  Days,     \* bound: days of them
  DayLen,   \* instants of a day
  Decision, \* instant of the decision
  Over,     \* instant after which a position without a fill is given up
  Young,    \* how long REST serves a trade
  Page,     \* rows of a page
  MaxHoles, \* bound: trades a source leaves out, and whether REST repeats one
  None

RecoveryAssumption ==
  /\ Trades \in Nat \ {0} /\ Days \in Nat \ {0} /\ DayLen \in Nat \ {0}
  /\ Decision \in Nat /\ Over \in Nat /\ Young \in Nat /\ Page \in Nat \ {0}
  /\ MaxHoles \in Nat

VARIABLES
  now,
  at,     \* the instant of every trade
  ends,   \* the trade that closes the position, None if none does
  holes,  \* what REST, what the archives leave out; REST repeats the last row
  disk,   \* the checkpoint
  mem,    \* recover_one: None, or its copy of the checkpoint and its asof
  label   \* the recovered label with its certificate

vars == <<now, at, ends, holes, disk, mem, label>>
market == <<now, at, ends, holes>>

Id == 1..Trades
Instant == 0..(Days * DayLen - 1)
Once(S) == [i \in Id |-> IF i \in S THEN 1 ELSE 0]
Empty == [first |-> 0, last |-> 0, fed |-> Once({}), status |-> "PENDING", day |-> 0, from |-> 0]
Day(i) == i \div DayLen

TypeOK ==
  /\ now \in Nat /\ at \in [Id -> Instant] /\ ends \in Id \cup {None}
  /\ holes.rest \subseteq Id /\ holes.archive \subseteq Id /\ holes.again \in BOOLEAN
  /\ disk.last \in 0..Trades /\ disk.fed \in [Id -> Nat]
  /\ disk.status \in {"PENDING", "NO_FILL", "VERIFIED"}

Init ==
  /\ now = Decision + 1
  /\ at \in {f \in [Id -> Instant] : \A i \in 2..Trades : f[i - 1] <= f[i]}
  /\ ends \in {None} \cup {i \in Id : at[i] > Decision /\ \A j \in 1..(i - 1) : at[j] <= Over}
  /\ \E r, a \in SUBSET Id, again \in BOOLEAN :
       /\ Cardinality(r) + Cardinality(a) + (IF again THEN 1 ELSE 0) <= MaxHoles
       /\ holes = [rest |-> r, archive |-> a, again |-> again]
  /\ disk = Empty /\ mem = None /\ label = None

Tick ==
  /\ now < Days * DayLen + Young
  /\ now' = now + 1
  /\ UNCHANGED <<at, ends, holes, disk, mem, label>>

\* recover_one: the checkpoint is restored, and the pages are as of now.
Begin ==
  /\ mem = None /\ label = None /\ disk.status = "PENDING"
  /\ mem' = [s |-> disk, asof |-> now]
  /\ UNCHANGED <<market, disk, label>>

(***************************************************************************)
(* Pages.                                                                  *)
(***************************************************************************)
Start(s) == IF s.last # 0 THEN at[s.last] ELSE Decision - 1
Recent == mem.asof < Start(mem.s) + Young
FirstOf(S) == {i \in S : Cardinality({j \in S : j < i}) < Page}

\* REST: from the minute before the decision, then by number; the venue may
\* answer with the row it was asked to go on after.
RestPage ==
  LET s == mem.s
      has == {i \in Id : at[i] <= now} \ holes.rest
  IN FirstOf(IF s.last = 0 THEN {i \in has : at[i] \in Start(s)..Decision}
             ELSE {i \in has : i > s.last \/ (holes.again /\ i = s.last)})

\* The archive of a past day: its rows from the offset on, as many as ten
\* seconds allow; at its end the next day.
ArchiveDay(s) == IF s.day >= Day(Start(s)) THEN s.day ELSE Day(Start(s))
Listed(s) ==
  {i \in Id \ holes.archive :
    /\ Day(at[i]) = ArchiveDay(s) /\ (s.day = ArchiveDay(s) => i > s.from)
    /\ i > s.last /\ at[i] >= Start(s)}

(***************************************************************************)
(* The rows of a page are fed to the position in turn.                     *)
(***************************************************************************)
Stops(i) == i = ends \/ at[i] > Over
\* What is consumed: up to the end of the position or the present.
Consumed(rows) ==
  {i \in rows : at[i] <= mem.asof /\ \A j \in rows : j < i => ~Stops(j)}
\* A missing number, or nothing of before the decision to start from.
BrokenInside(s, new) == /\ new # {}
                        /\ new # Min(new)..Max(new) \/ (s.last = 0 /\ at[Min(new)] > Decision)
Broken(s, new) == \/ BrokenInside(s, new)
                  \/ new # {} /\ s.last # 0 /\ Min(new) # s.last + 1
Fed(s, new) ==
  IF new = {} THEN s
  ELSE [s EXCEPT !.first = IF @ = 0 THEN Min(new) ELSE @, !.last = Max(new),
                 !.fed = [i \in Id |-> IF i \in new THEN @[i] + 1 ELSE @[i]]]
Finished(s) == s.last # 0 /\ Stops(s.last)

Save(s) == disk' = s
Leave == mem' = None
\* Any error leaves the checkpoint as it was.
Defer == Leave /\ UNCHANGED <<disk, label>>

Take(rows, s) ==
  LET new == Consumed(rows)
      t == Fed(s, new)
  IN IF Broken(s, new) THEN Defer
     ELSE IF ~Finished(t)
       THEN /\ Save(t) /\ UNCHANGED label
            /\ IF new = {} \/ at[t.last] >= mem.asof THEN Leave
               ELSE mem' = [mem EXCEPT !.s = t]
     ELSE IF t.last # ends
       THEN Save([t EXCEPT !.status = "NO_FILL"]) /\ UNCHANGED label /\ Leave
     ELSE /\ label' = t /\ Leave
          /\ Save([t EXCEPT !.status = "VERIFIED"]) \/ UNCHANGED disk

Rest ==
  /\ mem # None /\ Recent
  /\ IF RestPage = {} THEN Defer ELSE Take(RestPage, mem.s)
  /\ UNCHANGED market

\* The place in the archive is that of the last row that was consumed.
Archive(n) ==
  /\ mem # None /\ ~Recent
  /\ LET s == mem.s  d == ArchiveDay(s)
         rows == {i \in FirstOf(Listed(s)) : Cardinality({j \in Listed(s) : j < i}) < n}
         next == [s EXCEPT !.day = IF Listed(s) = {} THEN d + 1 ELSE d,
                           !.from = IF s.day = d /\ Listed(s) # {} THEN @ ELSE 0]
     IN IF d >= Day(mem.asof) THEN Defer
        ELSE IF rows = {} THEN Save(next) /\ mem' = [mem EXCEPT !.s = next] /\ UNCHANGED label
        ELSE LET new == Consumed(rows)
             IN Take(rows, IF new = {} THEN s ELSE [s EXCEPT !.day = d, !.from = Max(new)])
  /\ UNCHANGED market

\* The budget of pages or of time is over, a request fails, the process stops.
Ends == mem # None /\ Defer /\ UNCHANGED market

Next == Tick \/ Begin \/ Rest \/ (\E n \in 0..Page : Archive(n)) \/ Ends
Spec == Init /\ [][Next]_vars

(***************************************************************************)
(* Properties.                                                             *)
(***************************************************************************)
\* The trades the position was fed.
Heard(s) == {i \in Id : s.fed[i] # 0}

\* A recovered label rests on every trade of the venue from one before the
\* decision to the exit, each fed once, whatever was left out of pages and
\* archives and wherever the work was interrupted: the position really ended
\* there.  What is given up as never filled was followed in the same way.
Whole(s) ==
  /\ s.fed = Once(s.first..s.last) /\ at[s.first] <= Decision
  /\ \A i \in Id : at[i] \in (Decision + 1)..(at[s.last] - 1) => s.fed[i] = 1
RecoveredWhole ==
  /\ label # None => Whole(label) /\ label.last = ends
  /\ disk.status = "NO_FILL" => Whole(disk) /\ ends \notin Heard(disk)
=============================================================================
