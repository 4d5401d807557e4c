------------------------------ MODULE Migrations ------------------------------
(***************************************************************************)
(* Opening the store (Store.__init__, migrations.apply).  Every process,   *)
(* and every worker thread that opens a store of its own, runs the         *)
(* registry of migrations first, while others read and write the same      *)
(* database, some of them of an earlier version.  Each statement commits   *)
(* on its own (SQLite commits a schema change outside a transaction, and   *)
(* executescript commits before it begins), and the receipt of a step      *)
(* after its statements; a process may stop between any two.               *)
(***************************************************************************)
EXTENDS Sequences, FiniteSets, Integers

CONSTANTS
  Opener,       \* what opens a store
  Knows,        \* [Opener -> Nat]: the steps of the registry of its version
  Sum,          \* [Opener -> [Nat -> Nat]]: the checksums of its steps
  Setup,
  Text,         \* what a row of a projected table says
  MaxStops, MaxWrites

\* The statements of each step, in order.
CoreSteps == <<"core">>
FeatureSteps == <<"features", "columns", "scope", "labelTriggers", "labelRows">>
ObservationSteps == <<"copyOrigins", "copied", "observations">>
IdentitySteps == <<"copyClaims", "copied", "claims", "setups", "registered", "seeded">>
ReliabilitySteps == <<"opportunities">>
\* Mutated: the rows are filled before the triggers are there.
RowsFirst == <<"symbolRows", "symbolTriggers">>

SymbolSteps == <<"symbolTriggers", "symbolRows">>
PowerSteps == <<"attempts">>

\* again: a step that runs at every start.
Step(again, does) == [again |-> again, does |-> does]
Registry ==
  <<Step(TRUE, CoreSteps), Step(TRUE, FeatureSteps), Step(TRUE, ObservationSteps),
    Step(TRUE, IdentitySteps), Step(FALSE, ReliabilitySteps), Step(FALSE, SymbolSteps),
    Step(FALSE, PowerSteps)>>
Identities == 4
Symbols == 6
Version == Len(Registry)

MigrationAssumption ==
  /\ Knows \in [Opener -> 1 .. Version]
  /\ Sum \in [Opener -> [1 .. Version -> Nat]]
  /\ MaxStops \in Nat /\ MaxWrites \in Nat

VARIABLES
  made,         \* the objects, columns and markers of the database
  receipts,     \* migration_registry: checksums by step
  table,        \* the rows of the projected tables, "labels" and "symbols"
  shown,        \* their projections
  saved,        \* signals
  known,        \* candidate_identities
  sent,         \* outbox rows of initial cards
  claimed,      \* initial_alert_claims and alert_members
  copy,         \* the backups: "none", "part" or "whole"
  at,           \* where each opener is
  before,       \* history: the cards sent when an opener began
  stops, writes

base == <<made, receipts, table, shown, saved, known, sent, claimed, copy>>
migrationVars == <<base, at, before, stops, writes>>

\* A closed opener, one that is opening (its step, the statement, what it read), one that is open.
Closed == [is |-> "closed", step |-> 0, n |-> 0, applied |-> {}, read |-> {}]
Opening(step, applied) == [is |-> "opening", step |-> step, n |-> 1, applied |-> applied, read |-> {}]
Opened == [Closed EXCEPT !.is = "open"]

Tables == {"labels", "symbols"}
Triggers == [labels |-> "labelTriggers", symbols |-> "symbolTriggers"]
NoRow == "none"

Init ==
  /\ made = {} /\ receipts = <<>> /\ stops = 0 /\ writes = 0
  /\ table = [t \in Tables |-> NoRow] /\ shown = [t \in Tables |-> NoRow]
  /\ saved = {} /\ known = {} /\ sent = {} /\ claimed = {}
  /\ copy = [c \in {"copyOrigins", "copyClaims"} |-> "none"]
  /\ at = [o \in Opener |-> Closed] /\ before = [o \in Opener |-> {}]

\* The statements of the step that o is at.
Doing(o) == Registry[at[o].step].does
Is(o, s) == at[o].is = "opening" /\ at[o].n <= Len(Doing(o)) /\ Doing(o)[at[o].n] = s
Goes(o, n, read) == at' = [at EXCEPT ![o].n = n, ![o].read = read]
Then(o) == Goes(o, at[o].n + 1, at[o].read)

-----------------------------------------------------------------------------
(* apply.                                                                  *)

\* The next step that has to run, from step i on.
Due(o, i, applied) ==
  LET due == {s \in i .. Knows[o] : s \notin applied \/ Registry[s].again}
  IN  IF due = {} THEN Opened
      ELSE Opening(CHOOSE s \in due : \A t \in due : s <= t, applied)

\* Every receipt is checked before the first change; the set is read once.
Opens(o) ==
  /\ at[o] = Closed
  /\ \A s \in DOMAIN receipts \cap (1 .. Knows[o]) : receipts[s] = Sum[o][s]
  /\ at' = [at EXCEPT ![o] = Due(o, 1, DOMAIN receipts)]
  /\ before' = [before EXCEPT ![o] = sent]
  /\ UNCHANGED <<base, stops, writes>>

\* CREATE ... IF NOT EXISTS.
Plain ==
  {"core", "features", "labelTriggers", "observations", "claims", "opportunities",
   "symbolTriggers", "attempts"}
Makes(o) ==
  /\ \E s \in Plain : Is(o, s) /\ made' = made \cup {s}
  /\ Then(o)
  /\ UNCHANGED <<receipts, table, shown, saved, known, sent, claimed, copy, before, stops, writes>>

\* features.migrate reads the columns, then adds the one that it missed.
ReadsColumns(o) ==
  /\ Is(o, "columns") /\ Goes(o, at[o].n + 1, made \cap {"scope"})
  /\ UNCHANGED <<base, before, stops, writes>>

AddsScope(o) ==
  /\ Is(o, "scope")
  /\ at' = IF at[o].read = {} /\ "scope" \in made THEN [at EXCEPT ![o] = Closed]  \* duplicate column
           ELSE [at EXCEPT ![o].n = @ + 1]
  /\ made' = made \cup {"scope"}
  /\ UNCHANGED <<receipts, table, shown, saved, known, sent, claimed, copy, before, stops, writes>>

\* The rows that the triggers did not see.  INSERT OR IGNORE: what is there stays.
Filled(t) == [shown EXCEPT ![t] = IF @ = NoRow THEN table[t] ELSE @]

\* With its marker, in one transaction.
FillsLabels(o) ==
  /\ Is(o, "labelRows") /\ Then(o) /\ made' = made \cup {"labelRows"}
  /\ shown' = IF "labelRows" \in made THEN shown ELSE Filled("labels")
  /\ UNCHANGED <<receipts, table, saved, known, sent, claimed, copy, before, stops, writes>>

FillsSymbols(o) ==
  /\ Is(o, "symbolRows") /\ Then(o) /\ shown' = Filled("symbols")
  /\ UNCHANGED <<made, receipts, table, saved, known, sent, claimed, copy, before, stops, writes>>

\* The steps with a copy and a marker of their own do their first part once.
Copied == [copyOrigins |-> "observations", copyClaims |-> "hardened"]

Rest(o, c) == IF c = "copyClaims" THEN 6 ELSE 4
Copies(o, c) ==
  /\ Is(o, c)
  /\ IF Copied[c] \in made THEN Goes(o, Rest(o, c), {}) /\ UNCHANGED copy
     ELSE IF copy[c] = "none" /\ (c = "copyOrigins" \/ saved # {})
          THEN Goes(o, at[o].n + 1, {c}) /\ copy' = [copy EXCEPT ![c] = "part"]
          ELSE Goes(o, at[o].n + 2, {}) /\ UNCHANGED copy
  /\ UNCHANGED <<made, receipts, table, shown, saved, known, sent, claimed, before, stops, writes>>

CopyEnds(o) ==
  /\ Is(o, "copied") /\ Goes(o, at[o].n + 1, {})
  /\ copy' = [c \in DOMAIN copy |-> IF c \in at[o].read THEN "whole" ELSE copy[c]]
  /\ UNCHANGED <<made, receipts, table, shown, saved, known, sent, claimed, before, stops, writes>>

\* identity.migrate reads the setups, and registers them in a later transaction.
ReadsSetups(o) ==
  /\ Is(o, "setups") /\ Goes(o, at[o].n + 1, saved)
  /\ UNCHANGED <<base, before, stops, writes>>

Registers(o) ==
  /\ Is(o, "registered") /\ Goes(o, at[o].n + 1, {})
  /\ known' = known \cup at[o].read /\ made' = made \cup {"hardened"}
  /\ UNCHANGED <<receipts, table, shown, saved, sent, claimed, copy, before, stops, writes>>

\* seed_delivered: at every start, what an earlier version has sent meanwhile.
Seeds(o) ==
  /\ Is(o, "seeded") /\ Then(o) /\ claimed' = claimed \cup sent
  /\ UNCHANGED <<made, receipts, table, shown, saved, known, sent, copy, before, stops, writes>>

\* INSERT OR IGNORE: the first receipt stays.
Receipt(o) ==
  /\ at[o].is = "opening" /\ at[o].n > Len(Doing(o))
  /\ receipts' = [s \in DOMAIN receipts \cup {at[o].step} |->
                   IF s \in DOMAIN receipts THEN receipts[s] ELSE Sum[o][s]]
  /\ at' = [at EXCEPT ![o] = Due(o, at[o].step + 1, at[o].applied)]
  /\ UNCHANGED <<made, table, shown, saved, known, sent, claimed, copy, before, stops, writes>>

\* A crash, a lock that was held too long, a close.
Stops(o) ==
  /\ at[o] # Closed /\ stops < MaxStops /\ stops' = stops + 1
  /\ at' = [at EXCEPT ![o] = Closed]
  /\ UNCHANGED <<base, before, writes>>

-----------------------------------------------------------------------------
(* What an open store is used for.                                         *)
Uses(o) == at[o].is = "open" /\ writes < MaxWrites /\ writes' = writes + 1

\* Insert, replace, update or delete of a row; the triggers are of its transaction.
Write(o, t, x) ==
  /\ Uses(o) /\ table' = [table EXCEPT ![t] = x]
  /\ shown' = IF Triggers[t] \in made THEN [shown EXCEPT ![t] = x] ELSE shown
  /\ UNCHANGED <<made, receipts, saved, known, sent, claimed, copy, at, before, stops>>

\* A version that knows identities registers a setup as it saves it.
SaveSetup(o, s) ==
  /\ Uses(o) /\ s \notin saved /\ saved' = saved \cup {s}
  /\ known' = IF Knows[o] >= Identities THEN known \cup {s} ELSE known
  /\ UNCHANGED <<made, receipts, table, shown, sent, claimed, copy, at, before, stops>>

\* It claims a card before it sends it; an earlier version only sends.
SendCard(o, s) ==
  /\ Uses(o) /\ s \in saved \ sent /\ sent' = sent \cup {s}
  /\ claimed' = IF Knows[o] >= Identities THEN claimed \cup {s} ELSE claimed
  /\ UNCHANGED <<made, receipts, table, shown, saved, known, copy, at, before, stops>>

Next ==
  \/ \E o \in Opener :
       \/ Opens(o) \/ Makes(o) \/ ReadsColumns(o) \/ AddsScope(o) \/ FillsLabels(o) \/ FillsSymbols(o)
       \/ CopyEnds(o) \/ ReadsSetups(o) \/ Registers(o) \/ Seeds(o) \/ Receipt(o) \/ Stops(o)
       \/ \E c \in DOMAIN copy : Copies(o, c)
       \/ \E s \in Setup : SaveSetup(o, s) \/ SendCard(o, s)
  \/ \E o \in Opener, t \in Tables, x \in Text \cup {NoRow} : Write(o, t, x)

Spec == Init /\ [][Next]_migrationVars
-----------------------------------------------------------------------------
TypeOK ==
  /\ made \subseteq Plain \cup {"scope", "labelRows", "hardened"} /\ DOMAIN receipts \subseteq 1 .. Version
  /\ table \in [Tables -> Text \cup {NoRow}] /\ shown \in [Tables -> Text \cup {NoRow}]
  /\ saved \subseteq Setup /\ known \subseteq Setup /\ sent \subseteq Setup /\ claimed \subseteq Setup
  /\ copy \in [{"copyOrigins", "copyClaims"} -> {"none", "part", "whole"}]
  /\ \A o \in Opener : at[o].is \in {"closed", "opening", "open"}

\* Once its marker or receipt is written, a projection that decides what may be
\* deleted says what its table says, whoever wrote meanwhile (query_projections.py:
\* "One atomic backfill. Later source writes update the projection").
ProjectionsWhole ==
  /\ "labelRows" \in made => shown["labels"] = table["labels"]
  /\ Symbols \in DOMAIN receipts => shown["symbols"] = table["symbols"]

\* A version that claims its cards knows of each card that an earlier one had
\* sent when it opened the store (seed_delivered: "Catch older-runtime sends").
EarlierSendsKnown ==
  \A o \in Opener : (at[o].is = "open" /\ Knows[o] >= Identities) => before[o] \subseteq claimed

\* What a version relies on is there once it has opened the store, through stops
\* between any two statements and beside processes of another version.
OpenedWhole == ProjectionsWhole /\ EarlierSendsKnown
=============================================================================
