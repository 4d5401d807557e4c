----------------------------- MODULE ThesisHealth -----------------------------
(***************************************************************************)
(* The health of one published setup (thesis_health.py, setup_runtime.py,  *)
(* scanner_lifecycle.py): when it is withdrawn before its stop, and when   *)
(* its readers are told that it deteriorates.                              *)
(*                                                                         *)
(* health_loop checks the setup once per pass.  The first verdict goes on  *)
(* from the record thesis_health:<id>, the second from v22_current in the  *)
(* coverage of the setup's row, which tick of lifecycle.py writes as well: *)
(* each task saves the copy it loaded.                                     *)
(*                                                                         *)
(* Time is counted in passes of the loop (15 s).                           *)
(***************************************************************************)
EXTENDS Naturals, Sequences

CONSTANTS
  Seen,         \* the observations considered
  Hold,         \* for how long adversity has to last
  Gap,          \* two checks this far apart are continuous (90 s)
  Minute,       \* passes in a window
  Near,         \* two assessments this far apart are contiguous (120 s)
  MaxNow,       \* bound on the clock
  MaxDeaths     \* bound on restarts

\* What monitor_alerted reads off the tape, the book, candles and context.  secondary
\* counts derivatives, other venues and spreads; higherFrame: structure of 4h or days;
\* later: its window of prints ends after that of the record.
Observation ==
  [complete : BOOLEAN, flow : BOOLEAN, book : BOOLEAN, structure : BOOLEAN, higherFrame : BOOLEAN,
   auction : BOOLEAN, factor : BOOLEAN, later : BOOLEAN, secondary : 0 .. 3]

ThesisAssumption ==
  /\ Seen \subseteq Observation
  /\ Hold \in Nat /\ Gap \in Nat
  /\ Minute \in Nat \ {0} /\ Near \in Nat /\ MaxNow \in Nat /\ MaxDeaths \in Nat

VARIABLES
  clock,
  verdict,    \* kv thesis_health:<id>
  setup,      \* the row: its horizon, its state, and coverage.v22_current
  copies,     \* what the health task and the tick hold of the row
  at,         \* where the pass of the health task is
  began,      \* the clock it read before its awaits
  notices,    \* outbox: the deterioration notices
  checks,     \* history: each check, and whether it found what has to last
  assessed,   \* history: the windows assessed as bad
  restarts

healthVars == <<clock, verdict, setup, copies, at, began, notices, checks, assessed, restarts>>

None == 0     \* no instant: the clock starts at 1
NoVerdict == [checked |-> None, since |-> None]
NoCurrent == [state |-> "none", window |-> None, available |-> None, run |-> 0, episode |-> None]
NoCopy == [higher |-> FALSE, state |-> "none", current |-> NoCurrent]
Holders == {"health", "tick"}

Init ==
  /\ clock = 1 /\ verdict = NoVerdict
  /\ setup \in [higher : BOOLEAN, state : {"ALERTED"}, current : {NoCurrent}]
  /\ copies = [t \in Holders |-> NoCopy] /\ at = "idle" /\ began = None
  /\ notices = {} /\ checks = <<>> /\ assessed = {} /\ restarts = 0

Pass == clock < MaxNow /\ clock' = clock + 1
        /\ UNCHANGED <<verdict, setup, copies, at, began, notices, checks, assessed, restarts>>

-----------------------------------------------------------------------------
(* The row.                                                                *)
Holds(t) == copies[t] # NoCopy
Drop(t) == copies' = [copies EXCEPT ![t] = NoCopy]

Load(t) ==
  /\ setup.state = "ALERTED" /\ ~Holds(t)
  /\ copies' = [copies EXCEPT ![t] = setup]

\* Store.signal: a closed setup stays closed.
Saved(r) == setup' = IF setup.state = "ALERTED" THEN r ELSE setup

-----------------------------------------------------------------------------
(* evaluate of thesis_health.py.                                           *)

\* The adversity that has to last.
Lasting(o) == o.complete /\ IF setup.higher THEN o.auction /\ o.factor ELSE o.flow

\* A higher horizon is withdrawn at once when the structure of its frame fails.
HardFailure(o) == o.complete /\ setup.higher /\ o.structure /\ o.higherFrame

\* Mutated: the record is taken up however old it is.
SinceWhenever(o) ==
  IF ~Lasting(o) THEN None ELSE IF verdict.since # None THEN verdict.since ELSE began

\* Gaps reset persistence.
Since(o) ==
  IF ~Lasting(o) THEN None
  ELSE IF verdict.since # None /\ began <= verdict.checked + Gap THEN verdict.since ELSE began

\* Toxic: it has lasted, and for a lower horizon something else agrees with the flow
\* of another window.
Toxic(o) ==
  /\ Lasting(o) /\ Since(o) + Hold <= began
  /\ \/ setup.higher
     \/ o.later /\ o.structure /\ (o.book \/ o.secondary >= 1)
     \/ o.later /\ o.auction /\ (o.factor \/ o.secondary >= 2)

Judged(o) ==
  /\ checks' = Append(checks, [at |-> began, lasting |-> Lasting(o)])
  /\ verdict' = [checked |-> began, since |-> IF HardFailure(o) THEN None ELSE Since(o)]

\* A pass loads the active setups, and checks each in its turn.
HealthLoad ==
  /\ at = "idle" /\ verdict.checked < clock /\ Load("health") /\ at' = "loaded" /\ began' = clock
  /\ UNCHANGED <<clock, verdict, setup, notices, checks, assessed, restarts>>

\* No prices, no context or no recorder: nothing is judged.
Paused ==
  /\ at = "loaded" /\ Saved(copies["health"]) /\ Drop("health") /\ at' = "idle"
  /\ UNCHANGED <<clock, verdict, began, notices, checks, assessed, restarts>>

Judge(o) ==
  /\ at = "loaded" /\ Judged(o)
  /\ IF HardFailure(o) \/ Toxic(o)
       THEN /\ Saved([copies["health"] EXCEPT !.state = IF HardFailure(o) THEN "FAILED" ELSE "WITHDRAWN"])
            /\ Drop("health") /\ at' = "idle"
       ELSE /\ at' = IF o.complete THEN "judged" ELSE "partial"
            /\ UNCHANGED <<setup, copies>>
  /\ UNCHANGED <<clock, began, notices, assessed, restarts>>

\* An exception leaves a record that is checked and knows of nothing lasting.
Raised ==
  /\ at \in {"loaded", "judged", "partial", "telling"}
  /\ checks' = Append(checks, [at |-> clock, lasting |-> FALSE])
  /\ verdict' = [checked |-> clock, since |-> None]
  /\ Drop("health") /\ at' = "idle"
  /\ UNCHANGED <<clock, setup, began, notices, assessed, restarts>>

\* The deadline, whether or not the setup could be judged.
HealthExpires ==
  /\ at \in {"loaded", "judged", "partial"}
  /\ Saved([copies["health"] EXCEPT !.state = "CLOSED"]) /\ Drop("health") /\ at' = "idle"
  /\ UNCHANGED <<clock, verdict, began, notices, checks, assessed, restarts>>

-----------------------------------------------------------------------------
(* observe_health of setup_runtime.py.                                     *)
WindowOf(t) == (t \div Minute) + 1
Window == WindowOf(clock)

Currents ==
  [state : {"none", "STABLE", "WATCH", "DETERIORATING", "UNKNOWN"}, window : Nat, available : Nat,
   run : Nat, episode : Nat]

Assessed(c, bad) ==
  LET near == c.available < clock /\ clock <= c.available + Near
      goesOn == near /\ c.run > 0
      run == IF bad /\ near THEN c.run + 1 ELSE IF bad THEN 1 ELSE 0
  IN  [state |-> IF run >= 2 THEN "DETERIORATING" ELSE IF bad THEN "WATCH" ELSE "STABLE",
       window |-> Window, available |-> clock, run |-> run,
       episode |-> IF goesOn THEN c.episode ELSE clock]

Current == copies["health"].current
Keep(c) == copies' = [copies EXCEPT !["health"].current = c]

\* Nothing new in this window, or the setup has no v2.2 policy.
AssessNothing ==
  /\ at \in {"judged", "partial"} /\ at' = "saving"
  /\ UNCHANGED <<clock, verdict, setup, copies, began, notices, checks, assessed, restarts>>

\* An assessment without coverage is contiguous with the next one.
AssessUnknown ==
  /\ at = "judged" /\ Current.window # Window
  /\ Keep([Current EXCEPT !.state = "UNKNOWN", !.available = clock]) /\ at' = "saving"
  /\ UNCHANGED <<clock, verdict, setup, began, notices, checks, assessed, restarts>>

Assess(bad) ==
  /\ at = "judged" /\ Current.window # Window
  /\ Keep(Assessed(Current, bad))
  /\ assessed' = assessed \cup (IF bad THEN {Window} ELSE {})
  /\ at' = IF Assessed(Current, bad).state = "DETERIORATING" THEN "telling" ELSE "saving"
  /\ UNCHANGED <<clock, verdict, setup, began, notices, checks, restarts>>

\* send_deterioration: one notice of an episode, while the row is still published.
Tell ==
  /\ at = "telling" /\ at' = "saving"
  /\ notices' = IF setup.state = "ALERTED" /\ Current.episode \notin {n.episode : n \in notices}
                  THEN notices \cup {[episode |-> Current.episode, window |-> Current.window]}
                  ELSE notices
  /\ UNCHANGED <<clock, verdict, setup, copies, began, checks, assessed, restarts>>

HealthSave ==
  /\ at = "saving" /\ Saved(copies["health"]) /\ Drop("health") /\ at' = "idle"
  /\ UNCHANGED <<clock, verdict, began, notices, checks, assessed, restarts>>

-----------------------------------------------------------------------------
(* tick of lifecycle.py loads the setups, awaits, and saves them.          *)
TickLoad ==
  /\ Load("tick")
  /\ UNCHANGED <<clock, verdict, setup, at, began, notices, checks, assessed, restarts>>

\* Store.monitor: the payload, when the state is unchanged.
TickSave ==
  /\ Holds("tick") /\ setup' = IF setup.state = copies["tick"].state THEN copies["tick"] ELSE setup
  /\ Drop("tick")
  /\ UNCHANGED <<clock, verdict, at, began, notices, checks, assessed, restarts>>

\* Its stop, target or deadline.  A stop is a verdict too, committed before the row.
TickClose(stopped) ==
  /\ Holds("tick") /\ Saved([copies["tick"] EXCEPT !.state = "CLOSED"]) /\ Drop("tick")
  /\ verdict' = IF stopped THEN [checked |-> clock, since |-> None] ELSE verdict
  /\ UNCHANGED <<clock, at, began, notices, checks, assessed, restarts>>

Die == restarts < MaxDeaths /\ restarts' = restarts + 1
       /\ copies' = [t \in Holders |-> NoCopy] /\ at' = "idle"

Crash ==
  /\ Die
  /\ UNCHANGED <<clock, verdict, setup, began, notices, checks, assessed>>

\* The verdict is committed, what follows from it is not.
CrashJudged(o) ==
  /\ at = "loaded" /\ Judged(o) /\ Die
  /\ UNCHANGED <<clock, setup, began, notices, assessed>>

Next ==
  \/ Pass \/ HealthLoad \/ Paused \/ Raised \/ HealthExpires
  \/ \E o \in Seen : Judge(o) \/ CrashJudged(o)
  \/ AssessNothing \/ AssessUnknown \/ \E bad \in BOOLEAN : Assess(bad)
  \/ Tell \/ HealthSave \/ TickLoad \/ TickSave \/ Crash
  \/ \E stopped \in BOOLEAN : TickClose(stopped)

Spec == Init /\ [][Next]_healthVars
-----------------------------------------------------------------------------
TypeOK ==
  /\ clock \in Nat \ {0}
  /\ verdict \in [checked : Nat, since : Nat]
  /\ setup \in [higher : BOOLEAN, state : {"ALERTED", "FAILED", "WITHDRAWN", "CLOSED"}, current : Currents]
  /\ copies \in [Holders -> [higher : BOOLEAN, state : {"ALERTED", "none"}, current : Currents]]
  /\ began \in Nat /\ at \in {"idle", "loaded", "judged", "partial", "telling", "saving"}
  /\ notices \subseteq [episode : Nat, window : Nat]
  /\ checks \in Seq([at : Nat, lasting : BOOLEAN])
  /\ assessed \subseteq Nat
  /\ restarts \in Nat

\* A setup is withdrawn only after every check of the last Hold found the
\* adversity, with no two of them further apart than Gap, however often the
\* process died or a check failed in between (evaluate).
Persisted ==
  \E k \in DOMAIN checks :
    /\ checks[k].at + Hold <= checks[Len(checks)].at
    /\ \A j \in k .. Len(checks) : checks[j].lasting
    /\ \A j \in k + 1 .. Len(checks) : checks[j].at <= checks[j - 1].at + Gap
WithdrawalEarned == setup.state = "WITHDRAWN" => Persisted

\* A notice tells of two windows at least that were assessed as bad, of which the
\* first began its episode, whichever copy of the row was saved over which
\* (observe_health).
NoticeEarned ==
  \A n \in notices :
    /\ WindowOf(n.episode) < n.window
    /\ {WindowOf(n.episode), n.window} \subseteq assessed

\* What the health task says of a setup has lasted: it withdraws no setup and
\* announces no deterioration on a passing observation.
HealthEarned == WithdrawalEarned /\ NoticeEarned
=============================================================================
