----------------------------- MODULE PathEngines -----------------------------
(***************************************************************************)
(* What a plan would have done, read off one-minute candles: the exit      *)
(* research of setups and of their delayed entries (setup_research.py),    *)
(* the swing paths (path_research.py), the observations after a terminal   *)
(* state (observations.py) and the historical proxy (ml/bootstrap.py).     *)
(*                                                                         *)
(* The model holds the market itself: the price at every half minute, of   *)
(* which a candle shows the first, last, lowest and highest of a minute    *)
(* and never their order.  The plan is long: its stop is at level 0, its   *)
(* entry at 1, the price of a partial exit (0.75 R) at 2, its target at 3. *)
(* Instants are numbers of half minutes, since the moments of decisions,   *)
(* deliveries, ends and deadlines need not be on a minute.                 *)
(***************************************************************************)
EXTENDS Naturals, FiniteSets, Sequences, SequencesExt

CONSTANTS
  Kinds,      \* the engines under study
  Bars,       \* bound: minutes of the market
  Deadlines,  \* deadlines of setups and swings, in half minutes
  Window,     \* the end of the entry window
  Decay,      \* setup_research: decay_after_ms
  Delay,      \* forward_power: the delay of a delayed entry
  Limit,      \* candles of one request
  MaxHoles,   \* bound: candles the exchange never serves
  None        \* nothing yet

Engine == {"setup", "delayed", "swing", "late", "proxy", "entered"}
PathAssumption ==
  /\ Kinds \subseteq Engine /\ Deadlines \subseteq Nat
  /\ Bars \in Nat \ {0} /\ Limit \in Nat \ {0} /\ MaxHoles \in Nat
  /\ Window \in Nat /\ Decay \in Nat /\ Delay \in Nat

VARIABLES
  price,  \* price[h + 1] is the level after h half minutes
  holes,  \* minutes whose candle is never served
  job,    \* the row of the job: its plan, cursor and progress
  label   \* None, or the finished row

vars == <<price, holes, job, label>>

Level == 0..3
Policy == {"tp1", "half", "partial", "decay"}
Target(p) == IF p = "half" THEN 2 ELSE 3

Fresh == [kind : Kinds, dec : 0..1, dl : Nat, cursor : {0}, cov : {TRUE}, entered : {0},
          from : {1}, amb : {{}}, part : {FALSE}, peaked : {FALSE}, hit : {{}}, sure : {{}},
          out : [Policy -> {None}], pre : {None}]

TypeOK ==
  /\ price \in Seq(Level) /\ holes \subseteq 1..Bars
  /\ job.kind \in Kinds /\ job.cursor \in 0..Bars /\ job.entered \in 0..Bars
  /\ job.cov \in BOOLEAN /\ job.part \in BOOLEAN /\ job.peaked \in BOOLEAN
  /\ job.amb \subseteq Policy /\ job.sure \subseteq Policy
  /\ job.hit \subseteq {"stop", "target"}

(***************************************************************************)
(* Candles.                                                                *)
(***************************************************************************)
At(h) == price[h + 1]
Now == (Len(price) - 1) \div 2
Start(i) == 2 * (i - 1)
Open(i) == At(Start(i))
InBar(i) == {At(Start(i)), At(Start(i) + 1), At(Start(i) + 2)}
Touches(i, l) == \E a, b \in InBar(i) : a <= l /\ l <= b
Stopped(i) == 0 \in InBar(i)
Reaches(i, l) == \E a \in InBar(i) : a >= l
\* The candle of minute i is new to the job; it may leave a gap behind it.
Due(j, i) == i > j.cursor /\ 2 * i <= j.dl
Seen(j, i) == [j EXCEPT !.cursor = i, !.cov = @ /\ i = j.cursor + 1]

(***************************************************************************)
(* setup_research.advance.                                                 *)
(***************************************************************************)
EntryTrusted(i) == {p \in Policy : Stopped(i)}
\* The entry candle: its order is unknown, nothing in it counts.
EntryAmbiguous(i) ==
  {p \in Policy : \/ Stopped(i) \/ Touches(i, Target(p))
                  \/ p = "partial" /\ Touches(i, 2)
                  \/ p = "decay" /\ Reaches(i, 2)}
Enter(j, i) == [j EXCEPT !.entered = i, !.amb = EntryAmbiguous(i)]

\* finish_policy: every policy still open, in one candle after the entry.
Exits(j, i, p, peaked) ==
  IF j.out[p] # None THEN j.out[p]
  ELSE IF Stopped(i) THEN "STOP"
  ELSE IF Reaches(i, Target(p)) THEN "TARGET"
  ELSE IF p = "decay" /\ 2 * i >= Decay /\ ~peaked THEN "EDGE_DECAY"
  ELSE IF 2 * i >= j.dl THEN "TIME_EXIT" ELSE None

Follow(j, i) ==
  LET partial == Reaches(i, j.from + 1)
      peaked == j.peaked \/ (partial /\ ~Stopped(i))
      out == [p \in Policy |-> Exits(j, i, p, peaked)]
      amb == j.amb \cup {p \in Policy : /\ j.out[p] = None /\ Stopped(i)
                                        /\ \/ Reaches(i, Target(p))
                                           \/ p = "partial" /\ ~j.part /\ partial}
      closes == {p \in Policy : j.out[p] = None /\ out[p] # None}
  IN [j EXCEPT !.out = out, !.amb = amb, !.peaked = peaked,
               !.part = @ \/ (j.out["partial"] = None /\ partial /\ ~Stopped(i)),
               !.sure = @ \cup {p \in closes \ amb : j.cov}]

\* delayed_entry: at the open of the first candle after the delay, unless the
\* stop or the target was crossed before it.
DelayedEntry(j, i) ==
  LET missed == IF Stopped(i) THEN "MISSED_INVALIDATED" ELSE "MISSED_TARGET" IN
  IF Start(i) >= Window THEN [j EXCEPT !.pre = "MISSED_EXPIRED"]
  ELSE IF Start(i) < j.dec + Delay
    THEN IF ~Stopped(i) /\ ~Reaches(i, 3) THEN j
         ELSE [j EXCEPT !.pre = IF Start(i) < j.dec THEN "UNKNOWN" ELSE missed]
  ELSE IF Open(i) = 0 THEN [j EXCEPT !.pre = "MISSED_INVALIDATED"]
  ELSE IF Open(i) = 3 THEN [j EXCEPT !.pre = "MISSED_TARGET"]
  ELSE Follow([j EXCEPT !.entered = i, !.from = Open(i)], i)

SetupDone(j) ==
  \/ j.entered = 0 /\ 2 * j.cursor >= Window
  \/ \A p \in Policy : j.out[p] # None
  \/ 2 * j.cursor >= j.dl \/ j.pre # None

SetupBar(j, i) ==
  IF j.pre # None \/ (\A p \in Policy : j.out[p] # None) \/ ~Due(j, i) THEN j
  ELSE LET k == Seen(j, i) IN
       IF k.kind = "delayed" /\ k.entered = 0 THEN DelayedEntry(k, i)
       ELSE IF k.entered # 0 THEN Follow(k, i)
       ELSE IF Start(i) < k.dec \/ Start(i) >= Window \/ ~Touches(i, 1) THEN k
       ELSE Enter(k, i)

(***************************************************************************)
(* path_research.advance.  The swing's own deadline ends the policy; the   *)
(* job goes on to the end of the path.                                     *)
(***************************************************************************)
Primary == 2 * Bars - 1
SwingMarks(i) == Stopped(i) \/ Reaches(i, 3)
SwingBar(j, i) ==
  IF ~Due(j, i) THEN j
  ELSE LET k == Seen(j, i)
           enters == k.entered = 0 /\ Start(i) <= Window /\ Touches(i, 1)
           doubt == (enters /\ SwingMarks(i)) \/ (Stopped(i) /\ Reaches(i, 3))
       IN IF Start(i) < k.dec
            THEN [k EXCEPT !.amb = IF Touches(i, 1) \/ SwingMarks(i) THEN {"tp1"} ELSE @]
          ELSE IF k.entered = 0 /\ ~enters THEN k
          ELSE [k EXCEPT
                 !.entered = IF enters THEN i ELSE @,
                 !.amb = IF doubt \/ (enters /\ 2 * i >= Primary) THEN {"tp1"} ELSE @,
                 !.out["tp1"] = IF @ # None THEN @ ELSE IF Stopped(i) THEN "STOP"
                                ELSE IF Reaches(i, 3) THEN "TARGET"
                                ELSE IF 2 * i >= Primary THEN "TIME_EXIT" ELSE None]
SwingDone(j) == 2 * j.cursor >= j.dl
SwingSure(j) == j.cov /\ j.amb = {} /\ j.entered # 0

(***************************************************************************)
(* observations.advance: after the end of a setup, at its dec.             *)
(***************************************************************************)
LateBar(j, i) ==
  IF ~Due(j, i) THEN j
  ELSE IF Start(i) < j.dec
    THEN [j EXCEPT !.cursor = i, !.cov = @ /\ ~SwingMarks(i)]
  ELSE LET k == Seen(j, i) IN
       [k EXCEPT !.hit = @ \cup {x \in {"stop", "target"} :
                            IF x = "stop" THEN Stopped(i) ELSE Reaches(i, 3)},
                 !.out["tp1"] = IF @ # None THEN @ ELSE IF Stopped(i) THEN "STOP"
                                ELSE IF ~Reaches(i, 3) THEN None
                                ELSE IF k.cov THEN "TARGET" ELSE "UNCLEAR"]
LateDone(j) == 2 * Now >= j.dl /\ 2 * j.cursor + 2 >= j.dl

(***************************************************************************)
(* ml/bootstrap.evaluate: from the first candle on at every try.  "pre"    *)
(* holds an outcome without a return, "part" a touch in the minute of the  *)
(* decision, in which nothing can be ordered.                              *)
(***************************************************************************)
ProxyBar(j, i) ==
  LET sl == Stopped(i)  tp == Reaches(i, 3)  touch == Touches(i, 1)
      k == [j EXCEPT !.cursor = i]
      over(reason) == [k EXCEPT !.pre = reason]
      exits(m) == IF sl /\ tp THEN over("AMBIGUOUS")
                  ELSE IF ~sl /\ ~tp THEN m
                  ELSE [m EXCEPT !.out["tp1"] = IF sl THEN "STOP" ELSE "TARGET"]
  IN IF j.pre # None \/ j.out["tp1"] # None \/ ~Due(j, i) THEN j
     ELSE IF i # j.cursor + 1 THEN over("INCOMPLETE")
     ELSE IF Start(i) < k.dec
       THEN IF (sl \/ tp) /\ (k.kind = "entered" \/ touch) THEN over("AMBIGUOUS")
            ELSE [k EXCEPT !.part = k.kind = "proxy" /\ touch]
     ELSE IF k.kind = "entered" \/ k.entered # 0 THEN exits(k)
     ELSE IF Start(i) >= Window
       THEN over(IF k.part THEN "AMBIGUOUS" ELSE "NO_ENTRY")
     ELSE IF ~touch THEN IF k.part /\ (sl \/ tp) THEN over("AMBIGUOUS") ELSE k
     ELSE IF Open(i) # 1 /\ (2 * i > Window \/ sl \/ tp) THEN over("AMBIGUOUS")
     ELSE exits([k EXCEPT !.entered = i])
\* The horizon is over and the candles reach it.
ProxyAtEnd(j) ==
  IF j.pre # None \/ j.out["tp1"] # None \/ 2 * Now < j.dl THEN j
  ELSE IF j.cursor < j.dl \div 2 THEN [j EXCEPT !.pre = "INCOMPLETE"]
  ELSE IF j.kind = "proxy" /\ j.entered = 0
    THEN [j EXCEPT !.pre = IF j.part THEN "AMBIGUOUS" ELSE "NO_ENTRY"]
  ELSE [j EXCEPT !.out["tp1"] = "TIME_EXIT"]

(***************************************************************************)
(* Actions.                                                                *)
(***************************************************************************)
New(kind, dec, dl) ==
  [kind |-> kind, dec |-> dec, dl |-> dl, cursor |-> 0, cov |-> TRUE, entered |-> 0,
   from |-> 1, amb |-> {}, part |-> FALSE, peaked |-> FALSE, hit |-> {}, sure |-> {},
   out |-> [p \in Policy |-> None], pre |-> None]
Register(kind) ==
  {New(kind, d, e) : d \in 0..1,
     e \in IF kind \in {"setup", "delayed", "swing"} THEN Deadlines ELSE {2 * Bars - 1}}

Init ==
  /\ \E k \in Kinds : job \in Register(k)
  /\ \E l \in 1..2 : price = <<l>>
  /\ holes = {} /\ label = None

Minute(a, b, lost) ==
  /\ Now < Bars /\ label = None
  /\ price' = price \o <<a, b>>
  /\ holes' = IF lost THEN holes \cup {Now + 1} ELSE holes
  /\ UNCHANGED <<job, label>>

\* One request from the oldest cursor of the market's jobs, s, and one
\* transaction per job: the row and its cursor, or the label.
Candles(s) ==
  SelectSeq([x \in 1..Limit |-> s + x - 1], LAMBDA i : i <= Now /\ i \notin holes)
Keep(j, done) ==
  /\ job' = j
  /\ label' = IF done THEN j ELSE None
  /\ UNCHANGED <<price, holes>>

AdvanceSetup(s) ==
  /\ job.kind \in {"setup", "delayed"}
  /\ LET j == FoldLeft(SetupBar, job, Candles(s)) IN Keep(j, SetupDone(j))
AdvanceSwing(s) ==
  /\ job.kind = "swing"
  /\ LET j == FoldLeft(SwingBar, job, Candles(s))
     IN Keep([j EXCEPT !.sure = IF SwingDone(j) /\ SwingSure(j) THEN {"tp1"} ELSE {}],
             SwingDone(j))
AdvanceLate(s) ==
  /\ job.kind = "late"
  /\ LET j == FoldLeft(LateBar, job, Candles(s)) IN Keep(j, LateDone(j))
Evaluate ==
  /\ job.kind \in {"proxy", "entered"}
  /\ LET all == SelectSeq([i \in 1..Now |-> i], LAMBDA i : i \notin holes)
         j == ProxyAtEnd(FoldLeft(ProxyBar, New(job.kind, job.dec, job.dl), all))
     IN Keep([j EXCEPT !.sure = IF j.out["tp1"] # None THEN {"tp1"} ELSE {}],
             j.pre # None \/ j.out["tp1"] # None)

Round(s) ==
  /\ label = None /\ s \in 1..(job.cursor + 1)
  /\ AdvanceSetup(s) \/ AdvanceSwing(s) \/ AdvanceLate(s) \/ Evaluate

Next ==
  \/ \E a, b \in Level, lost \in BOOLEAN :
       (lost => Cardinality(holes) < MaxHoles) /\ Minute(a, b, lost)
  \/ \E s \in 1..Bars : Round(s)

Spec == Init /\ [][Next]_vars

(***************************************************************************)
(* What the market did.                                                    *)
(***************************************************************************)
Sweeps(h, l) ==
  h > 0 /\ (l \in At(h - 1)..At(h) \/ l \in At(h)..At(h - 1))
MinuteOf(h) == (h + 1) \div 2
Halves == 0..(2 * Now)
\* Half minutes at which the plan of a job may be entered.
Entries(j) ==
  CASE j.kind = "setup" ->
         {h \in Halves : Sweeps(h, 1) /\ Start(MinuteOf(h)) \in j.dec..(Window - 1)}
    [] j.kind = "delayed" -> {h \in Halves : h % 2 = 0 /\ h >= j.dec + Delay}
    [] j.kind = "swing" ->
         {h \in Halves : h > j.dec /\ Sweeps(h, 1) /\ Start(MinuteOf(h)) <= Window}
    [] j.kind = "proxy" ->
         {h \in Halves : /\ h \in j.dec..Window
                         /\ (At(h) = 1 \/ (h > j.dec /\ Sweeps(h, 1)))}
    [] OTHER -> {j.dec}
First(S) == CHOOSE h \in S : \A g \in S : h <= g
Exit(e, p) == {h \in Halves : h >= e /\ (At(h) = 0 \/ At(h) >= Target(p))}

\* The outcome of policy p entered at e is o: what came first is what it says.
Happened(j, p, o, e) ==
  LET x == First(Exit(e, p))  upto == 2 * j.cursor IN
  CASE o = "STOP" -> Exit(e, p) # {} /\ x <= upto /\ At(x) = 0
    [] o = "TARGET" -> Exit(e, p) # {} /\ x <= upto /\ At(x) # 0
    [] o = "TIME_EXIT" -> \A h \in Exit(e, p) : h > (j.dl \div 2) * 2
    [] o = "EDGE_DECAY" -> \E m \in Decay..upto : \A h \in e..m : At(h) \in 1..j.from
    [] OTHER -> TRUE

(***************************************************************************)
(* Properties.                                                             *)
(***************************************************************************)
\* A result that claims to be complete is what the market did, in whatever
\* batches the candles came: "uncertainty never becomes a manufactured loss"
\* (ml/bootstrap.py), a partial exit is counted when it was first, and a
\* missed entry was missed.
HonestLabel ==
  label # None =>
    /\ \A p \in label.sure :
         /\ Entries(label) # {}
         /\ Happened(label, p, label.out[p], First(Entries(label)))
         /\ (label.kind \in {"setup", "delayed"} /\ p = "partial") =>
              LET e == First(Entries(label))  x == Exit(e, p) IN
              label.part <=> \E h \in e..(2 * label.cursor) :
                               At(h) > label.from /\ \A g \in x : h <= g
    /\ label.pre = "NO_ENTRY" => Entries(label) = {}
    /\ (/\ label.kind = "delayed" /\ label.cov
        /\ label.pre \in {"MISSED_INVALIDATED", "MISSED_TARGET"}) =>
         \E h \in label.dec..First(Entries(label) \cup {2 * Now}) :
            At(h) = IF label.pre = "MISSED_TARGET" THEN 3 ELSE 0
    /\ (label.kind = "late" /\ label.cov) =>
         LET after == label.dec..(2 * (label.dl \div 2)) IN
         /\ ("stop" \in label.hit) <=> \E h \in after : h > label.dec /\ At(h) = 0
         /\ ("target" \in label.hit) <=> \E h \in after : h > label.dec /\ At(h) = 3
=============================================================================
