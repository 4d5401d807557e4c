------------------------------- MODULE Admission -------------------------------
(***************************************************************************)
(* The admission of optional work (operational.py): once a minute the      *)
(* monitor classifies the load of the desk into the priority from which    *)
(* work is deferred, keeps samples and forecasts of it, and puts it as     *)
(* operational_health into the diagnostic metadata.  Recovery and training *)
(* of this process and of the worker read it before they begin.            *)
(***************************************************************************)
EXTENDS MetadataWriter

CONSTANTS
  Health,       \* the key operational_health
  Minute, Hour, \* of the sampling and of the forecast, in units of the clock
  Fresh,        \* 90 s
  Loads,        \* the loads of the desk considered
  MaxNow

\* What classify of operational.py distinguishes: storage90 comes with storage85.
Causes == {"storage85", "storage90", "backlog", "memory", "lag", "busy", "feeds", "recorder"}
Level(c) ==
  CASE c = "storage85" -> 8
    [] c \in {"storage90", "backlog", "memory"} -> 7
    [] c \in {"lag", "busy", "feeds", "recorder"} -> 6
Floor(causes) ==
  CASE \E c \in causes : Level(c) = 6 -> 6
    [] \E c \in causes : Level(c) = 7 -> 7
    [] \E c \in causes : Level(c) = 8 -> 8
    [] OTHER -> 9

AdmissionAssumption ==
  /\ Health \in Global /\ Loads \subseteq SUBSET Causes
  /\ \A p \in Loads : "storage90" \in p => "storage85" \in p
  /\ Minute \in Nat \ {0} /\ Hour \in Nat /\ Fresh \in Nat /\ MaxNow \in Nat

VARIABLES
  now,
  sample,     \* the sample the monitor is about to put, taken at an instant
  last,       \* the instants of the last sample, and of the forecast and checkpoint that succeeded
  said,       \* the samples put so far, by the number of their offer
  admitted    \* history: of the last admission

admissionVars == <<now, sample, last, said, admitted>>
allVars == <<metadataVars, admissionVars>>

NoSample == [at |-> 0, floor |-> 0]
NoAdmission == [of |-> 0, newest |-> 0]

AdmissionInit ==
  /\ Init /\ now = 1 /\ sample = NoSample
  /\ last = [sample |-> 0, forecast |-> 0, checkpoint |-> 0]
  /\ said = {} /\ admitted = NoAdmission

Pass ==
  /\ now < MaxNow /\ now' = now + 1
  /\ UNCHANGED <<sample, last, said, admitted>> /\ UNCHANGED metadataVars

-----------------------------------------------------------------------------
(* monitor and persist.                                                    *)
Sampled(causes) ==
  /\ writer \in {"on", "closing", "done"}
  /\ sample = NoSample /\ now >= last.sample + Minute
  /\ sample' = [at |-> now, floor |-> Floor(causes)]
  /\ UNCHANGED <<now, last, said, admitted>> /\ UNCHANGED metadataVars

Grows == sample.at >= last.forecast + Hour
Checkpoints == sample.floor = 9 /\ sample.at > last.checkpoint

\* On a connection of its own persist keeps the sample and, each hour, the growth with
\* its forecast, unless the recorder is under pressure; what an error leaves out is due
\* with the next sample.  In the end the sample is put, as of its own instant.
Told(grows, fails) ==
  /\ sample # NoSample
  /\ last' = [sample |-> sample.at,
              forecast |-> IF grows /\ ~fails THEN sample.at ELSE last.forecast,
              checkpoint |-> IF Checkpoints /\ ~fails THEN sample.at ELSE last.checkpoint]
  /\ sample' = NoSample
  /\ Put(Health) /\ said' = said \cup {[n |-> Next1, at |-> sample.at, floor |-> sample.floor]}
  /\ UNCHANGED <<now, admitted>>

\* allowed: a store that has no sample yet defers nothing, a stale sample everything.
Allows(n, priority) ==
  \/ n = 0
  \/ \E s \in said : s.n = n /\ now <= s.at + Fresh /\ priority < s.floor

\* A job of the desk, or of the worker process, asks before it begins.
Begin(priority, n, newest) ==
  /\ Allows(n, priority)
  /\ admitted' = [of |-> n, newest |-> newest]
  /\ UNCHANGED <<now, sample, last, said>> /\ UNCHANGED metadataVars

Newest == IF Health \in failed THEN 0 ELSE latest[Health]
DeskBegins(priority) == Begin(priority, Read(Health), Newest)
WorkerBegins(priority) == Begin(priority, ReadElsewhere(Health), 0)

Ends ==
  /\ admitted # NoAdmission /\ admitted' = NoAdmission
  /\ UNCHANGED <<now, sample, last, said>> /\ UNCHANGED metadataVars

\* The rest of the metadata.  A process that dies loses its sample.
Others ==
  /\ \/ \E k \in Keys \ {Health} : Put(k)
     \/ \E k \in Keys : Write(k) \/ WriteFails(k)
     \/ Enable \/ Close \/ Stopped
  /\ UNCHANGED admissionVars

Dies ==
  /\ Crash /\ sample' = NoSample /\ last' = [sample |-> 0, forecast |-> 0, checkpoint |-> 0]
  /\ UNCHANGED <<now, said, admitted>>

AdmissionNext ==
  \/ Pass \/ Ends \/ Others \/ Dies
  \/ \E p \in Loads : Sampled(p)
  \/ \E grows, fails \in BOOLEAN : (grows => Grows) /\ Told(grows, fails)
  \/ \E p \in {6, 7, 8} : DeskBegins(p) \/ WorkerBegins(p)

AdmissionSpec == AdmissionInit /\ [][AdmissionNext]_allVars
-----------------------------------------------------------------------------
AdmissionTypeOK ==
  /\ TypeOK /\ now \in Nat
  /\ sample \in [at : Nat, floor : Nat]
  /\ last \in [sample : Nat, forecast : Nat, checkpoint : Nat]
  /\ said \subseteq [n : Nat, at : Nat, floor : Nat]
  /\ admitted \in [of : Nat, newest : Nat]

\* Work of the desk is never admitted on a sample that a newer one has replaced,
\* whatever burst of rows came between, unless the newer one's write failed
\* (allowed reads through the queue of the metadata).
AdmittedOnNewest == admitted.newest # 0 => admitted.of = admitted.newest
=============================================================================
