------------------------------ MODULE Recording ------------------------------
(***************************************************************************)
(* Two systems beside each other, of which each behaviour runs the one     *)
(* that part names: the recorder and its worker (Recorder), and a stream   *)
(* of another venue whose rows it takes (NativeBooks).  The other stays in *)
(* its first state.                                                        *)
(***************************************************************************)
EXTENDS Recorder

CONSTANTS Venues, MaxUpdates, MaxTrades, Lag, MaxHurts   \* NativeBooks

VARIABLES
  part,
  venue, moved, traded, depth, market, seq, book, tape, task, cancel, sel, up, hurts

native == <<venue, moved, traded, depth, market, seq, book, tape, task, cancel, sel, up, hurts>>
partsVars == <<part, vars, native>>

Native == INSTANCE NativeBooks WITH
  n <- moved, t <- traded, healthy <- up, faults <- hurts, MaxFaults <- MaxHurts

ASSUME RecordingAssumption == Native!NativeAssumption

\* A part that does not run is at rest: nothing of it waits for fairness.
RecorderRests ==
  /\ offers = 0 /\ queue = {} /\ gaps = {} /\ batch = {} /\ batchGaps = {}
  /\ batchId = 0 /\ lastId = 0 /\ joined = {} /\ healthy = TRUE /\ running = FALSE
  /\ at = "drained" /\ worker = "idle" /\ segments = {} /\ faults = 0
NativeRests ==
  /\ venue = "okx" /\ moved = Lag /\ traded = 0 /\ depth = Native!Off /\ market = Native!Off
  /\ seq = Native!Fresh /\ book = Native!NoBook /\ tape = Native!NewTape /\ task = "none"
  /\ cancel = FALSE /\ sel = "off" /\ up = TRUE /\ hurts = 0

PartsInit ==
  \/ part = "recorder" /\ Init /\ NativeRests
  \/ part = "native" /\ Native!Init /\ RecorderRests
PartsNext ==
  /\ UNCHANGED part
  /\ \/ part = "recorder" /\ Next /\ UNCHANGED native
     \/ part = "native" /\ Native!Next /\ UNCHANGED vars
PartsSpec == PartsInit /\ [][PartsNext]_partsVars
PartsFairSpec == PartsSpec /\ Fairness /\ Native!Fairness

\* A book that may qualify holds every update up to its last, and a tape every
\* trade since its start.
InSequence == Native!InSequence
\* A symbol taken out of the selection is released.
Released == Native!Released
=============================================================================
