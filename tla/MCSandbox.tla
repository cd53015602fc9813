----------------------------- MODULE MCSandbox -----------------------------
(***************************************************************************)
(* The buses, the sliced half of the OMS with the strategies that feed it, *)
(* the simulated venue and the backtest, each in scenes of its own: part   *)
(* is the one that moves, the others stay as they began.                   *)
(***************************************************************************)
EXTENDS EventBus, SlicedExecution, SimVenue, Replay, KafkaBus

vars == <<part, busVars, registryVars, slicedVars, simVars, replayVars, kafkaVars>>

StrategySeq == <<"s", "t">>
LegSeq == <<"x", "y">>
OwnerOf == [l \in {"x", "y"} |-> IF l = "x" THEN "s" ELSE "t"]
IntentOf == [l \in {"x", "y"} |-> IF l = "x" THEN "normal" ELSE "urgent"]
(* Leg x is sliced evenly, leg y by a profile with an empty bucket.  A lot is two
   units: leg x asks for two lots or three, and slices of one lot or one and a half. *)
ProfileOf == [l \in {"x", "y"} |-> IF l = "x" THEN <<1, 1>> ELSE <<2, 0, 1>>]

(* Signals that come again, go and change; children that are answered; publishes
   that are lost. *)
Resignalled == [signals |-> 3, answers |-> 0, slices |-> 2, losses |-> 0, time |-> 2]
Answered == [signals |-> 1, answers |-> 2, slices |-> 2, losses |-> 0, time |-> 1]
Lossy == [signals |-> 1, answers |-> 1, slices |-> 2, losses |-> 1, time |-> 1]
Requoted == [signals |-> 2, answers |-> 1, slices |-> 2, losses |-> 0, time |-> 0]

BoundSet == {Resignalled, Answered, Lossy, Requoted}

(* A fill on a resting order after its ack, or before. *)
LatencySet == {[ack |-> 1, cancel |-> 1, fill |-> 2], [ack |-> 2, cancel |-> 1, fill |-> 0]}

Init ==
  /\ part \in {"bus", "sliced", "sim", "replay", "kafka"}
  /\ BusInit /\ RegistryInit /\ SlicedInit /\ SimInit /\ ReplayInit /\ KafkaInit
  /\ ~Moves("sliced") => bound = Resignalled
  /\ ~Moves("replay") => latency = CHOOSE l \in LatencySet : TRUE

Next ==
  \/ /\ Moves("bus") /\ BusNext
     /\ UNCHANGED <<part, registryVars, slicedVars, simVars, replayVars, kafkaVars>>
  \/ /\ Moves("sliced") /\ SlicedNext
     /\ UNCHANGED <<part, busVars, simVars, replayVars, kafkaVars>>
  \/ /\ Moves("sim") /\ SimNext
     /\ UNCHANGED <<part, busVars, registryVars, slicedVars, replayVars, kafkaVars>>
  \/ /\ Moves("replay") /\ ReplayNext
     /\ UNCHANGED <<part, busVars, registryVars, slicedVars, simVars, kafkaVars>>
  \/ /\ Moves("kafka") /\ KafkaNext
     /\ UNCHANGED <<part, busVars, registryVars, slicedVars, simVars, replayVars>>

Spec == Init /\ [][Next]_vars /\ BusFair
=============================================================================
