------------------------------- MODULE MCParts --------------------------------
(***************************************************************************)
(* The parts beside the trading desk, and two orders of the desk, with     *)
(* every fault but the raising fill query.  They share no row with each    *)
(* other while they work: an initial state picks one of them and the       *)
(* others stand still, so that their state spaces add up instead of        *)
(* multiplying.                                                            *)
(***************************************************************************)
EXTENDS Deployment, Universe, BrokerTokens, BacktestEngine, BacktestRunner,
        Signals, Learning, Calibration, Selection, Features, TLC

CONSTANTS Calls, MaxQty, OrderPrices, Costs, NoRequest, NoFill, Faults

VARIABLES
  part,                                        \* the one that runs
  request, broker, db, pc, answer, fill, tx    \* of the orders

Order == INSTANCE OrderExecution WITH Prices <- OrderPrices, Stocks <- {"stock"}

orderVars == <<request, broker, db, pc, answer, fill, tx>>
serviceVars == <<deploymentVars, universeVars, tokenVars>>
replays == <<engineVars, runnerVars>>
studies == <<signalVars, learningVars, calibrationVars, selectionVars, featureVars>>
partVars == <<part, orderVars, serviceVars, replays, studies>>

Parts == {"order", "deployment", "universe", "tokens", "engine", "runner",
          "signals", "learning", "calibration", "selection", "features"}

\* A part that stands still has the one initial state that Still picks.
Init ==
  /\ part \in Parts
  /\ part # "engine" => close = CHOOSE p \in Prices : TRUE
  /\ part # "runner" => fills = <<>>
  /\ part # "signals" => slow = CHOOSE p \in SlowPeriods : TRUE
  /\ part # "learning" => candles = <<>>
  /\ part # "calibration" => outcomes = <<>>
  /\ part # "selection" => minutes = CHOOSE m \in Minutes : TRUE
  /\ Order!Init /\ DeploymentInit /\ UniverseInit /\ TokenInit /\ EngineInit
  /\ RunnerInit /\ SignalInit /\ LearningInit /\ CalibrationInit /\ SelectionInit
  /\ FeatureInit

ServiceNext ==
  \/ part = "deployment" /\ DeploymentNext /\ UNCHANGED <<universeVars, tokenVars>>
  \/ part = "universe" /\ UniverseNext /\ UNCHANGED <<deploymentVars, tokenVars>>
  \/ part = "tokens" /\ TokenNext /\ UNCHANGED <<deploymentVars, universeVars>>

ReplayNext ==
  \/ part = "engine" /\ EngineNext /\ UNCHANGED runnerVars
  \/ part = "runner" /\ RunnerNext /\ UNCHANGED engineVars

StudyNext ==
  \/ /\ part = "signals" /\ SignalNext
     /\ UNCHANGED <<learningVars, calibrationVars, selectionVars, featureVars>>
  \/ /\ part = "learning" /\ LearningNext
     /\ UNCHANGED <<signalVars, calibrationVars, selectionVars, featureVars>>
  \/ /\ part = "calibration" /\ CalibrationNext
     /\ UNCHANGED <<signalVars, learningVars, selectionVars, featureVars>>
  \/ /\ part = "selection" /\ SelectionNext
     /\ UNCHANGED <<signalVars, learningVars, calibrationVars, featureVars>>
  \/ /\ part = "features" /\ FeatureNext
     /\ UNCHANGED <<signalVars, learningVars, calibrationVars, selectionVars>>

Next ==
  \/ /\ part = "order" /\ Order!Next
     /\ UNCHANGED <<part, serviceVars, replays, studies>>
  \/ ServiceNext /\ UNCHANGED <<part, orderVars, replays, studies>>
  \/ ReplayNext /\ UNCHANGED <<part, orderVars, serviceVars, studies>>
  \/ StudyNext /\ UNCHANGED <<part, orderVars, serviceVars, replays>>

Spec == Init /\ [][Next]_partVars

\* No share is booked that the broker has not filled, as long as the fill query
\* does not raise (execute_order, _resolve_fill).
BookedFillsHappened == Order!BookedFillsHappened

\* execute_order implements the order book that the desk is composed with, under
\* the same condition.
ImplementsOrderBook == Order!ImplementsOrderBook

\* A minute with one share traded, and two that tell price and volume apart
FewClosings ==
  {[close |-> 97, volume |-> 1], [close |-> 100, volume |-> 2],
   [close |-> 97, volume |-> 2]}

\* The same processes and stocks play in all parts.
Alike == Permutations(Trainings) \cup Permutations(Symbols)
           \cup Permutations(Versions)
=============================================================================
