---------------------------- MODULE MCBenchmarks ----------------------------
(* Model-checking instance of what runs around a learner: the BARN training *)
(* run, the driver of the replay arms, the AMaze gate campaign, and the     *)
(* level buffer with its telemetry.  They share no state; a behaviour is    *)
(* one of them, chosen at the start.                                        *)
EXTENDS TrainingRun, ReplayDriver, GateCampaign, LevelBuffer, TLC

VARIABLE bench

(* One seed of each comparator and two of the replay arm. *)
B1B2     == <<"b1", "b2">>
TwoSeeds == <<"e1", "e2">>

(* A whole group with one success of two, and one that was cut short. *)
WholeOrCut    == {<<1, 2>>, <<1, 1>>}
InverseRanks  == <<36, 18, 12>>
Hashes        == Permutations(Mazes)

BenchmarksInit ==
  /\ bench \in {"run", "driver", "gate", "buffer"}
  /\ RunInit /\ DriverInit /\ GateInit /\ LevelInit
  /\ bench # "run" => budgeted
  /\ bench # "gate" => marking /\ interval = 1

BenchmarksNext ==
  \/ bench = "run"    /\ RunNext    /\ UNCHANGED <<bench, driverVars, gateVars, levelVars>>
  \/ bench = "driver" /\ DriverNext /\ UNCHANGED <<bench, runVars, gateVars, levelVars>>
  \/ bench = "gate"   /\ GateNext   /\ UNCHANGED <<bench, runVars, driverVars, levelVars>>
  \/ bench = "buffer" /\ LevelNext  /\ UNCHANGED <<bench, runVars, driverVars, gateVars>>

BenchmarksSpec == BenchmarksInit /\ [][BenchmarksNext]_<<bench, runVars, driverVars, gateVars, levelVars>>
=============================================================================
