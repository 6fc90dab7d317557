--------------------------- MODULE SocPerfBattery ---------------------------
(***************************************************************************)
(* The frequency limit of the SocPerf plugin that follows the level of the *)
(* battery.                                                                *)
(***************************************************************************)
EXTENDS Integers, FiniteSets, FiniteSetsExt

CONSTANTS
  Levels,     \* battery levels that are reported
  Thresholds  \* capacities of socperf_battery_capacity_limit_freq

ASSUME BatteryAssumption ==
  Levels \subseteq Nat /\ Thresholds \subseteq Nat /\ IsFiniteSet(Thresholds)

VARIABLES
  lastBatteryLimitCap,
  limited,             \* threshold whose limit the service has (external)
  battery              \* history: the last report

batteryVars == <<lastBatteryLimitCap, limited, battery>>

NoLimit == -1
maxBatteryLimitCapacity == Max(Thresholds \cup {NoLimit})

BatteryTypeOK ==
  /\ lastBatteryLimitCap \in Thresholds \cup {NoLimit}
  /\ limited \in Thresholds \cup {NoLimit}
  /\ battery \in [level : Levels, charging : BOOLEAN] \cup {<<>>}

BatteryInit ==
  /\ lastBatteryLimitCap = NoLimit /\ limited = NoLimit /\ battery = <<>>

(* Mutant: a threshold that equals the level is passed over.               *)
GetLimitCapacityStrict(capacity) ==
  FoldSet(LAMBDA c, cap : IF c > capacity /\ c <= cap THEN c ELSE cap,
          maxBatteryLimitCapacity, Thresholds)

(* The loop over socperfBatteryConfig_.                                    *)
GetLimitCapacity(capacity) ==
  FoldSet(LAMBDA c, cap : IF c >= capacity /\ c <= cap THEN c ELSE cap,
          maxBatteryLimitCapacity, Thresholds)

HandleRecoverBatteryLimit ==
  IF lastBatteryLimitCap = NoLimit
    THEN UNCHANGED <<lastBatteryLimitCap, limited>>
    ELSE lastBatteryLimitCap' = NoLimit /\ limited' = NoLimit

HandleBatteryLimit(capacity) ==
  LET limitCapacity == GetLimitCapacity(capacity)
  IN  IF lastBatteryLimitCap = limitCapacity
        THEN UNCHANGED <<lastBatteryLimitCap, limited>>
        ELSE lastBatteryLimitCap' = limitCapacity /\ limited' = limitCapacity

HandleFreqLimit(level, charging) ==
  IF level > maxBatteryLimitCapacity \/ charging
    THEN HandleRecoverBatteryLimit
    ELSE HandleBatteryLimit(level)

(* Reports are dropped when no threshold is configured.                    *)
HandleBatteryStatusChange(level, charging) ==
  /\ Thresholds # {}
  /\ battery' = [level |-> level, charging |-> charging]
  /\ HandleFreqLimit(level, charging)

BatteryNext == \E l \in Levels, c \in BOOLEAN : HandleBatteryStatusChange(l, c)

-----------------------------------------------------------------------------
(* The limit in force is that of the smallest threshold the level is not   *)
(* above, none while charging or above all thresholds, also when a request *)
(* was skipped because the limit seemed to be in force already             *)
(* (HandleBatteryLimit, HandleRecoverBatteryLimit).                        *)
BatteryLimitRight ==
  battery # <<>> =>
    LET reached == {c \in Thresholds : c >= battery.level}
    IN  IF battery.charging \/ reached = {}
          THEN limited = NoLimit
          ELSE limited \in reached /\ \A c \in reached : limited <= c
=============================================================================
