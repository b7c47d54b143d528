--------------------------- MODULE BatteryMonitor ---------------------------
(***************************************************************************)
(* The cell gauge (battery/BatteryMonitor.cpp) and POST                     *)
(* /api/battery/calibrate (main.cpp handleBatteryCalibrate).  Voltages are  *)
(* those of the code, in mV; the ADC, its oversampling and its calibration  *)
(* are external.                                                            *)
(***************************************************************************)
EXTENDS Integers, Sequences

CONSTANTS Readings,   \* what readPinMv() may return, half the cell's voltage
          Meters      \* what a client may say that it has measured

ABSENT_MV     == 2000
LOW_MV        == 3550
CRITICAL_MV   == 3300
HYSTERESIS_MV == 60
DIVIDER_FACTOR == 2

ASSUME BatteryAssumption == Readings \subseteq 0..65535 /\ Meters \subseteq 1..5000

VARIABLES pinMv,     \* m_pinMv
          cellMv,    \* m_cellMv
          trim,      \* m_trim
          level,     \* m_level
          warm,      \* m_warm
          trimKept   \* bat_trim in NVS

batVars == <<pinMv, cellMv, trim, level, warm, trimKept>>

Levels == {"Unknown", "Absent", "Normal", "Low", "Critical"}

BatTypeOK == /\ pinMv \in Readings \cup {0} /\ cellMv \in 0..65535
             /\ trim \in 800..1250 /\ trimKept \in 800..1250
             /\ level \in Levels /\ warm \in BOOLEAN

\* A trim in NVS that is not plausible is not used.
BatInit == /\ pinMv = 0 /\ cellMv = 0
           /\ trim = 1000 /\ trimKept = 1000
           /\ level = "Unknown" /\ warm = FALSE

-----------------------------------------------------------------------------

\* Down at once, up only with a distance.
Classify(now, mv) ==
  IF mv < ABSENT_MV THEN "Absent"
  ELSE IF mv < CRITICAL_MV \/ (now = "Critical" /\ mv < CRITICAL_MV + HYSTERESIS_MV) THEN "Critical"
  ELSE IF mv < LOW_MV \/ (now \in {"Low", "Critical"} /\ mv < LOW_MV + HYSTERESIS_MV) THEN "Low"
  ELSE "Normal"

\* Warm-up is over 25 s after the start; a reading that fails changes nothing.
Sample(p) == LET mv == (p * DIVIDER_FACTOR * trim) \div 1000 IN
  /\ pinMv' = p
  /\ cellMv' = IF mv > 65535 THEN 65535 ELSE mv
  /\ warm' \in {warm, TRUE}
  /\ level' = IF warm' THEN Classify(level, cellMv') ELSE "Unknown"
  /\ UNCHANGED <<trim, trimKept>>

Measure == \E p \in Readings : Sample(p)

Present == level \in {"Normal", "Low", "Critical"}

Curve == <<
  <<4200, 100>>, <<4100, 90>>, <<4000, 80>>, <<3930, 70>>, <<3870, 60>>,
  <<3820, 50>>, <<3790, 40>>, <<3770, 30>>, <<3740, 20>>, <<3680, 15>>,
  <<3600, 10>>, <<3500, 5>>, <<3300, 0>> >>

\* Linear between the points, rounded to the nearest.
Charge(mv) ==
  IF mv >= Curve[1][1] THEN 100
  ELSE IF mv <= CRITICAL_MV THEN 0
  ELSE LET i == CHOOSE i \in 2..Len(Curve) : Curve[i][1] < mv /\ mv <= Curve[i - 1][1]
           span == Curve[i - 1][1] - Curve[i][1]
           rise == Curve[i - 1][2] - Curve[i][2]
       IN  Curve[i][2] + ((mv - Curve[i][1]) * rise + span \div 2) \div span

Percent == IF Present THEN Charge(cellMv) ELSE 0

\* The factor is taken from the untrimmed voltage, or every calibration would
\* multiply with the one before.
Factor(mv, p) == (mv * 1000 + p) \div (p * DIVIDER_FACTOR)

\* It is used at once and kept in NVS, which may fail.
CalibrateTo(mv) ==
  /\ warm /\ Present /\ pinMv # 0
  /\ mv \in ABSENT_MV..4400 /\ Factor(mv, pinMv) \in 800..1250
  /\ trim' = Factor(mv, pinMv)
  /\ trimKept' \in {trimKept, trim'}
  /\ UNCHANGED <<pinMv, cellMv, level, warm>>

Calibrate == \E mv \in Meters : CalibrateTo(mv)

-----------------------------------------------------------------------------
\* BatteryMonitor.cpp:55-58 "0 % und critical fallen damit exakt zusammen" --
\* violated: at 3300 mV there is nothing left and the level is low.
ZeroIsCritical == warm /\ Present => (Percent = 0 <=> level = "Critical")
=============================================================================
