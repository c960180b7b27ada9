----------------------------- MODULE TamerProofs ------------------------------
(***************************************************************************)
(* Proofs about the tamer: whatever the pulses, the interrupts and the     *)
(* switches of the host do to the main loop, a decision of the firmware    *)
(* is by an error of the DAC value it is about.  The induction needs to    *)
(* know, for each place of the main loop, whether the counters stand,      *)
(* which results they have left, and why the window of one second always   *)
(* has a result before a longer one can interrupt.  The second half is     *)
(* about what the corrections are worth: the arithmetic of the line, and   *)
(* that the errors it is fed with are those the oscillator has.            *)
(***************************************************************************)
EXTENDS Tamer, TLAPS

\* The window of one second has been measured at the DAC value there is.
Fresh == error[1].own /\ error[1].at = dac

\* The counters are held in reset, with no window begun.
Stopped == hold /\ \A w \in Windows : count[w] = Idle

\* Windows are of the present DAC value; until that of one second has a result
\* all have counted the same pulses, so that it is the first to have one.
Windowed ==
  /\ \A w \in Windows : count[w] # Idle => own[w]
  /\ ~Fresh => \A w \in Windows : count[w] = count[1]
  /\ irq => Fresh

\* A flagged error is of the present DAC value.
Flagged == \A w \in Windows : error_v[w] => error[w].own /\ error[w].at = dac

\* The same of the copy the service routine took.
Copied ==
  /\ pkt.error[1].own /\ pkt.error[1].at = dac
  /\ \A w \in Windows : pkt.flag[w] => pkt.error[w].own /\ pkt.error[w].at = dac

\* The values of the control register.
Registers == [reset : BOOLEAN, irq_en : BOOLEAN, pps : BOOLEAN]

Mode    == {"mode_off", "mode_set", "mode_reset", "mode_release", "mode_on"}
Serving == {"isr_off", "isr_reset", "isr_read", "isr_clear"}
Setting == {"release", "irq_on"}

\* The tamer is off, or about to be on.
IsOff == IF pc \in Mode THEN tamer_en ELSE ~tamer_en

\* A packet is on its way to the tuning step.
Delivered == ready /\ pc \in {"enable", "tune"}

\* The counters measure, unless they still wait for the end of their hold.
Running == tamer_en /\ ~ready /\ pc \in {"dispatch", "poll", "enable", "tune", "isr_off"}

PcOK ==
  /\ pc \in Serving \cup Setting \cup {"mode_release", "mode_on"} => tamer_en
  /\ ready => Delivered \/ (pc \in Mode /\ ~tamer_en)

OffOK == IsOff => ~irq /\ ~hw.irq_en /\ ~ready /\ tune_state = "MIN"

OnOK ==
  /\ ~IsOff /\ pc \notin Mode => tune_state # "MIN" \/ (pc = "tune" /\ ready)
  /\ tune_state = "MAX" => dac = Min
  /\ tune_state = "DONE" => dac = Max

StoppedOK ==
  /\ pc \in {"isr_read", "isr_clear", "mode_release", "mode_on"} \cup Setting => Stopped
  /\ Delivered => Stopped
  /\ pc \in {"isr_read", "isr_clear", "mode_release"} \/ (pc = "enable" /\ ready) => hw.reset

RunningOK == Running => hw.irq_en /\ Windowed /\ Flagged

ServingOK ==
  /\ pc = "isr_off" => irq
  /\ pc = "isr_reset" => ~hw.irq_en
  /\ pc \in {"isr_reset", "isr_read"} => Fresh /\ Flagged
  /\ pc = "isr_clear" \/ Delivered => tune_state = "MIN" \/ Copied
  /\ Delivered \/ pc \in Setting => ~irq

\* Whatever happened before: flags come with the interrupt, the cached control
\* register has the interrupt enable the hardware has, and it is off while the
\* mode is being set.
Always ==
  /\ ~irq => \A w \in Windows : ~error_v[w]
  /\ ctrl_reg.irq_en = hw.irq_en
  /\ pc \in {"mode_set", "mode_reset"} => ~hw.irq_en

Phases == PcOK /\ OffOK /\ OnOK /\ StoppedOK /\ RunningOK /\ ServingOK

IInv == TypeOK /\ Always /\ (~late => Calibrated /\ Phases)
-----------------------------------------------------------------------------
(* The arithmetic stays in its types.                                      *)

\* The ends of the range and its middle are values of the DAC.
LEMMA DacRange ==
  /\ Min \in DacValues /\ Max \in DacValues
  /\ 2^Width \div 2 \in DacValues
  /\ Min \in Int /\ Max \in Int /\ 1 \in Windows
<1> DEFINE N == 2^Width
<1>1. N \in Nat /\ Max < N /\ Min \in Nat /\ Max \in Nat /\ 0 < Min /\ Min < Max
  BY RangeAssumption
<1> HIDE DEF N
<1>2. Min \in 0 .. N - 1 /\ Max \in 0 .. N - 1 /\ N \div 2 \in 0 .. N - 1
  BY <1>1
<1> QED
  BY <1>1, <1>2, WindowsAssumption DEF N, DacValues

\* What is converted to the width of the DAC is a value of it.
LEMMA UnsignedRange ==
  ASSUME NEW n \in Int
  PROVE  Unsigned(n) \in DacValues
<1> DEFINE N == 2^Width
<1>1. N \in Nat /\ 0 < N
  BY RangeAssumption
<1> HIDE DEF N
<1>2. n % N \in 0 .. N - 1
  BY <1>1
<1> QED
  BY <1>2 DEF N, Unsigned, DacValues

\* A rounded quotient is an integer.
LEMMA RoundInt ==
  ASSUME NEW p \in Int, NEW q \in Int, q # 0
  PROVE  Round(p, q) \in Int
<1>1. ASSUME NEW a \in Int, NEW b \in Int, b > 0
      PROVE  Nearest(a, b) \in Int
  <2> DEFINE u == b - 2 * a
             v == b + 2 * a
             d == 2 * b
  <2>1. u \in Int /\ v \in Int /\ d \in Int /\ d > 0
    BY <1>1
  <2> HIDE DEF u, v, d
  <2>2. u \div d \in Int /\ v \div d \in Int
    BY <2>1
  <2> QED
    BY <2>2 DEF Nearest, u, v, d
<1>2. CASE q < 0
  BY <1>1, <1>2 DEF Round
<1>3. CASE q > 0
  BY <1>1, <1>3 DEF Round
<1> QED
  BY <1>2, <1>3

\* A truncated quotient is an integer.
LEMMA TruncateInt ==
  ASSUME NEW p \in Int, NEW q \in Nat \ {0}
  PROVE  Truncate(p, q) \in Int
<1>1. p \div q \in Int /\ (-p) \div q \in Int
  OBVIOUS
<1> QED
  BY <1>1 DEF Truncate

\* The counters report integers.
LEMMA HzInt ==
  ASSUME TypeOK, NEW w \in Windows
  PROVE  Hz(w) \in Int
<1> DEFINE k == w * gain[1] * (dac - centre)
<1>1. gain[1] \in Int /\ gain[2] \in Int /\ gain[2] # 0 /\ centre \in Int /\ dac \in Int /\ w \in Int
  BY OscillatorAssumption, WindowsAssumption, RangeAssumption DEF TypeOK, DacValues
<1>2. k \in Int
  BY <1>1
<1> HIDE DEF k
<1>3. Round(k, gain[2]) \in Int
  BY <1>1, <1>2, RoundInt
<1> QED
  BY <1>3 DEF k, Hz, PpsError

\* The intercept of a line through two measurements is a value of the DAC.
LEMMA InterceptRange ==
  ASSUME NEW a \in Int, NEW b \in Int, NEW y \in Intercept(a, b)
  PROVE  y \in DacValues
<1>1. PICK s \in Scaled(a, a, b) : y = Unsigned(Min - s)
  BY DEF Intercept
<1>2. s \in Int
  <2>1. CASE a = b
    BY <1>1, <2>1, RangeAssumption DEF Scaled
  <2>2. CASE a # b
    <3> DEFINE k == (Max - Min) * a
    <3>1. k \in Int /\ b - a \in Int /\ b - a # 0
      BY <2>2, DacRange
    <3> HIDE DEF k
    <3>2. Round(k, b - a) \in Int
      BY <3>1, RoundInt
    <3>3. Unsigned(Round(k, b - a)) \in Int
      BY <3>2, UnsignedRange, RangeAssumption DEF DacValues
    <3> QED
      BY <1>1, <2>2, <3>3 DEF Scaled, k
  <2> QED
    BY <2>1, <2>2
<1> QED
  BY <1>1, <1>2, UnsignedRange, DacRange

\* So is a corrected value.
LEMMA CorrectedRange ==
  ASSUME NEW x \in DacValues, NEW e \in Int, NEW w \in Windows,
         NEW a \in Int, NEW b \in Int, NEW y \in Corrected(x, e, w, a, b)
  PROVE  y \in DacValues
<1>0. x \in Int
  BY RangeAssumption DEF DacValues
<1>1. CASE a = b
  <2>1. PICK s \in {0, 2^Width - 1} : y = Unsigned(x - s)
    BY <1>1 DEF Corrected
  <2>2. x - s \in Int
    BY <1>0, <2>1, RangeAssumption
  <2> QED
    BY <2>1, <2>2, UnsignedRange
<1>2. CASE a # b
  <2> DEFINE k == e * (Max - Min)
  <2>1. k \in Int /\ b - a \in Int /\ b - a # 0
    BY <1>2, DacRange
  <2> HIDE DEF k
  <2>2. Round(k, b - a) \in Int
    BY <2>1, RoundInt
  <2>3. Truncate(Round(k, b - a), w) \in Int
    BY <2>2, TruncateInt, WindowsAssumption
  <2>4. Unsigned(Truncate(Round(k, b - a), w)) \in Int
    BY <2>3, UnsignedRange, RangeAssumption DEF DacValues
  <2>5. y = Unsigned(x - Unsigned(Truncate(Round(k, b - a), w)))
    BY <1>2 DEF Corrected, k
  <2> QED
    BY <1>0, <2>4, <2>5, UnsignedRange
<1> QED
  BY <1>1, <1>2
-----------------------------------------------------------------------------
(* The steps.                                                              *)

\* A write of the control register leaves it and the counters in their types,
\* and windows that have not begun as they are.
LEMMA WriteTypes ==
  ASSUME TypeOK, NEW r \in Registers, Write(r)
  PROVE  /\ hw' \in Registers /\ ctrl_reg' \in Registers
         /\ count' \in [Windows -> {Idle} \cup Nat] /\ \A w \in Windows : count'[w] <= w
         /\ own' \in [Windows -> BOOLEAN] /\ hold' \in BOOLEAN
         /\ Stopped => Stopped'
<1>1. \A w \in Windows : Idle <= w
  BY WindowsAssumption DEF Idle
<1>2. CASE r.reset
  BY <1>1, <1>2 DEF Write, Registers, Stopped
<1>3. CASE ~r.reset
  BY <1>3 DEF Write, Registers, Stopped, counters, TypeOK
<1> QED
  BY <1>2, <1>3

\* The values the firmware writes are values of the register.
LEMMA RegisterValues ==
  ASSUME TypeOK, NEW b \in BOOLEAN
  PROVE  /\ [ctrl_reg EXCEPT !.reset = b] \in Registers
         /\ [ctrl_reg EXCEPT !.irq_en = b] \in Registers
         /\ [ctrl_reg EXCEPT !.pps = b] \in Registers
BY DEF TypeOK, Registers

\* A pass of the main loop looks at the interrupt.
LEMMA PollStep ==
  ASSUME IInv, Poll
  PROVE  IInv'
<1> USE DEF Poll, counters, results, tuning, host, osc
<1>1. TypeOK /\ Always /\ (~late => Calibrated /\ Phases)
  BY DEF IInv
<1>2. TypeOK'
  BY <1>1 DEF TypeOK, Measurements
<1>3. Always'
  BY <1>1 DEF Always, TypeOK
<1>4. ~late' => Calibrated'
  BY <1>1 DEF Calibrated, Phases, OffOK, Always, TypeOK
<1>5. ~late' => PcOK' /\ OffOK'
  BY <1>1 DEF Phases, Mode, Serving, Setting, IsOff, Delivered, Running, OffOK, PcOK, ServingOK, OnOK, Always, TypeOK
<1>6. ~late' => OnOK'
  BY <1>1 DEF Phases, Mode, Serving, Setting, IsOff, Delivered, Running, OffOK, PcOK, ServingOK, OnOK, TypeOK
<1>7. ~late' => StoppedOK'
  BY <1>1 DEF Phases, Mode, Serving, Setting, IsOff, Delivered, Running, StoppedOK, Stopped, PcOK, OffOK, TypeOK
<1>8. ~late' => RunningOK'
  BY <1>1 DEF Phases, Mode, Serving, Setting, IsOff, Delivered, Running, StoppedOK, RunningOK, ServingOK, PcOK, OffOK, OnOK, Windowed, Flagged, Fresh, Stopped, Always, TypeOK
<1>9. ~late' => ServingOK'
  BY <1>1 DEF Phases, Mode, Serving, Setting, IsOff, Delivered, Running, RunningOK, ServingOK, PcOK, OffOK, OnOK, Windowed, Flagged, Copied, Fresh, Always, TypeOK
<1> QED
  BY <1>2, <1>3, <1>4, <1>5, <1>6, <1>7, <1>8, <1>9 DEF IInv, Phases

\* The end of the hold.
LEMMA HoldEndsStep ==
  ASSUME IInv, HoldEnds
  PROVE  IInv'
<1> USE DEF HoldEnds, counters, results, tuning, host, osc
<1>1. TypeOK /\ Always /\ (~late => Calibrated /\ Phases)
  BY DEF IInv
<1>2. TypeOK'
  <2>1. gain' \in Gains /\ centre' \in Centres /\ drifts' \in 0 .. MaxDrifts
    BY <1>1, BoundsAssumption DEF TypeOK
  <2>2. hw' \in Registers /\ ctrl_reg' \in Registers
    BY <1>1 DEF TypeOK, Registers
  <2>3. /\ count' \in [Windows -> {Idle} \cup Nat] /\ \A w \in Windows : count'[w] <= w
        /\ own' \in [Windows -> BOOLEAN] /\ hold' \in BOOLEAN
    BY <1>1 DEF TypeOK
  <2>4. /\ error' \in [Windows -> Measurements] /\ error_v' \in [Windows -> BOOLEAN]
        /\ irq' \in BOOLEAN
        /\ pkt' \in [error : [Windows -> Measurements], flag : [Windows -> BOOLEAN]]
    BY <1>1 DEF TypeOK
  <2>5. /\ point' \in [0 .. 1 -> Measurements] /\ dac' \in DacValues
        /\ tune_state' \in {"MIN", "MAX", "DONE", "FINE"}
        /\ en' \in BOOLEAN /\ tamer_en' \in BOOLEAN /\ ready' \in BOOLEAN
        /\ late' \in BOOLEAN /\ switches' \in 0 .. MaxSwitches
    BY <1>1, BoundsAssumption DEF TypeOK
  <2> QED
    BY <1>1, <2>1, <2>2, <2>3, <2>4, <2>5 DEF TypeOK, Registers
<1>3. Always'
  BY <1>1 DEF Always, TypeOK
<1>4. ~late' => Calibrated'
  BY <1>1 DEF Calibrated, Phases, OffOK, Always, TypeOK
<1>5. ~late' => PcOK' /\ OffOK'
  BY <1>1 DEF Phases, Mode, Serving, Setting, IsOff, Delivered, Running, OffOK, PcOK, ServingOK, OnOK, Always, TypeOK
<1>6. ~late' => OnOK'
  BY <1>1 DEF Phases, Mode, Serving, Setting, IsOff, Delivered, Running, OffOK, PcOK, ServingOK, OnOK, TypeOK
<1>7. ~late' => StoppedOK'
  BY <1>1 DEF Phases, Mode, Serving, Setting, IsOff, Delivered, Running, StoppedOK, Stopped, PcOK, OffOK, TypeOK
<1>8. ~late' => RunningOK'
  BY <1>1 DEF Phases, Mode, Serving, Setting, IsOff, Delivered, Running, StoppedOK, RunningOK, ServingOK, PcOK, OffOK, OnOK, Windowed, Flagged, Fresh, Stopped, Always, TypeOK
<1>9. ~late' => ServingOK'
  BY <1>1 DEF Phases, Mode, Serving, Setting, IsOff, Delivered, Running, RunningOK, ServingOK, PcOK, OffOK, OnOK, Windowed, Flagged, Copied, Fresh, Always, TypeOK
<1> QED
  BY <1>2, <1>3, <1>4, <1>5, <1>6, <1>7, <1>8, <1>9 DEF IInv, Phases

\* The service routine disables the interrupt.
LEMMA IsrOffStep ==
  ASSUME IInv, IsrOff
  PROVE  IInv'
<1> USE DEF IsrOff, enable_isr, Write, counters, results, tuning, host, osc
<1>1. TypeOK /\ Always /\ (~late => Calibrated /\ Phases)
  BY DEF IInv
<1>2. TypeOK'
  <2>1. /\ hw' \in Registers /\ ctrl_reg' \in Registers
        /\ count' \in [Windows -> {Idle} \cup Nat] /\ \A w \in Windows : count'[w] <= w
        /\ own' \in [Windows -> BOOLEAN] /\ hold' \in BOOLEAN
        /\ Stopped => Stopped'
    <3>1. [ctrl_reg EXCEPT !.irq_en = FALSE] \in Registers
      BY <1>1, RegisterValues DEF TypeOK
    <3>2. Write([ctrl_reg EXCEPT !.irq_en = FALSE])
      OBVIOUS
    <3> HIDE DEF Write
    <3> QED
      BY <1>1, <3>1, <3>2, WriteTypes
  <2> QED
    BY <1>1, <2>1 DEF TypeOK, Registers, Measurements
<1>3. Always'
  BY <1>1 DEF Always, TypeOK
<1>4. ~late' => Calibrated'
  BY <1>1 DEF Calibrated, Phases, OffOK, Always, TypeOK
<1>5. ~late' => PcOK' /\ OffOK'
  BY <1>1 DEF Phases, Mode, Serving, Setting, IsOff, Delivered, Running, OffOK, PcOK, ServingOK, OnOK, Always, TypeOK
<1>6. ~late' => OnOK'
  BY <1>1 DEF Phases, Mode, Serving, Setting, IsOff, Delivered, Running, OffOK, PcOK, ServingOK, OnOK, TypeOK
<1>7. ~late' => StoppedOK'
  BY <1>1 DEF Phases, Mode, Serving, Setting, IsOff, Delivered, Running, StoppedOK, Stopped, PcOK, OffOK, TypeOK
<1>8. ~late' => RunningOK'
  BY <1>1 DEF Phases, Mode, Serving, Setting, IsOff, Delivered, Running, StoppedOK, RunningOK, ServingOK, PcOK, OffOK, OnOK, Windowed, Flagged, Fresh, Stopped, Always, TypeOK
<1>9. ~late' => ServingOK'
  BY <1>1 DEF Phases, Mode, Serving, Setting, IsOff, Delivered, Running, RunningOK, ServingOK, PcOK, OffOK, OnOK, Windowed, Flagged, Copied, Fresh, Always, TypeOK
<1> QED
  BY <1>2, <1>3, <1>4, <1>5, <1>6, <1>7, <1>8, <1>9 DEF IInv, Phases

\* The service routine stops the counters.
LEMMA IsrResetStep ==
  ASSUME IInv, IsrReset
  PROVE  IInv'
<1> USE DEF IsrReset, reset_counters, Write, counters, results, tuning, host, osc
<1>1. TypeOK /\ Always /\ (~late => Calibrated /\ Phases)
  BY DEF IInv
<1>2. TypeOK'
  <2>1. /\ hw' \in Registers /\ ctrl_reg' \in Registers
        /\ count' \in [Windows -> {Idle} \cup Nat] /\ \A w \in Windows : count'[w] <= w
        /\ own' \in [Windows -> BOOLEAN] /\ hold' \in BOOLEAN
        /\ Stopped => Stopped'
    <3>1. [ctrl_reg EXCEPT !.reset = TRUE] \in Registers
      BY <1>1, RegisterValues DEF TypeOK
    <3>2. Write([ctrl_reg EXCEPT !.reset = TRUE])
      OBVIOUS
    <3> HIDE DEF Write
    <3> QED
      BY <1>1, <3>1, <3>2, WriteTypes
  <2> QED
    BY <1>1, <2>1 DEF TypeOK, Registers, Measurements
<1>3. Always'
  BY <1>1 DEF Always, TypeOK
<1>4. ~late' => Calibrated'
  BY <1>1 DEF Calibrated, Phases, OffOK, Always, TypeOK
<1>5. ~late' => PcOK' /\ OffOK'
  BY <1>1 DEF Phases, Mode, Serving, Setting, IsOff, Delivered, Running, OffOK, PcOK, ServingOK, OnOK, Always, TypeOK
<1>6. ~late' => OnOK'
  BY <1>1 DEF Phases, Mode, Serving, Setting, IsOff, Delivered, Running, OffOK, PcOK, ServingOK, OnOK, TypeOK
<1>7. ~late' => StoppedOK'
  BY <1>1 DEF Phases, Mode, Serving, Setting, IsOff, Delivered, Running, StoppedOK, Stopped, PcOK, OffOK, TypeOK
<1>8. ~late' => RunningOK'
  BY <1>1 DEF Phases, Mode, Serving, Setting, IsOff, Delivered, Running, StoppedOK, RunningOK, ServingOK, PcOK, OffOK, OnOK, Windowed, Flagged, Fresh, Stopped, Always, TypeOK
<1>9. ~late' => ServingOK'
  BY <1>1 DEF Phases, Mode, Serving, Setting, IsOff, Delivered, Running, RunningOK, ServingOK, PcOK, OffOK, OnOK, Windowed, Flagged, Copied, Fresh, Always, TypeOK
<1> QED
  BY <1>2, <1>3, <1>4, <1>5, <1>6, <1>7, <1>8, <1>9 DEF IInv, Phases

\* The service routine copies the results.
LEMMA IsrReadStep ==
  ASSUME IInv, IsrRead
  PROVE  IInv'
<1> USE DEF IsrRead, counters, results, tuning, host, osc
<1>1. TypeOK /\ Always /\ (~late => Calibrated /\ Phases)
  BY DEF IInv
<1>2. TypeOK'
  BY <1>1 DEF TypeOK, Measurements
<1>3. Always'
  BY <1>1 DEF Always, TypeOK
<1>4. ~late' => Calibrated'
  BY <1>1 DEF Calibrated, Phases, OffOK, Always, TypeOK
<1>5. ~late' => PcOK' /\ OffOK'
  BY <1>1 DEF Phases, Mode, Serving, Setting, IsOff, Delivered, Running, OffOK, PcOK, ServingOK, OnOK, Always, TypeOK
<1>6. ~late' => OnOK'
  BY <1>1 DEF Phases, Mode, Serving, Setting, IsOff, Delivered, Running, OffOK, PcOK, ServingOK, OnOK, TypeOK
<1>7. ~late' => StoppedOK'
  BY <1>1 DEF Phases, Mode, Serving, Setting, IsOff, Delivered, Running, StoppedOK, Stopped, PcOK, OffOK, TypeOK
<1>8. ~late' => RunningOK'
  BY <1>1 DEF Phases, Mode, Serving, Setting, IsOff, Delivered, Running, StoppedOK, RunningOK, ServingOK, PcOK, OffOK, OnOK, Windowed, Flagged, Fresh, Stopped, Always, TypeOK
<1>9. ~late' => ServingOK'
  BY <1>1 DEF Phases, Mode, Serving, Setting, IsOff, Delivered, Running, RunningOK, ServingOK, PcOK, OffOK, OnOK, Windowed, Flagged, Copied, Fresh, Always, TypeOK
<1> QED
  BY <1>2, <1>3, <1>4, <1>5, <1>6, <1>7, <1>8, <1>9 DEF IInv, Phases

\* The service routine clears the interrupt.
LEMMA IsrClearStep ==
  ASSUME IInv, IsrClear
  PROVE  IInv'
<1> USE DEF IsrClear, counters, results, tuning, host, osc
<1>1. TypeOK /\ Always /\ (~late => Calibrated /\ Phases)
  BY DEF IInv
<1>2. TypeOK'
  <2>1. gain' \in Gains /\ centre' \in Centres /\ drifts' \in 0 .. MaxDrifts
    BY <1>1, BoundsAssumption DEF TypeOK
  <2>2. hw' \in Registers /\ ctrl_reg' \in Registers
    BY <1>1 DEF TypeOK, Registers
  <2>3. /\ count' \in [Windows -> {Idle} \cup Nat] /\ \A w \in Windows : count'[w] <= w
        /\ own' \in [Windows -> BOOLEAN] /\ hold' \in BOOLEAN
    BY <1>1 DEF TypeOK
  <2>4. /\ error' \in [Windows -> Measurements] /\ error_v' \in [Windows -> BOOLEAN]
        /\ irq' \in BOOLEAN
        /\ pkt' \in [error : [Windows -> Measurements], flag : [Windows -> BOOLEAN]]
    BY <1>1 DEF TypeOK
  <2>5. /\ point' \in [0 .. 1 -> Measurements] /\ dac' \in DacValues
        /\ tune_state' \in {"MIN", "MAX", "DONE", "FINE"}
        /\ en' \in BOOLEAN /\ tamer_en' \in BOOLEAN /\ ready' \in BOOLEAN
        /\ late' \in BOOLEAN /\ switches' \in 0 .. MaxSwitches
    BY <1>1, BoundsAssumption DEF TypeOK
  <2> QED
    BY <1>1, <2>1, <2>2, <2>3, <2>4, <2>5 DEF TypeOK, Registers
<1>3. Always'
  BY <1>1 DEF Always, TypeOK
<1>4. ~late' => Calibrated'
  BY <1>1 DEF Calibrated, Phases, OffOK, Always, TypeOK
<1>5. ~late' => PcOK' /\ OffOK'
  BY <1>1 DEF Phases, Mode, Serving, Setting, IsOff, Delivered, Running, OffOK, PcOK, ServingOK, OnOK, Always, TypeOK
<1>6. ~late' => OnOK'
  BY <1>1 DEF Phases, Mode, Serving, Setting, IsOff, Delivered, Running, OffOK, PcOK, ServingOK, OnOK, TypeOK
<1>7. ~late' => StoppedOK'
  BY <1>1 DEF Phases, Mode, Serving, Setting, IsOff, Delivered, Running, StoppedOK, Stopped, PcOK, OffOK, TypeOK
<1>8. ~late' => RunningOK'
  BY <1>1 DEF Phases, Mode, Serving, Setting, IsOff, Delivered, Running, StoppedOK, RunningOK, ServingOK, PcOK, OffOK, OnOK, Windowed, Flagged, Fresh, Stopped, Always, TypeOK
<1>9. ~late' => ServingOK'
  BY <1>1 DEF Phases, Mode, Serving, Setting, IsOff, Delivered, Running, RunningOK, ServingOK, PcOK, OffOK, OnOK, Windowed, Flagged, Copied, Fresh, Always, TypeOK
<1> QED
  BY <1>2, <1>3, <1>4, <1>5, <1>6, <1>7, <1>8, <1>9 DEF IInv, Phases

\* A pass of the main loop looks at the enable bit.
LEMMA SeeEnableStep ==
  ASSUME IInv, SeeEnable
  PROVE  IInv'
<1> USE DEF SeeEnable, counters, results, tuning, host, osc
<1>1. TypeOK /\ Always /\ (~late => Calibrated /\ Phases)
  BY DEF IInv
<1>2. TypeOK'
  BY <1>1 DEF TypeOK, Measurements
<1>3. Always'
  BY <1>1 DEF Always, TypeOK
<1>4. ~late' => Calibrated'
  BY <1>1 DEF Calibrated, Phases, OffOK, Always, TypeOK
<1>5. ~late' => PcOK' /\ OffOK'
  BY <1>1 DEF Phases, Mode, Serving, Setting, IsOff, Delivered, Running, OffOK, PcOK, ServingOK, OnOK, Always, TypeOK
<1>6. ~late' => OnOK'
  BY <1>1 DEF Phases, Mode, Serving, Setting, IsOff, Delivered, Running, OffOK, PcOK, ServingOK, OnOK, TypeOK
<1>7. ~late' => StoppedOK'
  BY <1>1 DEF Phases, Mode, Serving, Setting, IsOff, Delivered, Running, StoppedOK, Stopped, PcOK, OffOK, TypeOK
<1>8. ~late' => RunningOK'
  BY <1>1 DEF Phases, Mode, Serving, Setting, IsOff, Delivered, Running, StoppedOK, RunningOK, ServingOK, PcOK, OffOK, OnOK, Windowed, Flagged, Fresh, Stopped, Always, TypeOK
<1>9. ~late' => ServingOK'
  BY <1>1 DEF Phases, Mode, Serving, Setting, IsOff, Delivered, Running, RunningOK, ServingOK, PcOK, OffOK, OnOK, Windowed, Flagged, Copied, Fresh, Always, TypeOK
<1> QED
  BY <1>2, <1>3, <1>4, <1>5, <1>6, <1>7, <1>8, <1>9 DEF IInv, Phases

\* A change of mode disables the interrupt.
LEMMA ModeOffStep ==
  ASSUME IInv, ModeOff
  PROVE  IInv'
<1> USE DEF ModeOff, enable_isr, Write, counters, results, tuning, host, osc
<1>1. TypeOK /\ Always /\ (~late => Calibrated /\ Phases)
  BY DEF IInv
<1>2. TypeOK'
  <2>1. /\ hw' \in Registers /\ ctrl_reg' \in Registers
        /\ count' \in [Windows -> {Idle} \cup Nat] /\ \A w \in Windows : count'[w] <= w
        /\ own' \in [Windows -> BOOLEAN] /\ hold' \in BOOLEAN
        /\ Stopped => Stopped'
    <3>1. [ctrl_reg EXCEPT !.irq_en = FALSE] \in Registers
      BY <1>1, RegisterValues DEF TypeOK
    <3>2. Write([ctrl_reg EXCEPT !.irq_en = FALSE])
      OBVIOUS
    <3> HIDE DEF Write
    <3> QED
      BY <1>1, <3>1, <3>2, WriteTypes
  <2> QED
    BY <1>1, <2>1 DEF TypeOK, Registers, Measurements
<1>3. Always'
  BY <1>1 DEF Always, TypeOK
<1>4. ~late' => Calibrated'
  BY <1>1 DEF Calibrated, Phases, OffOK, Always, TypeOK
<1>5. ~late' => PcOK' /\ OffOK'
  BY <1>1 DEF Phases, Mode, Serving, Setting, IsOff, Delivered, Running, OffOK, PcOK, ServingOK, OnOK, Always, TypeOK
<1>6. ~late' => OnOK'
  BY <1>1 DEF Phases, Mode, Serving, Setting, IsOff, Delivered, Running, OffOK, PcOK, ServingOK, OnOK, TypeOK
<1>7. ~late' => StoppedOK'
  BY <1>1 DEF Phases, Mode, Serving, Setting, IsOff, Delivered, Running, StoppedOK, Stopped, PcOK, OffOK, TypeOK
<1>8. ~late' => RunningOK'
  BY <1>1 DEF Phases, Mode, Serving, Setting, IsOff, Delivered, Running, StoppedOK, RunningOK, ServingOK, PcOK, OffOK, OnOK, Windowed, Flagged, Fresh, Stopped, Always, TypeOK
<1>9. ~late' => ServingOK'
  BY <1>1 DEF Phases, Mode, Serving, Setting, IsOff, Delivered, Running, RunningOK, ServingOK, PcOK, OffOK, OnOK, Windowed, Flagged, Copied, Fresh, Always, TypeOK
<1> QED
  BY <1>2, <1>3, <1>4, <1>5, <1>6, <1>7, <1>8, <1>9 DEF IInv, Phases

\* A change of mode sets the mode.
LEMMA ModeSetStep ==
  ASSUME IInv, ModeSet
  PROVE  IInv'
<1> USE DEF ModeSet, Write, counters, results, tuning, host, osc
<1>1. TypeOK /\ Always /\ (~late => Calibrated /\ Phases)
  BY DEF IInv
<1>2. TypeOK'
  <2>1. /\ hw' \in Registers /\ ctrl_reg' \in Registers
        /\ count' \in [Windows -> {Idle} \cup Nat] /\ \A w \in Windows : count'[w] <= w
        /\ own' \in [Windows -> BOOLEAN] /\ hold' \in BOOLEAN
        /\ Stopped => Stopped'
    <3>1. [ctrl_reg EXCEPT !.pps = tamer_en] \in Registers
      BY <1>1, RegisterValues DEF TypeOK
    <3>2. Write([ctrl_reg EXCEPT !.pps = tamer_en])
      OBVIOUS
    <3> HIDE DEF Write
    <3> QED
      BY <1>1, <3>1, <3>2, WriteTypes
  <2> QED
    BY <1>1, <2>1 DEF TypeOK, Registers, Measurements
<1>3. Always'
  BY <1>1 DEF Always, TypeOK
<1>4. ~late' => Calibrated'
  BY <1>1 DEF Calibrated, Phases, OffOK, Always, TypeOK
<1>5. ~late' => PcOK' /\ OffOK'
  BY <1>1 DEF Phases, Mode, Serving, Setting, IsOff, Delivered, Running, OffOK, PcOK, ServingOK, OnOK, Always, TypeOK
<1>6. ~late' => OnOK'
  BY <1>1 DEF Phases, Mode, Serving, Setting, IsOff, Delivered, Running, OffOK, PcOK, ServingOK, OnOK, TypeOK
<1>7. ~late' => StoppedOK'
  BY <1>1 DEF Phases, Mode, Serving, Setting, IsOff, Delivered, Running, StoppedOK, Stopped, PcOK, OffOK, TypeOK
<1>8. ~late' => RunningOK'
  BY <1>1 DEF Phases, Mode, Serving, Setting, IsOff, Delivered, Running, StoppedOK, RunningOK, ServingOK, PcOK, OffOK, OnOK, Windowed, Flagged, Fresh, Stopped, Always, TypeOK
<1>9. ~late' => ServingOK'
  BY <1>1 DEF Phases, Mode, Serving, Setting, IsOff, Delivered, Running, RunningOK, ServingOK, PcOK, OffOK, OnOK, Windowed, Flagged, Copied, Fresh, Always, TypeOK
<1> QED
  BY <1>2, <1>3, <1>4, <1>5, <1>6, <1>7, <1>8, <1>9 DEF IInv, Phases

\* A change of mode stops the counters.
LEMMA ModeResetStep ==
  ASSUME IInv, ModeReset
  PROVE  IInv'
<1> USE DEF ModeReset, reset_counters, Write, counters, results, tuning, host, osc
<1>1. TypeOK /\ Always /\ (~late => Calibrated /\ Phases)
  BY DEF IInv
<1>2. TypeOK'
  <2>1. /\ hw' \in Registers /\ ctrl_reg' \in Registers
        /\ count' \in [Windows -> {Idle} \cup Nat] /\ \A w \in Windows : count'[w] <= w
        /\ own' \in [Windows -> BOOLEAN] /\ hold' \in BOOLEAN
        /\ Stopped => Stopped'
    <3>1. [ctrl_reg EXCEPT !.reset = TRUE] \in Registers
      BY <1>1, RegisterValues DEF TypeOK
    <3>2. Write([ctrl_reg EXCEPT !.reset = TRUE])
      OBVIOUS
    <3> HIDE DEF Write
    <3> QED
      BY <1>1, <3>1, <3>2, WriteTypes
  <2> QED
    BY <1>1, <2>1 DEF TypeOK, Registers, Measurements
<1>3. Always'
  BY <1>1 DEF Always, TypeOK
<1>4. ~late' => Calibrated'
  BY <1>1 DEF Calibrated, Phases, OffOK, Always, TypeOK
<1>5. ~late' => PcOK' /\ OffOK'
  BY <1>1 DEF Phases, Mode, Serving, Setting, IsOff, Delivered, Running, OffOK, PcOK, ServingOK, OnOK, Always, TypeOK
<1>6. ~late' => OnOK'
  BY <1>1 DEF Phases, Mode, Serving, Setting, IsOff, Delivered, Running, OffOK, PcOK, ServingOK, OnOK, TypeOK
<1>7. ~late' => StoppedOK'
  BY <1>1 DEF Phases, Mode, Serving, Setting, IsOff, Delivered, Running, StoppedOK, Stopped, PcOK, OffOK, TypeOK
<1>8. ~late' => RunningOK'
  BY <1>1 DEF Phases, Mode, Serving, Setting, IsOff, Delivered, Running, StoppedOK, RunningOK, ServingOK, PcOK, OffOK, OnOK, Windowed, Flagged, Fresh, Stopped, Always, TypeOK
<1>9. ~late' => ServingOK'
  BY <1>1 DEF Phases, Mode, Serving, Setting, IsOff, Delivered, Running, RunningOK, ServingOK, PcOK, OffOK, OnOK, Windowed, Flagged, Copied, Fresh, Always, TypeOK
<1> QED
  BY <1>2, <1>3, <1>4, <1>5, <1>6, <1>7, <1>8, <1>9 DEF IInv, Phases

\* A change of mode to on lets the counters run.
LEMMA ModeReleaseStep ==
  ASSUME IInv, ModeRelease
  PROVE  IInv'
<1> USE DEF ModeRelease, reset_counters, Write, counters, results, tuning, host, osc
<1>1. TypeOK /\ Always /\ (~late => Calibrated /\ Phases)
  BY DEF IInv
<1>2. TypeOK'
  <2>1. /\ hw' \in Registers /\ ctrl_reg' \in Registers
        /\ count' \in [Windows -> {Idle} \cup Nat] /\ \A w \in Windows : count'[w] <= w
        /\ own' \in [Windows -> BOOLEAN] /\ hold' \in BOOLEAN
        /\ Stopped => Stopped'
    <3>1. [ctrl_reg EXCEPT !.reset = FALSE] \in Registers
      BY <1>1, RegisterValues DEF TypeOK
    <3>2. Write([ctrl_reg EXCEPT !.reset = FALSE])
      OBVIOUS
    <3> HIDE DEF Write
    <3> QED
      BY <1>1, <3>1, <3>2, WriteTypes
  <2> QED
    BY <1>1, <2>1 DEF TypeOK, Registers, Measurements
<1>3. Always'
  BY <1>1 DEF Always, TypeOK
<1>4. ~late' => Calibrated'
  BY <1>1 DEF Calibrated, Phases, OffOK, Always, TypeOK
<1>5. ~late' => PcOK' /\ OffOK'
  BY <1>1 DEF Phases, Mode, Serving, Setting, IsOff, Delivered, Running, OffOK, PcOK, ServingOK, OnOK, Always, TypeOK
<1>6. ~late' => OnOK'
  BY <1>1 DEF Phases, Mode, Serving, Setting, IsOff, Delivered, Running, OffOK, PcOK, ServingOK, OnOK, TypeOK
<1>7. ~late' => StoppedOK'
  BY <1>1 DEF Phases, Mode, Serving, Setting, IsOff, Delivered, Running, StoppedOK, Stopped, PcOK, OffOK, TypeOK
<1>8. ~late' => RunningOK'
  BY <1>1 DEF Phases, Mode, Serving, Setting, IsOff, Delivered, Running, StoppedOK, RunningOK, ServingOK, PcOK, OffOK, OnOK, Windowed, Flagged, Fresh, Stopped, Always, TypeOK
<1>9. ~late' => ServingOK'
  BY <1>1 DEF Phases, Mode, Serving, Setting, IsOff, Delivered, Running, RunningOK, ServingOK, PcOK, OffOK, OnOK, Windowed, Flagged, Copied, Fresh, Always, TypeOK
<1> QED
  BY <1>2, <1>3, <1>4, <1>5, <1>6, <1>7, <1>8, <1>9 DEF IInv, Phases

\* A change of mode to on ends with a packet.
LEMMA ModeOnStep ==
  ASSUME IInv, ModeOn
  PROVE  IInv'
<1> USE DEF ModeOn, enable_isr, Write, counters, results, tuning, host, osc
<1>1. TypeOK /\ Always /\ (~late => Calibrated /\ Phases)
  BY DEF IInv
<1>2. TypeOK'
  <2>1. /\ hw' \in Registers /\ ctrl_reg' \in Registers
        /\ count' \in [Windows -> {Idle} \cup Nat] /\ \A w \in Windows : count'[w] <= w
        /\ own' \in [Windows -> BOOLEAN] /\ hold' \in BOOLEAN
        /\ Stopped => Stopped'
    <3>1. [ctrl_reg EXCEPT !.irq_en = TRUE] \in Registers
      BY <1>1, RegisterValues DEF TypeOK
    <3>2. Write([ctrl_reg EXCEPT !.irq_en = TRUE])
      OBVIOUS
    <3> HIDE DEF Write
    <3> QED
      BY <1>1, <3>1, <3>2, WriteTypes
  <2> QED
    BY <1>1, <2>1 DEF TypeOK, Registers, Measurements
<1>3. Always'
  BY <1>1 DEF Always, TypeOK
<1>4. ~late' => Calibrated'
  BY <1>1 DEF Calibrated, Phases, OffOK, Always, TypeOK
<1>5. ~late' => PcOK' /\ OffOK'
  BY <1>1 DEF Phases, Mode, Serving, Setting, IsOff, Delivered, Running, OffOK, PcOK, ServingOK, OnOK, Always, TypeOK
<1>6. ~late' => OnOK'
  BY <1>1 DEF Phases, Mode, Serving, Setting, IsOff, Delivered, Running, OffOK, PcOK, ServingOK, OnOK, TypeOK
<1>7. ~late' => StoppedOK'
  BY <1>1 DEF Phases, Mode, Serving, Setting, IsOff, Delivered, Running, StoppedOK, Stopped, PcOK, OffOK, TypeOK
<1>8. ~late' => RunningOK'
  BY <1>1 DEF Phases, Mode, Serving, Setting, IsOff, Delivered, Running, StoppedOK, RunningOK, ServingOK, PcOK, OffOK, OnOK, Windowed, Flagged, Fresh, Stopped, Always, TypeOK
<1>9. ~late' => ServingOK'
  BY <1>1 DEF Phases, Mode, Serving, Setting, IsOff, Delivered, Running, RunningOK, ServingOK, PcOK, OffOK, OnOK, Windowed, Flagged, Copied, Fresh, Always, TypeOK
<1> QED
  BY <1>2, <1>3, <1>4, <1>5, <1>6, <1>7, <1>8, <1>9 DEF IInv, Phases

\* A pass without a packet.
LEMMA NotReadyStep ==
  ASSUME IInv, NotReady
  PROVE  IInv'
<1> USE DEF NotReady, counters, results, tuning, host, osc
<1>1. TypeOK /\ Always /\ (~late => Calibrated /\ Phases)
  BY DEF IInv
<1>2. TypeOK'
  BY <1>1 DEF TypeOK, Measurements
<1>3. Always'
  BY <1>1 DEF Always, TypeOK
<1>4. ~late' => Calibrated'
  BY <1>1 DEF Calibrated, Phases, OffOK, Always, TypeOK
<1>5. ~late' => PcOK' /\ OffOK'
  BY <1>1 DEF Phases, Mode, Serving, Setting, IsOff, Delivered, Running, OffOK, PcOK, ServingOK, OnOK, Always, TypeOK
<1>6. ~late' => OnOK'
  BY <1>1 DEF Phases, Mode, Serving, Setting, IsOff, Delivered, Running, OffOK, PcOK, ServingOK, OnOK, TypeOK
<1>7. ~late' => StoppedOK'
  BY <1>1 DEF Phases, Mode, Serving, Setting, IsOff, Delivered, Running, StoppedOK, Stopped, PcOK, OffOK, TypeOK
<1>8. ~late' => RunningOK'
  BY <1>1 DEF Phases, Mode, Serving, Setting, IsOff, Delivered, Running, StoppedOK, RunningOK, ServingOK, PcOK, OffOK, OnOK, Windowed, Flagged, Fresh, Stopped, Always, TypeOK
<1>9. ~late' => ServingOK'
  BY <1>1 DEF Phases, Mode, Serving, Setting, IsOff, Delivered, Running, RunningOK, ServingOK, PcOK, OffOK, OnOK, Windowed, Flagged, Copied, Fresh, Always, TypeOK
<1> QED
  BY <1>2, <1>3, <1>4, <1>5, <1>6, <1>7, <1>8, <1>9 DEF IInv, Phases

\* A step of tuning lets the counters run.
LEMMA ReleaseStep ==
  ASSUME IInv, Release
  PROVE  IInv'
<1> USE DEF Release, reset_counters, Write, counters, results, tuning, host, osc
<1>1. TypeOK /\ Always /\ (~late => Calibrated /\ Phases)
  BY DEF IInv
<1>2. TypeOK'
  <2>1. /\ hw' \in Registers /\ ctrl_reg' \in Registers
        /\ count' \in [Windows -> {Idle} \cup Nat] /\ \A w \in Windows : count'[w] <= w
        /\ own' \in [Windows -> BOOLEAN] /\ hold' \in BOOLEAN
        /\ Stopped => Stopped'
    <3>1. [ctrl_reg EXCEPT !.reset = FALSE] \in Registers
      BY <1>1, RegisterValues DEF TypeOK
    <3>2. Write([ctrl_reg EXCEPT !.reset = FALSE])
      OBVIOUS
    <3> HIDE DEF Write
    <3> QED
      BY <1>1, <3>1, <3>2, WriteTypes
  <2> QED
    BY <1>1, <2>1 DEF TypeOK, Registers, Measurements
<1>3. Always'
  BY <1>1 DEF Always, TypeOK
<1>4. ~late' => Calibrated'
  BY <1>1 DEF Calibrated, Phases, OffOK, Always, TypeOK
<1>5. ~late' => PcOK' /\ OffOK'
  BY <1>1 DEF Phases, Mode, Serving, Setting, IsOff, Delivered, Running, OffOK, PcOK, ServingOK, OnOK, Always, TypeOK
<1>6. ~late' => OnOK'
  BY <1>1 DEF Phases, Mode, Serving, Setting, IsOff, Delivered, Running, OffOK, PcOK, ServingOK, OnOK, TypeOK
<1>7. ~late' => StoppedOK'
  BY <1>1 DEF Phases, Mode, Serving, Setting, IsOff, Delivered, Running, StoppedOK, Stopped, PcOK, OffOK, TypeOK
<1>8. ~late' => RunningOK'
  BY <1>1 DEF Phases, Mode, Serving, Setting, IsOff, Delivered, Running, StoppedOK, RunningOK, ServingOK, PcOK, OffOK, OnOK, Windowed, Flagged, Fresh, Stopped, Always, TypeOK
<1>9. ~late' => ServingOK'
  BY <1>1 DEF Phases, Mode, Serving, Setting, IsOff, Delivered, Running, RunningOK, ServingOK, PcOK, OffOK, OnOK, Windowed, Flagged, Copied, Fresh, Always, TypeOK
<1> QED
  BY <1>2, <1>3, <1>4, <1>5, <1>6, <1>7, <1>8, <1>9 DEF IInv, Phases

\* A step of tuning enables the interrupt.
LEMMA IrqOnStep ==
  ASSUME IInv, IrqOn
  PROVE  IInv'
<1> USE DEF IrqOn, enable_isr, Write, counters, results, tuning, host, osc
<1>1. TypeOK /\ Always /\ (~late => Calibrated /\ Phases)
  BY DEF IInv
<1>2. TypeOK'
  <2>1. /\ hw' \in Registers /\ ctrl_reg' \in Registers
        /\ count' \in [Windows -> {Idle} \cup Nat] /\ \A w \in Windows : count'[w] <= w
        /\ own' \in [Windows -> BOOLEAN] /\ hold' \in BOOLEAN
        /\ Stopped => Stopped'
    <3>1. [ctrl_reg EXCEPT !.irq_en = TRUE] \in Registers
      BY <1>1, RegisterValues DEF TypeOK
    <3>2. Write([ctrl_reg EXCEPT !.irq_en = TRUE])
      OBVIOUS
    <3> HIDE DEF Write
    <3> QED
      BY <1>1, <3>1, <3>2, WriteTypes
  <2> QED
    BY <1>1, <2>1 DEF TypeOK, Registers, Measurements
<1>3. Always'
  BY <1>1 DEF Always, TypeOK
<1>4. ~late' => Calibrated'
  BY <1>1 DEF Calibrated, Phases, OffOK, Always, TypeOK
<1>5. ~late' => PcOK' /\ OffOK'
  BY <1>1 DEF Phases, Mode, Serving, Setting, IsOff, Delivered, Running, OffOK, PcOK, ServingOK, OnOK, Always, TypeOK
<1>6. ~late' => OnOK'
  BY <1>1 DEF Phases, Mode, Serving, Setting, IsOff, Delivered, Running, OffOK, PcOK, ServingOK, OnOK, TypeOK
<1>7. ~late' => StoppedOK'
  BY <1>1 DEF Phases, Mode, Serving, Setting, IsOff, Delivered, Running, StoppedOK, Stopped, PcOK, OffOK, TypeOK
<1>8. ~late' => RunningOK'
  <2> SUFFICES ASSUME ~late PROVE RunningOK'
    OBVIOUS
  <2>1. Stopped' /\ pc = "irq_on" /\ pc' = "dispatch"
    <3>1. Stopped
      BY <1>1 DEF Phases, StoppedOK, Setting
    <3>2. [ctrl_reg EXCEPT !.irq_en = TRUE] \in Registers
      BY <1>1, RegisterValues DEF TypeOK
    <3>3. Write([ctrl_reg EXCEPT !.irq_en = TRUE])
      OBVIOUS
    <3> HIDE DEF Write
    <3> QED
      BY <1>1, <3>1, <3>2, <3>3, WriteTypes
  <2>2. ~irq' /\ \A w \in Windows : ~error_v'[w]
    BY <1>1, <2>1 DEF Phases, ServingOK, Setting, Always
  <2>3. hw'.irq_en
    BY <1>1 DEF TypeOK
  <2>4. Windowed' /\ Flagged'
    BY <2>1, <2>2, DacRange DEF Windowed, Flagged, Stopped
  <2> QED
    BY <2>3, <2>4 DEF RunningOK
<1>9. ~late' => ServingOK'
  BY <1>1 DEF Phases, Mode, Serving, Setting, IsOff, Delivered, Running, RunningOK, ServingOK, PcOK, OffOK, OnOK, Windowed, Flagged, Copied, Fresh, Always, TypeOK
<1> QED
  BY <1>2, <1>3, <1>4, <1>5, <1>6, <1>7, <1>8, <1>9 DEF IInv, Phases

\* The dispatcher switches the tamer or does not.
LEMMA DispatchStep ==
  ASSUME IInv, Dispatch
  PROVE  IInv'
<1> USE DEF Dispatch, SwitchTamer, host, counters, results, tuning, host, osc
<1>1. TypeOK /\ Always /\ (~late => Calibrated /\ Phases)
  BY DEF IInv
<1>2. TypeOK'
  <2>1. gain' \in Gains /\ centre' \in Centres /\ drifts' \in 0 .. MaxDrifts
    BY <1>1, BoundsAssumption DEF TypeOK
  <2>2. hw' \in Registers /\ ctrl_reg' \in Registers
    BY <1>1 DEF TypeOK, Registers
  <2>3. /\ count' \in [Windows -> {Idle} \cup Nat] /\ \A w \in Windows : count'[w] <= w
        /\ own' \in [Windows -> BOOLEAN] /\ hold' \in BOOLEAN
    BY <1>1 DEF TypeOK
  <2>4. /\ error' \in [Windows -> Measurements] /\ error_v' \in [Windows -> BOOLEAN]
        /\ irq' \in BOOLEAN
        /\ pkt' \in [error : [Windows -> Measurements], flag : [Windows -> BOOLEAN]]
    BY <1>1 DEF TypeOK
  <2>5. /\ point' \in [0 .. 1 -> Measurements] /\ dac' \in DacValues
        /\ tune_state' \in {"MIN", "MAX", "DONE", "FINE"}
        /\ tamer_en' \in BOOLEAN /\ ready' \in BOOLEAN /\ late' \in BOOLEAN
    BY <1>1, BoundsAssumption DEF TypeOK
  <2>6. en' \in BOOLEAN
    BY <1>1 DEF TypeOK
  <2>7. switches' \in 0 .. MaxSwitches
    BY <1>1, BoundsAssumption DEF TypeOK
  <2> QED
    BY <1>1, <2>1, <2>2, <2>3, <2>4, <2>5, <2>6, <2>7 DEF TypeOK, Registers
<1>3. Always'
  BY <1>1 DEF Always, TypeOK
<1>4. ~late' => Calibrated'
  BY <1>1 DEF Calibrated, Phases, OffOK, Always, TypeOK
<1>5. ~late' => PcOK' /\ OffOK'
  BY <1>1 DEF Phases, Mode, Serving, Setting, IsOff, Delivered, Running, OffOK, PcOK, ServingOK, OnOK, Always, TypeOK
<1>6. ~late' => OnOK'
  BY <1>1 DEF Phases, Mode, Serving, Setting, IsOff, Delivered, Running, OffOK, PcOK, ServingOK, OnOK, TypeOK
<1>7. ~late' => StoppedOK'
  BY <1>1 DEF Phases, Mode, Serving, Setting, IsOff, Delivered, Running, StoppedOK, Stopped, PcOK, OffOK, TypeOK
<1>8. ~late' => RunningOK'
  BY <1>1 DEF Phases, Mode, Serving, Setting, IsOff, Delivered, Running, StoppedOK, RunningOK, ServingOK, PcOK, OffOK, OnOK, Windowed, Flagged, Fresh, Stopped, Always, TypeOK
<1>9. ~late' => ServingOK'
  BY <1>1 DEF Phases, Mode, Serving, Setting, IsOff, Delivered, Running, RunningOK, ServingOK, PcOK, OffOK, OnOK, Windowed, Flagged, Copied, Fresh, Always, TypeOK
<1> QED
  BY <1>2, <1>3, <1>4, <1>5, <1>6, <1>7, <1>8, <1>9 DEF IInv, Phases

\* A drift of the oscillator.
LEMMA DriftStep ==
  ASSUME IInv, Drift
  PROVE  IInv'
<1> USE DEF Drift, osc, counters, results, tuning, host, osc
<1>1. TypeOK /\ Always /\ (~late => Calibrated /\ Phases)
  BY DEF IInv
<1>2. TypeOK'
  <2>1. gain' \in Gains /\ centre' \in Centres /\ drifts' \in 0 .. MaxDrifts
    BY <1>1, BoundsAssumption DEF TypeOK
  <2>2. hw' \in Registers /\ ctrl_reg' \in Registers
    BY <1>1 DEF TypeOK, Registers
  <2>3. /\ count' \in [Windows -> {Idle} \cup Nat] /\ \A w \in Windows : count'[w] <= w
        /\ own' \in [Windows -> BOOLEAN] /\ hold' \in BOOLEAN
    BY <1>1 DEF TypeOK
  <2>4. /\ error' \in [Windows -> Measurements] /\ error_v' \in [Windows -> BOOLEAN]
        /\ irq' \in BOOLEAN
        /\ pkt' \in [error : [Windows -> Measurements], flag : [Windows -> BOOLEAN]]
    BY <1>1 DEF TypeOK
  <2>5. /\ point' \in [0 .. 1 -> Measurements] /\ dac' \in DacValues
        /\ tune_state' \in {"MIN", "MAX", "DONE", "FINE"}
        /\ en' \in BOOLEAN /\ tamer_en' \in BOOLEAN /\ ready' \in BOOLEAN
        /\ late' \in BOOLEAN /\ switches' \in 0 .. MaxSwitches
    BY <1>1, BoundsAssumption DEF TypeOK
  <2> QED
    BY <1>1, <2>1, <2>2, <2>3, <2>4, <2>5 DEF TypeOK, Registers
<1>3. Always'
  BY <1>1 DEF Always, TypeOK
<1>4. ~late' => Calibrated'
  BY <1>1 DEF Calibrated, Phases, OffOK, Always, TypeOK
<1>5. ~late' => PcOK' /\ OffOK'
  BY <1>1 DEF Phases, Mode, Serving, Setting, IsOff, Delivered, Running, OffOK, PcOK, ServingOK, OnOK, Always, TypeOK
<1>6. ~late' => OnOK'
  BY <1>1 DEF Phases, Mode, Serving, Setting, IsOff, Delivered, Running, OffOK, PcOK, ServingOK, OnOK, TypeOK
<1>7. ~late' => StoppedOK'
  BY <1>1 DEF Phases, Mode, Serving, Setting, IsOff, Delivered, Running, StoppedOK, Stopped, PcOK, OffOK, TypeOK
<1>8. ~late' => RunningOK'
  BY <1>1 DEF Phases, Mode, Serving, Setting, IsOff, Delivered, Running, StoppedOK, RunningOK, ServingOK, PcOK, OffOK, OnOK, Windowed, Flagged, Fresh, Stopped, Always, TypeOK
<1>9. ~late' => ServingOK'
  BY <1>1 DEF Phases, Mode, Serving, Setting, IsOff, Delivered, Running, RunningOK, ServingOK, PcOK, OffOK, OnOK, Windowed, Flagged, Copied, Fresh, Always, TypeOK
<1> QED
  BY <1>2, <1>3, <1>4, <1>5, <1>6, <1>7, <1>8, <1>9 DEF IInv, Phases


\* A pulse of the reference.
LEMMA PulseStep ==
  ASSUME IInv, Pulse
  PROVE  IInv'
<1> USE DEF Pulse, results, tuning, host, osc
<1>1. TypeOK /\ Always /\ (~late => Calibrated /\ Phases)
  BY DEF IInv
<1>2. \A w \in Windows : NextCount(w) = count[w] + 1 /\ NextCount(w) \in Nat /\ NextCount(w) <= w
  BY <1>1, WindowsAssumption DEF TypeOK, NextCount, Idle
<1>3. /\ count' = [w \in Windows |-> NextCount(w)] /\ \A w \in Windows : count'[w] = count[w] + 1
      /\ \A w \in Windows : own'[w] = (count[w] = Idle \/ own[w])
  BY <1>2
<1>4. TypeOK'
  <2>1. count' \in [Windows -> {Idle} \cup Nat] /\ \A w \in Windows : count'[w] <= w
    BY <1>2
  <2>2. own' \in [Windows -> BOOLEAN]
    BY <1>1 DEF TypeOK
  <2> QED
    BY <1>1, <2>1, <2>2 DEF TypeOK
<1>5. Always' /\ (~late' => Calibrated')
  BY <1>1 DEF Always, Calibrated
<1>6. ~late => /\ ~Delivered /\ ~hold
               /\ pc \notin {"isr_read", "isr_clear", "mode_release", "mode_on"} \cup Setting
  BY <1>1 DEF Phases, StoppedOK, Stopped
<1>7. ~late' => PcOK' /\ OffOK' /\ OnOK' /\ StoppedOK'
  BY <1>1, <1>6 DEF Phases, Mode, Serving, Setting, IsOff, Delivered, PcOK, OffOK, OnOK, StoppedOK
<1>8. ~late' => RunningOK'
  <2> SUFFICES ASSUME ~late, Running PROVE hw.irq_en /\ Windowed' /\ Flagged'
    BY DEF RunningOK, Running
  <2>1. hw.irq_en /\ Windowed /\ Flagged
    BY <1>1 DEF Phases, RunningOK
  <2>2. Flagged' /\ (Fresh <=> Fresh') /\ irq' = irq
    BY <2>1 DEF Flagged, Fresh
  <2>3. \A w \in Windows : own'[w]
    BY <1>3, <2>1 DEF Windowed
  <2>4. ~Fresh' => \A w \in Windows : count'[w] = count'[1]
    BY <1>3, <2>1, <2>2, DacRange DEF Windowed
  <2> QED
    BY <2>1, <2>2, <2>3, <2>4 DEF Windowed
<1>9. ~late' => ServingOK'
  BY <1>1, <1>6 DEF Phases, Setting, Delivered, ServingOK, Fresh, Flagged, Copied
<1> QED
  BY <1>4, <1>5, <1>7, <1>8, <1>9 DEF IInv, Phases

\* A full window gives its result.  A window longer than a second is full
\* after that of one second had its result.
LEMMA CountValidStep ==
  ASSUME IInv, NEW w \in Windows, CountValid(w)
  PROVE  IInv'
<1> USE DEF CountValid, results, tuning, host, osc
<1>1. TypeOK /\ Always /\ (~late => Calibrated /\ Phases)
  BY DEF IInv
<1>2. w \in Nat /\ w # 0 /\ 1 \in Windows /\ Windows \subseteq Nat \ {0}
  BY WindowsAssumption
<1>3. Hz(w) \in Int /\ Over(w) \in BOOLEAN
  BY <1>1, HzInt DEF Over
<1> DEFINE m == [hz |-> Hz(w), at |-> dac, own |-> own[w]]
<1>4. m \in Measurements
  BY <1>1, <1>3 DEF TypeOK, Measurements
<1>5. /\ count' = [count EXCEPT ![w] = Idle]
      /\ hw.irq_en => /\ error' = [error EXCEPT ![w] = m]
                      /\ error_v' = [error_v EXCEPT ![w] = error_v[w] \/ Over(w)]
                      /\ irq' = (irq \/ Over(w))
      /\ ~hw.irq_en => error' = error /\ error_v' = error_v /\ irq' = irq
      /\ m.at = dac /\ m.own = own[w]
  OBVIOUS
<1> HIDE DEF m
<1>6. TypeOK'
  <2>1. count' \in [Windows -> {Idle} \cup Nat] /\ \A v \in Windows : count'[v] <= v
    BY <1>1, <1>2, <1>5 DEF TypeOK, Idle
  <2>2. /\ error' \in [Windows -> Measurements] /\ error_v' \in [Windows -> BOOLEAN]
        /\ irq' \in BOOLEAN
    <3> HIDE DEF CountValid
    <3>1. CASE hw.irq_en
      BY <1>1, <1>3, <1>4, <1>5, <3>1 DEF TypeOK
    <3>2. CASE ~hw.irq_en
      BY <1>1, <1>5, <3>2 DEF TypeOK
    <3> QED
      BY <3>1, <3>2
  <2> QED
    BY <1>1, <2>1, <2>2 DEF TypeOK
<1>7. Always'
  <2> SUFFICES ASSUME ~irq' PROVE \A v \in Windows : ~error_v'[v]
    BY <1>1 DEF Always
  <2> QED
    BY <1>1, <1>5 DEF Always, TypeOK
<1>8. ~late' => Calibrated'
  BY <1>1 DEF Calibrated
<1>9. count[w] # Idle
  BY <1>2 DEF Idle
<1>10. ~late => ~Delivered /\ pc \notin {"isr_read", "isr_clear", "mode_release", "mode_on"} \cup Setting
  BY <1>1, <1>9 DEF Phases, StoppedOK, Stopped
<1>11. ~late' => PcOK' /\ OffOK' /\ OnOK' /\ StoppedOK'
  BY <1>1, <1>5, <1>10 DEF Phases, Mode, Serving, Setting, IsOff, Delivered, PcOK, OffOK, OnOK, StoppedOK
<1>12. ~late /\ Running => hw.irq_en /\ Windowed' /\ Flagged' /\ (pc = "isr_off" => irq')
  <2> SUFFICES ASSUME ~late, Running
               PROVE  hw.irq_en /\ Windowed' /\ Flagged' /\ (pc = "isr_off" => irq')
    OBVIOUS
  <2>1. hw.irq_en /\ Windowed /\ Flagged /\ (pc = "isr_off" => irq)
    BY <1>1 DEF Phases, RunningOK, ServingOK
  <2>2. own[w] /\ m.own
    BY <1>5, <1>9, <2>1 DEF Windowed
  <2>3. w # 1 => Fresh
    <3> SUFFICES ASSUME w # 1, ~Fresh PROVE FALSE
      OBVIOUS
    <3>1. count[w] = count[1] /\ count[1] <= 1 /\ count[w] = w
      BY <1>1, <1>2, <2>1 DEF Windowed, TypeOK
    <3> QED
      BY <1>2, <3>1
  <2>4. error' = [error EXCEPT ![w] = m] /\ dac' = dac /\ error \in [Windows -> Measurements]
    BY <1>1, <1>5, <2>1 DEF TypeOK
  <2>5. Fresh'
    BY <1>2, <1>5, <2>2, <2>3, <2>4 DEF Fresh
  <2>6. \A v \in Windows : count'[v] # Idle => own'[v]
    BY <1>1, <1>5, <2>1 DEF Windowed, TypeOK
  <2>7. Flagged'
    BY <1>1, <1>5, <2>1, <2>2, <2>4 DEF Flagged, TypeOK
  <2> QED
    BY <1>5, <2>1, <2>5, <2>6, <2>7 DEF Windowed
<1>13. ~late' => RunningOK'
  BY <1>12 DEF RunningOK, Running
<1>14. ~late' => ServingOK'
  <2>1. ~late /\ pc = "isr_off" => Running
    BY <1>1 DEF Phases, PcOK, Delivered, Mode, Serving, Running
  <2> QED
    BY <1>1, <1>5, <1>10, <1>12, <2>1 DEF Phases, Setting, Delivered, ServingOK, Fresh, Flagged, Copied
<1> QED
  BY <1>6, <1>7, <1>8, <1>11, <1>13, <1>14 DEF IInv, Phases

\* A new DAC value leaves no result that is of the present one.
LEMMA SetDacFacts ==
  ASSUME TypeOK, NEW y \in DacValues, SetDac(y)
  PROVE  /\ dac' = y /\ own' \in [Windows -> BOOLEAN]
         /\ error' \in [Windows -> Measurements]
         /\ pkt' \in [error : [Windows -> Measurements], flag : [Windows -> BOOLEAN]]
         /\ \A w \in Windows : ~error'[w].own
<1>1. ASSUME NEW ms \in [Windows -> Measurements]
      PROVE  /\ Disown(ms) \in [Windows -> Measurements]
             /\ \A w \in Windows : ~Disown(ms)[w].own
  BY DEF Disown, Measurements
<1>2. error \in [Windows -> Measurements] /\ pkt.error \in [Windows -> Measurements]
  BY DEF TypeOK
<1> HIDE DEF Disown
<1>3. pkt' = [pkt EXCEPT !.error = Disown(pkt.error)] /\ error' = Disown(error)
  BY DEF SetDac
<1>4. pkt' \in [error : [Windows -> Measurements], flag : [Windows -> BOOLEAN]]
  BY <1>1, <1>2, <1>3 DEF TypeOK
<1> QED
  BY <1>1, <1>2, <1>3, <1>4 DEF SetDac

\* What holds when a packet is used and after it, whatever the tuning state:
\* the counters stand and have left no flag.
LEMMA TuningFacts ==
  ASSUME IInv, pc = "tune", ready, ~late
  PROVE  /\ tamer_en /\ Stopped /\ ~irq /\ (\A w \in Windows : ~error_v[w])
         /\ tune_state = "MIN" \/ Copied
         /\ Calibrated
         /\ tune_state = "MAX" => dac = Min
         /\ tune_state = "DONE" => dac = Max
<1>1. TypeOK /\ Always /\ Calibrated /\ Phases
  BY DEF IInv
<1>2. Delivered
  BY DEF Delivered
<1>3. ~irq /\ Stopped /\ (tune_state = "MIN" \/ Copied)
  BY <1>1, <1>2 DEF Phases, StoppedOK, ServingOK
<1>4. tamer_en
  BY <1>1 DEF Phases, OffOK, IsOff, Mode, TypeOK
<1> QED
  BY <1>1, <1>3, <1>4 DEF Always, Phases, OnOK

\* A step of tuning keeps the invariant when it brings a state of tuning with
\* its DAC value and calibration points.
LEMMA TuningKeeps ==
  ASSUME IInv, NEW state, Step(state), TypeOK',
         ~late => /\ tune_state' # "MIN" /\ Calibrated'
                  /\ tune_state' = "MAX" => dac' = Min
                  /\ tune_state' = "DONE" => dac' = Max
  PROVE  IInv'
<1>1. TypeOK /\ Always
  BY DEF IInv
<1>2. Always'
  BY <1>1 DEF Step, Always
<1>3. ASSUME ~late PROVE Phases'
  <2>1. tamer_en /\ Stopped /\ ~irq /\ \A w \in Windows : ~error_v[w]
    BY <1>3, TuningFacts DEF Step
  <2>2. PcOK' /\ OffOK'
    BY <2>1 DEF Step, PcOK, OffOK, IsOff, Mode, Serving, Setting, Delivered
  <2>3. OnOK'
    BY <1>3 DEF Step, OnOK
  <2>4. StoppedOK'
    BY <2>1 DEF Step, StoppedOK, Stopped, Setting, Delivered
  <2>5. RunningOK' /\ ServingOK'
    BY <2>1 DEF Step, RunningOK, Running, ServingOK, Delivered, Setting
  <2> QED
    BY <2>2, <2>3, <2>4, <2>5 DEF Phases
<1>4. late' = late
  BY DEF Step
<1> QED
  BY <1>2, <1>3, <1>4 DEF IInv

\* A step of tuning keeps the types if it keeps those of what it computes.
LEMMA TuningTypes ==
  ASSUME TypeOK, NEW state, Step(state),
         dac' \in DacValues, own' \in [Windows -> BOOLEAN],
         error' \in [Windows -> Measurements],
         pkt' \in [error : [Windows -> Measurements], flag : [Windows -> BOOLEAN]],
         point' \in [0 .. 1 -> Measurements], tune_state' \in {"MIN", "MAX", "DONE", "FINE"}
  PROVE  TypeOK'
<1>1. gain' \in Gains /\ centre' \in Centres /\ drifts' \in 0 .. MaxDrifts
  BY DEF TypeOK, Step, osc
<1>2. /\ hw' \in [reset : BOOLEAN, irq_en : BOOLEAN, pps : BOOLEAN]
      /\ ctrl_reg' \in [reset : BOOLEAN, irq_en : BOOLEAN, pps : BOOLEAN]
      /\ hold' \in BOOLEAN
  BY DEF TypeOK, Step
<1>3. count' \in [Windows -> {Idle} \cup Nat] /\ \A w \in Windows : count'[w] <= w
  BY DEF TypeOK, Step
<1>4. error_v' \in [Windows -> BOOLEAN] /\ irq' \in BOOLEAN /\ tamer_en' \in BOOLEAN
  BY DEF TypeOK, Step
<1>5. ready' \in BOOLEAN /\ late' \in BOOLEAN /\ en' \in BOOLEAN /\ switches' \in 0 .. MaxSwitches
  BY DEF TypeOK, Step, host
<1>6. pc' = "release"
  BY DEF Step
<1> QED
  BY <1>1, <1>2, <1>3, <1>4, <1>5, <1>6 DEF TypeOK

\* The first coarse step.
LEMMA CoarseTuneMinStep ==
  ASSUME IInv, CoarseTuneMin
  PROVE  IInv'
<1>1. TypeOK /\ SetDac(Min) /\ Step("MIN")
  BY DEF IInv, CoarseTuneMin
<1>2. /\ dac' = Min /\ own' \in [Windows -> BOOLEAN] /\ error' \in [Windows -> Measurements]
      /\ pkt' \in [error : [Windows -> Measurements], flag : [Windows -> BOOLEAN]]
  BY <1>1, SetDacFacts, DacRange
<1>3. TypeOK'
  <2>1. point' \in [0 .. 1 -> Measurements] /\ tune_state' = "MAX"
    BY <1>1 DEF CoarseTuneMin, TypeOK
  <2> QED
    BY <1>1, <1>2, <2>1, DacRange, TuningTypes
<1>4. tune_state' = "MAX" /\ Calibrated'
  BY DEF CoarseTuneMin, Calibrated
<1> QED
  BY <1>1, <1>2, <1>3, <1>4, TuningKeeps

\* The second: its packet is of the DAC's minimum.
LEMMA CoarseTuneMaxStep ==
  ASSUME IInv, CoarseTuneMax
  PROVE  IInv'
<1>1. TypeOK /\ SetDac(Max) /\ Step("MAX") /\ tune_state = "MAX" /\ pc = "tune" /\ ready
  BY DEF IInv, CoarseTuneMax, Step
<1>2. /\ dac' = Max /\ own' \in [Windows -> BOOLEAN] /\ error' \in [Windows -> Measurements]
      /\ pkt' \in [error : [Windows -> Measurements], flag : [Windows -> BOOLEAN]]
  BY <1>1, SetDacFacts, DacRange
<1>3. point' = [point EXCEPT ![0] = pkt.error[1]] /\ pkt.error[1] \in Measurements
      /\ point \in [0 .. 1 -> Measurements] /\ tune_state' = "DONE"
  BY <1>1, DacRange DEF CoarseTuneMax, TypeOK
<1>4. TypeOK'
  <2>1. point' \in [0 .. 1 -> Measurements]
    BY <1>3
  <2> QED
    BY <1>1, <1>2, <1>3, <2>1, DacRange, TuningTypes
<1>5. ~late => Calibrated'
  <2> SUFFICES ASSUME ~late PROVE Calibrated'
    OBVIOUS
  <2>1. Copied /\ dac = Min
    BY <1>1, TuningFacts
  <2>2. point'[0].own /\ point'[0].at = Min
    BY <1>3, <2>1 DEF Copied
  <2> QED
    BY <1>3, <2>2 DEF Calibrated
<1> QED
  BY <1>1, <1>2, <1>3, <1>4, <1>5, TuningKeeps

\* The third: its packet is of the maximum, and the line is complete.
LEMMA CoarseTuneDoneStep ==
  ASSUME IInv, CoarseTuneDone
  PROVE  IInv'
<1>1. TypeOK /\ Step("DONE") /\ tune_state = "DONE" /\ pc = "tune" /\ ready
  BY DEF IInv, CoarseTuneDone, Step
<1>2. PICK y \in Intercept(point[0].hz, pkt.error[1].hz) : SetDac(y)
  BY DEF CoarseTuneDone
<1>3. point' = [point EXCEPT ![1] = pkt.error[1]] /\ pkt.error[1] \in Measurements
      /\ point \in [0 .. 1 -> Measurements] /\ tune_state' = "FINE"
  BY <1>1, DacRange DEF CoarseTuneDone, TypeOK
<1>4. y \in DacValues
  <2>1. point[0].hz \in Int /\ pkt.error[1].hz \in Int
    BY <1>3 DEF Measurements
  <2> QED
    BY <1>2, <2>1, InterceptRange
<1>5. /\ dac' = y /\ own' \in [Windows -> BOOLEAN] /\ error' \in [Windows -> Measurements]
      /\ pkt' \in [error : [Windows -> Measurements], flag : [Windows -> BOOLEAN]]
  BY <1>1, <1>2, <1>4, SetDacFacts
<1>6. TypeOK'
  <2>1. point' \in [0 .. 1 -> Measurements]
    BY <1>3
  <2> QED
    BY <1>1, <1>3, <1>4, <1>5, <2>1, TuningTypes
<1>7. ~late => Calibrated'
  <2> SUFFICES ASSUME ~late PROVE Calibrated'
    OBVIOUS
  <2>1. Copied /\ dac = Max /\ Calibrated
    BY <1>1, TuningFacts
  <2>2. point'[1].own /\ point'[1].at = Max /\ point'[0] = point[0]
    BY <1>3, <2>1 DEF Copied
  <2> QED
    BY <1>1, <2>1, <2>2 DEF Calibrated
<1> QED
  BY <1>1, <1>3, <1>6, <1>7, TuningKeeps

\* A step of fine tuning, with or without a correction.
LEMMA FineTuneStep ==
  ASSUME IInv, FineTune
  PROVE  IInv'
<1>1. /\ TypeOK /\ Step("FINE") /\ tune_state = "FINE" /\ pc = "tune" /\ ready
      /\ tune_state' = tune_state /\ point' = point
  BY DEF IInv, FineTune, Step
<1>2. /\ dac' \in DacValues /\ own' \in [Windows -> BOOLEAN]
      /\ error' \in [Windows -> Measurements]
      /\ pkt' \in [error : [Windows -> Measurements], flag : [Windows -> BOOLEAN]]
  <2>1. CASE Deciding = {}
    BY <1>1, <2>1 DEF FineTune, TypeOK
  <2>2. CASE Deciding # {}
    <3>1. PICK w \in Deciding :
            \E y \in Corrected(dac, pkt.error[w].hz, w, point[0].hz, point[1].hz) : SetDac(y)
      BY <2>2 DEF FineTune
    <3>2. PICK y \in Corrected(dac, pkt.error[w].hz, w, point[0].hz, point[1].hz) : SetDac(y)
      BY <3>1
    <3>3. w \in Windows
      BY DEF Deciding
    <3>4. /\ dac \in DacValues /\ pkt.error[w] \in Measurements
          /\ point[0] \in Measurements /\ point[1] \in Measurements
      BY <1>1, <3>3 DEF TypeOK
    <3>5. pkt.error[w].hz \in Int /\ point[0].hz \in Int /\ point[1].hz \in Int
      BY <3>4 DEF Measurements
    <3>6. y \in DacValues
      BY <3>2, <3>3, <3>4, <3>5, CorrectedRange
    <3> QED
      BY <1>1, <3>2, <3>6, SetDacFacts
  <2> QED
    BY <2>1, <2>2
<1>3. TypeOK'
  <2>1. point' \in [0 .. 1 -> Measurements] /\ tune_state' = "FINE"
    BY <1>1 DEF TypeOK
  <2> QED
    BY <1>1, <1>2, <2>1, TuningTypes
<1>4. ~late => Calibrated'
  <2>1. ~late => Calibrated
    BY DEF IInv
  <2> QED
    BY <1>1, <2>1 DEF Calibrated
<1> QED
  BY <1>1, <1>3, <1>4, TuningKeeps

-----------------------------------------------------------------------------
(* The theorems.                                                           *)

\* The tamer starts off, with the counters in reset.
LEMMA InitInv == ASSUME Init PROVE IInv
<1>1. Never \in Measurements
  BY DacRange, RangeAssumption DEF Never, Measurements, DacValues
<1>2. TypeOK
  <2>1. count \in [Windows -> {Idle} \cup Nat] /\ \A w \in Windows : count[w] <= w
    BY WindowsAssumption DEF Init, Idle
  <2>2. drifts \in 0 .. MaxDrifts /\ switches \in 0 .. MaxSwitches
    BY BoundsAssumption DEF Init
  <2>3. dac \in DacValues
    BY DacRange DEF Init
  <2> QED
    BY <1>1, <2>1, <2>2, <2>3 DEF Init, TypeOK
<1>3. Always /\ Calibrated
  BY DEF Init, Always, Calibrated
<1>4. Phases
  BY DEF Init, Phases, PcOK, OffOK, OnOK, StoppedOK, RunningOK, ServingOK, IsOff, Mode, Serving,
         Setting, Delivered, Running
<1> QED
  BY <1>2, <1>3, <1>4 DEF IInv

\* Every step keeps the invariant.
LEMMA NextInv == ASSUME IInv, [Next]_vars PROVE IInv'
<1>1. CASE Next
  <2>1. CASE Poll \/ IsrOff \/ IsrReset \/ IsrRead \/ IsrClear
    BY <2>1, PollStep, IsrOffStep, IsrResetStep, IsrReadStep, IsrClearStep
  <2>2. CASE SeeEnable \/ ModeOff \/ ModeSet \/ ModeReset \/ ModeRelease \/ ModeOn
    BY <2>2, SeeEnableStep, ModeOffStep, ModeSetStep, ModeResetStep, ModeReleaseStep, ModeOnStep
  <2>3. CASE Tune
    BY <2>3, NotReadyStep, CoarseTuneMinStep, CoarseTuneMaxStep, CoarseTuneDoneStep, FineTuneStep
       DEF Tune
  <2>4. CASE Release \/ IrqOn \/ Dispatch
    BY <2>4, ReleaseStep, IrqOnStep, DispatchStep
  <2>5. CASE Drift \/ HoldEnds \/ Pulse
    BY <2>5, DriftStep, HoldEndsStep, PulseStep
  <2>6. CASE \E w \in Windows : CountValid(w)
    BY <2>6, CountValidStep
  <2> QED
    BY <1>1, <2>1, <2>2, <2>3, <2>4, <2>5, <2>6 DEF Next, Firmware
<1>2. CASE UNCHANGED vars
  BY <1>2 DEF vars, osc, counters, results, tuning, host, IInv, TypeOK, Always, Calibrated, Phases,
     PcOK, OffOK, OnOK, StoppedOK, RunningOK, ServingOK, IsOff, Delivered, Running, Stopped,
     Windowed, Flagged, Copied, Fresh
<1> QED
  BY <1>1, <1>2

\* The invariant, with the type correctness of the tamer, holds in every state.
THEOREM TamerInductive == Spec => []IInv
BY InitInv, NextInv, PTL DEF Spec

\* Every decision of the tuning is by a measurement of the DAC value it is
\* about, however the service routine, the edges of the enable bit and the
\* pulses meet in a pass of the main loop.
THEOREM DecidesByOwn == Spec => []OwnMeasurements
<1>1. IInv => OwnMeasurements
  <2> SUFFICES ASSUME IInv, ~late, pc = "tune", ready, tune_state = "FINE", NEW w \in Deciding
               PROVE  pkt.error[w].at = dac /\ pkt.error[w].own
    BY DEF IInv, OwnMeasurements, CorrectsOwnError
  <2>1. Copied
    BY TuningFacts
  <2> QED
    BY <2>1 DEF Copied, Deciding
<1> QED
  BY <1>1, TamerInductive, PTL

-----------------------------------------------------------------------------
(* The corrections.  What the counters report, the slope of the line and   *)
(* the correction are quotients, rounded; a value written w for a window,  *)
(* d for how far the DAC is off, e for an error, D for the errors' span.   *)

\* Products keep an order.
LEMMA Products ==
  /\ \A k \in Nat, a, b \in Int : a <= b => k * a <= k * b
  /\ \A k \in Nat \ {0}, a, b \in Int : k * a <= k * b => a <= b
  /\ \A k \in Nat \ {0}, a, b \in Int : k * a < k * b => a < b
<1>1. \A k \in Nat, a, b \in Int : a <= b => k * a <= k * b
  OBVIOUS
<1>2. \A k \in Nat \ {0}, a, b \in Int : k * a <= k * b => a <= b
  OBVIOUS
<1>3. \A k \in Nat \ {0}, a, b \in Int : k * a < k * b => a < b
  OBVIOUS
<1> QED
  BY <1>1, <1>2, <1>3

\* A quotient and what it leaves.
LEMMA Quotient ==
  ASSUME NEW x \in Int, NEW k \in Nat \ {0}
  PROVE  /\ x \div k \in Int /\ k * (x \div k) <= x /\ x < k * (x \div k) + k
         /\ x >= 0 => x \div k >= 0
OBVIOUS

\* A rounded quotient is within a half of the quotient.
LEMMA RoundNear ==
  ASSUME NEW x \in Int, NEW k \in Nat \ {0}
  PROVE  /\ Round(x, k) \in Int
         /\ 2 * x <= 2 * (k * Round(x, k)) + k /\ 2 * (k * Round(x, k)) <= 2 * x + k
         /\ x >= 0 => Round(x, k) >= 0
         /\ x <= 0 => Round(x, k) <= 0
<1>0. 2 * k \in Nat \ {0} /\ k - 2 * x \in Int /\ k + 2 * x \in Int
  OBVIOUS
<1>1. CASE x < 0
  <2> DEFINE u == (k - 2 * x) \div (2 * k)
  <2>1. Round(x, k) = -u
    BY <1>1 DEF Round, Nearest
  <2>2. /\ u \in Int /\ (2 * k) * u <= k - 2 * x /\ k - 2 * x < (2 * k) * u + 2 * k
        /\ k - 2 * x >= 0 => u >= 0
    BY <1>0, Quotient
  <2> HIDE DEF u
  <2>3. (2 * k) * u = 2 * (k * u) /\ k * (-u) = -(k * u) /\ k * u \in Int
    BY <2>2
  <2> QED
    BY <1>1, <2>1, <2>2, <2>3
<1>2. CASE x >= 0
  <2> DEFINE u == (k + 2 * x) \div (2 * k)
  <2>1. Round(x, k) = u
    BY <1>2 DEF Round, Nearest
  <2>2. /\ u \in Int /\ (2 * k) * u <= k + 2 * x /\ k + 2 * x < (2 * k) * u + 2 * k
        /\ k + 2 * x >= 0 => u >= 0
    BY <1>0, Quotient
  <2> HIDE DEF u
  <2>3. (2 * k) * u = 2 * (k * u) /\ k * u \in Int
    BY <2>2
  <2>4. x = 0 => u = 0
    <3>1. ASSUME x = 0, u >= 1 PROVE FALSE
      <4>1. k * 1 <= k * u
        BY <2>2, <3>1, Products
      <4> QED
        BY <2>2, <2>3, <3>1, <4>1
    <3> QED
      BY <2>2, <3>1, <1>2
  <2> QED
    BY <1>2, <2>1, <2>2, <2>3, <2>4
<1> QED
  BY <1>1, <1>2

\* A truncated quotient is the quotient towards zero.
LEMMA TruncateNear ==
  ASSUME NEW x \in Int, NEW k \in Nat \ {0}
  PROVE  /\ Truncate(x, k) \in Int
         /\ x >= 0 => k * Truncate(x, k) <= x /\ x < k * Truncate(x, k) + k
         /\ x <= 0 => k * (-Truncate(x, k)) <= -x /\ -x < k * (-Truncate(x, k)) + k
<1>1. CASE x < 0
  <2> DEFINE u == (-x) \div k
  <2>1. Truncate(x, k) = -u /\ -x \in Int
    BY <1>1 DEF Truncate
  <2>2. u \in Int /\ k * u <= -x /\ -x < k * u + k
    BY <2>1, Quotient
  <2> HIDE DEF u
  <2> QED
    BY <1>1, <2>1, <2>2
<1>2. CASE x >= 0
  <2> DEFINE u == x \div k
  <2>1. Truncate(x, k) = u
    BY <1>2 DEF Truncate
  <2>2. u \in Int /\ k * u <= x /\ x < k * u + k
    BY Quotient
  <2> HIDE DEF u
  <2>3. x = 0 => u = 0
    <3>1. ASSUME x = 0, u >= 1 PROVE FALSE
      <4>1. k * 1 <= k * u
        BY <2>2, <3>1, Products
      <4> QED
        BY <2>2, <3>1, <4>1
    <3>2. ASSUME x = 0, u <= -1 PROVE FALSE
      <4>1. k * u <= k * (-1)
        BY <2>2, <3>2, Products
      <4> QED
        BY <2>2, <3>2, <4>1
    <3> QED
      BY <2>2, <3>1, <3>2
  <2> QED
    BY <1>2, <2>1, <2>2, <2>3
<1> QED
  BY <1>1, <1>2

\* A remainder, and that there is no other.
LEMMA Remainder ==
  ASSUME NEW N \in Nat \ {0}
  PROVE  /\ \A x \in Int : \E k \in Int : N * k \in Int /\ x % N = x - N * k
         /\ \A k \in Int : \A z \in 0 .. N - 1 : (z + N * k) % N = z
<1>1. ASSUME NEW x \in Int
      PROVE  x % N = x - N * (x \div N) /\ x \div N \in Int /\ x % N \in 0 .. N - 1
  <2>1. x % N = x - N * (x \div N)
    OBVIOUS
  <2>2. x \div N \in Int /\ x % N \in 0 .. N - 1
    OBVIOUS
  <2> QED
    BY <2>1, <2>2
<1>2. ASSUME NEW x \in Int
      PROVE  \E k \in Int : N * k \in Int /\ x % N = x - N * k
  <2>1. N * (x \div N) \in Int
    BY <1>1
  <2> QED
    BY <1>1, <2>1
<1>3. ASSUME NEW k \in Int, NEW z \in 0 .. N - 1
      PROVE  (z + N * k) % N = z
  <2> DEFINE v == z + N * k
             r == v % N
  <2>1. v \in Int /\ N * k \in Int /\ z \in Int
    OBVIOUS
  <2> HIDE DEF v
  <2>2. PICK j \in Int : N * j \in Int /\ r = v - N * j
    BY <1>2, <2>1
  <2>3. r \in 0 .. N - 1
    BY <1>1, <2>1
  <2> HIDE DEF r
  <2>4. N * (j - k) = N * j - N * k /\ j - k \in Int
    OBVIOUS
  <2>5. N * (j - k) = z - r
    BY <2>1, <2>2, <2>3, <2>4 DEF v
  <2>6. N * (j - k) < N * 1 /\ N * (-1) < N * (j - k)
    BY <2>3, <2>5
  <2>7. j - k < 1 /\ -1 < j - k
    BY <2>4, <2>6, Products
  <2>8. j = k
    BY <2>7
  <2> QED
    BY <2>1, <2>2, <2>8 DEF v, r
<1> QED
  BY <1>2, <1>3

\* Conversion to the width of the DAC leaves its values as they are, even when
\* what is subtracted has been converted before.
LEMMA NoWrap ==
  ASSUME NEW x \in Int, NEW s \in Int, x - s \in DacValues
  PROVE  Unsigned(x - Unsigned(s)) = x - s /\ Unsigned(x - s) = x - s
<1> DEFINE N == 2^Width
           z == x - s
<1>1. N \in Nat \ {0} /\ z \in 0 .. N - 1
  BY RangeAssumption DEF DacValues
<1> HIDE DEF N
<1>2. PICK k \in Int : N * k \in Int /\ s % N = s - N * k
  BY <1>1, Remainder
<1>3. x - (s % N) = z + N * k
  BY <1>2
<1> HIDE DEF z
<1>4. \A j \in Int : (z + N * j) % N = z
  BY <1>1, Remainder
<1>5. z + N * 0 = z
  BY <1>1
<1>6. z % N = z
  BY <1>4, <1>5
<1>7. (x - (s % N)) % N = z
  BY <1>3, <1>4
<1> QED
  BY <1>6, <1>7 DEF N, z, Unsigned

\* How far a correction by s goes that is drawn from an error e, itself rounded:
\* the DAC being off by d, it goes the right way and less than twice as far,
\* and if it goes beyond the centre, then by less than the DAC has room.
LEMMA CorrectionSize ==
  ASSUME NEW p \in Nat \ {0}, NEW q \in Nat \ {0}, NEW w \in Nat \ {0},
         NEW R \in Nat \ {0}, NEW D \in Int, NEW T \in Nat,
         NEW d \in Nat, NEW e \in Int, NEW n \in Int, NEW s \in Int,
         5 * q <= p * R, w * p <= T * q, T < e,
         p * R <= q * D + q, q * D <= p * R + q,
         2 * (w * p * d) <= 2 * (q * e) + q, 2 * (q * e) <= 2 * (w * p * d) + q,
         2 * (e * R) <= 2 * (D * n) + D, 2 * (D * n) <= 2 * (e * R) + D,
         w * s <= n, n < w * s + w
  PROVE  /\ 0 < s /\ s < 2 * d
         /\ \A B, room \in Nat :
               d <= B /\ q * (2 * B + R) <= (2 * room - 1) * (p * R - q) => s <= d + room
<1>1. D >= 4
  <2>1. q * 4 <= q * D
    OBVIOUS
  <2> QED
    BY <2>1, Products
<1>2. w * p * d \in Nat /\ w * p \in Nat \ {0} /\ q * e \in Int /\ q * T \in Nat /\ T * q = q * T
  OBVIOUS
<1>3. T >= 1
  <2>1. T # 0
    BY <1>2
  <2> QED
    BY <2>1
<1>4. q * T + q <= q * e
  <2>1. q * (T + 1) <= q * e
    BY Products
  <2> QED
    BY <1>2, <2>1
<1>5. 2 * (w * p) + q <= 2 * (w * p * d) /\ 3 * q <= 2 * (w * p * d)
  <2>1. q * 1 <= q * T
    BY <1>3, Products
  <2> QED
    BY <1>2, <1>4, <2>1
<1>6. d >= 2
  <2>1. (w * p) * 1 < (w * p) * d
    BY <1>2, <1>5
  <2>2. 1 < d
    BY <1>2, <2>1, Products
  <2> QED
    BY <2>2
<1>7. n >= w
  <2> SUFFICES ASSUME n <= w - 1 PROVE FALSE
    OBVIOUS
  <2> DEFINE a == w * p * R
             b == q * R
             c == p * R
             f == w * q
             g == e * q * R
  <2>1. a \in Nat /\ b \in Nat /\ c \in Nat /\ f \in Nat /\ g \in Int
    OBVIOUS
  <2>2. 2 * (e * R) <= (2 * w - 1) * D
    <3>1. D * n <= D * (w - 1)
      BY <1>1, Products
    <3> QED
      BY <1>1, <3>1
  <2>3. 2 * g <= (2 * w - 1) * (c + q)
    <3>1. q * (2 * (e * R)) <= q * ((2 * w - 1) * D)
      BY <1>1, <2>2, Products
    <3>2. (2 * w - 1) * (q * D) <= (2 * w - 1) * (c + q)
      BY <1>1, Products
    <3>3. q * (2 * (e * R)) = 2 * g /\ q * ((2 * w - 1) * D) = (2 * w - 1) * (q * D)
      OBVIOUS
    <3> QED
      BY <3>1, <3>2, <3>3, <1>1, <2>1
  <2>4. (2 * w - 1) * (c + q) = 2 * a + 2 * f - c - q
    OBVIOUS
  <2>5. a + b <= g
    <3>1. w * p + q <= q * e
      BY <1>2, <1>4
    <3>2. R * (w * p + q) <= R * (q * e)
      BY <1>2, <3>1, Products
    <3>3. R * (w * p + q) = a + b /\ R * (q * e) = g
      OBVIOUS
    <3> QED
      BY <3>2, <3>3
  <2>6. 4 * a - b <= 2 * g
    <3>1. (w * p) * 2 <= (w * p) * d
      BY <1>2, <1>6, Products
    <3>2. 4 * (w * p) - q <= 2 * (q * e)
      BY <1>2, <3>1
    <3>3. R * (4 * (w * p) - q) <= R * (2 * (q * e))
      BY <1>2, <3>2, Products
    <3>4. R * (4 * (w * p) - q) = 4 * a - b /\ R * (2 * (q * e)) = 2 * g
      OBVIOUS
    <3> QED
      BY <3>3, <3>4
  <2>7. 5 * f <= a
    <3>1. w * (5 * q) <= w * c
      BY Products
    <3>2. w * (5 * q) = 5 * f /\ w * c = a
      OBVIOUS
    <3> QED
      BY <3>1, <3>2
  <2> HIDE DEF a, b, c, f, g
  <2> QED
    BY <2>1, <2>3, <2>4, <2>5, <2>6, <2>7
<1>8. 0 < s
  <2>1. w * 0 < w * (s + 1)
    BY <1>7
  <2>2. 0 < s + 1
    BY <2>1, Products
  <2>3. s # 0
    BY <1>7
  <2> QED
    BY <2>2, <2>3
<1>9. 2 * (D * w * s) <= 2 * (w * d * D) + 2 * (w * d) + R + D
  <2> DEFINE X == w * d
             u == D * w * s
  <2>1. X \in Nat /\ u \in Int /\ u <= D * n
    <3>1. D * (w * s) <= D * n
      BY <1>1, Products
    <3> QED
      BY <1>1, <3>1
  <2>2. 2 * u <= 2 * (e * R) + D
    BY <1>1, <2>1
  <2>3. q * (2 * u) <= q * (2 * (e * R) + D)
    BY <1>1, <2>1, <2>2, Products
  <2>4. q * (2 * (e * R) + D) <= q * (2 * (X * D) + 2 * X + R + D)
    <3>1. R * (2 * (q * e)) <= R * (2 * (w * p * d) + q)
      BY <1>2, Products
    <3>2. (2 * X) * (p * R) <= (2 * X) * (q * D + q)
      BY <1>1, <2>1, Products
    <3>3. R * (2 * (w * p * d) + q) = (2 * X) * (p * R) + q * R
      OBVIOUS
    <3>4. (2 * X) * (q * D + q) = q * (2 * (X * D) + 2 * X)
      BY <1>1
    <3>5. q * (2 * (e * R) + D) = R * (2 * (q * e)) + q * D
      BY <1>1
    <3>6. q * (2 * (X * D) + 2 * X) + q * R + q * D = q * (2 * (X * D) + 2 * X + R + D)
      BY <1>1, <2>1
    <3> QED
      BY <3>1, <3>2, <3>3, <3>4, <3>5, <3>6, <1>1, <1>2, <2>1
  <2>5. q * (2 * u) <= q * (2 * (X * D) + 2 * X + R + D)
    BY <1>1, <2>1, <2>3, <2>4
  <2>6. 2 * u <= 2 * (X * D) + 2 * X + R + D
    BY <1>1, <2>1, <2>5, Products
  <2> QED
    BY <2>6
<1>10. s < 2 * d
  <2> SUFFICES ASSUME 2 * d <= s PROVE FALSE
    OBVIOUS
  <2> DEFINE X == 2 * (w * d)
  <2>1. X \in Nat /\ X >= 4
    <3>1. w * 2 <= w * d
      BY <1>6, Products
    <3> QED
      BY <3>1
  <2>2. X * D <= X + R + D
    <3>1. D * w \in Nat /\ (D * w) * (2 * d) <= (D * w) * s
      BY <1>1, Products
    <3>2. (D * w) * (2 * d) = X * D /\ 2 * (w * d * D) = X * D
      BY <1>1
    <3> QED
      BY <1>1, <1>9, <3>1, <3>2, <2>1
  <2>3. 3 * R <= X * (D + 1)
    <3>1. 3 * (p * R) <= 3 * (q * (D + 1))
      BY <1>1
    <3>2. (D + 1) * (3 * q) <= (D + 1) * (2 * (w * p * d))
      BY <1>1, <1>2, <1>5, Products
    <3>3. p * (3 * R) <= p * (X * (D + 1))
      BY <1>1, <1>2, <3>1, <3>2
    <3> QED
      BY <1>1, <2>1, <3>3, Products
  <2>4. 4 * (2 * D - 4) <= X * (2 * D - 4)
    BY <1>1, <2>1, Products
  <2> HIDE DEF X
  <2>5. X * (D + 1) = X * D + X /\ X * (2 * D - 4) = 2 * (X * D) - 4 * X /\ X * D \in Int
    BY <1>1, <2>1
  <2> QED
    BY <1>1, <2>1, <2>2, <2>3, <2>4, <2>5
<1>11. ASSUME NEW B \in Nat, NEW room \in Nat,
              d <= B, q * (2 * B + R) <= (2 * room - 1) * (p * R - q)
       PROVE  s <= d + room
  <2>1. room >= 1
    <3>1. q * (2 * B + R) \in Nat /\ p * R - q \in Nat \ {0}
      OBVIOUS
    <3>2. room # 0
      <4>1. \A k \in Nat \ {0} : (2 * 0 - 1) * k < 0
        OBVIOUS
      <4> QED
        BY <1>11, <3>1, <4>1
    <3> QED
      BY <3>2
  <2> DEFINE r == 2 * room - 1
  <2>2. r \in Nat /\ r * (p * R - q) <= r * (q * D)
    BY <1>1, <2>1, Products
  <2>3. q * (2 * B + R) <= q * (r * D)
    <3> HIDE DEF r
    <3>1. r * (q * D) = q * (r * D)
      BY <1>1, <2>2
    <3>2. q * (2 * B + R) <= r * (p * R - q)
      BY <1>11 DEF r
    <3> QED
      BY <1>1, <2>2, <3>1, <3>2
  <2>4. 2 * B + R <= r * D
    <3> HIDE DEF r
    <3> QED
      BY <1>1, <2>2, <2>3, Products
  <2>5. 2 * d + R + D <= 2 * (D * room)
    <3>1. r * D = 2 * (D * room) - D
      BY <1>1, <2>1
    <3> QED
      BY <1>1, <1>11, <2>1, <2>4, <3>1
  <2>6. 2 * (w * d) + R + D <= w * (2 * d + R + D)
    <3>1. 1 * (R + D) <= w * (R + D)
      BY <1>1
    <3> QED
      BY <1>1, <3>1
  <2>7. w * (2 * d + R + D) <= w * (2 * (D * room))
    BY <1>1, <2>1, <2>5, Products
  <2>8. (2 * (D * w)) * s <= (2 * (D * w)) * (d + room)
    BY <1>1, <1>9, <2>6, <2>7
  <2> QED
    BY <1>1, <2>8, Products
<1> QED
  BY <1>8, <1>10, <1>11

\* The intercept of a line through the errors a and b, R values apart, of which
\* the centre is u beyond the first and v before the second: the three roundings
\* together move it by a Hertz at most.
LEMMA InterceptSize ==
  ASSUME NEW p \in Nat \ {0}, NEW q \in Nat \ {0}, NEW u \in Nat, NEW v \in Nat,
         NEW a \in Int, NEW b \in Int, NEW n \in Int,
         a <= 0, 0 <= b, a < b,
         2 * (p * (-u)) <= 2 * (q * a) + q, 2 * (q * a) <= 2 * (p * (-u)) + q,
         2 * (p * v) <= 2 * (q * b) + q, 2 * (q * b) <= 2 * (p * v) + q,
         2 * ((u + v) * a) <= 2 * ((b - a) * n) + (b - a),
         2 * ((b - a) * n) <= 2 * ((u + v) * a) + (b - a)
  PROVE  2 * (p * (-n - u)) <= p + q /\ -(p + q) <= 2 * (p * (-n - u))
<1> DEFINE D == b - a
           low == -(2 * (p * u)) - 2 * (q * a)
           high == 2 * (p * v) - 2 * (q * b)
           line == 2 * (D * n) - 2 * ((u + v) * a)
           x == 2 * (p * (-n - u))
<1>1. D \in Nat \ {0} /\ low \in Int /\ high \in Int /\ line \in Int /\ x \in Int
  OBVIOUS
<1>2. D * x = b * low - a * high - p * line
  <2>1. D * x = -(2 * (p * (b * n))) + 2 * (p * (a * n)) - 2 * (p * (b * u)) + 2 * (p * (a * u))
    OBVIOUS
  <2>2. p * line = 2 * (p * (b * n)) - 2 * (p * (a * n)) - 2 * (p * (u * a)) - 2 * (p * (v * a))
    OBVIOUS
  <2>3. b * low - a * high = -(2 * (p * (b * u))) - 2 * (p * (v * a))
    <3>1. b * low = -(2 * (p * (b * u))) - 2 * (q * (a * b))
      OBVIOUS
    <3>2. a * high = 2 * (p * (v * a)) - 2 * (q * (a * b))
      OBVIOUS
    <3> QED
      BY <3>1, <3>2
  <2> HIDE DEF D, x, line, low, high
  <2> QED
    BY <1>1, <2>1, <2>2, <2>3
<1>3. low <= q /\ -q <= low /\ high <= q /\ -q <= high /\ line <= D /\ -D <= line
  OBVIOUS
<1> HIDE DEF low, high, line, x
<1>4. b * low <= b * q /\ b * (-q) <= b * low
  BY <1>1, <1>3, Products
<1>5. (-a) * high <= (-a) * q /\ (-a) * (-q) <= (-a) * high
  BY <1>1, <1>3, Products
<1>6. p * line <= p * D /\ p * (-D) <= p * line
  BY <1>1, <1>3, Products
<1>7. (-a) * high = -(a * high) /\ b * q + (-a) * q + p * D = D * (p + q)
      /\ b * (-q) + (-a) * (-q) + p * (-D) = D * (-(p + q))
  BY <1>1
<1> HIDE DEF D
<1>8. D * x <= D * (p + q) /\ D * (-(p + q)) <= D * x
  BY <1>1, <1>2, <1>4, <1>5, <1>6, <1>7
<1>9. x <= p + q /\ -(p + q) <= x
  BY <1>1, <1>8, Products
<1> QED
  BY <1>9 DEF x

\* The oscillator and its ranges.
LEMMA Oscillator ==
  ASSUME NEW g \in Gains
  PROVE  /\ g[1] \in Nat \ {0} /\ g[2] \in Nat \ {0} /\ Max - Min \in Nat \ {0}
         /\ 5 * g[2] <= g[1] * (Max - Min)
         /\ \A w \in Windows : /\ w \in Nat \ {0} /\ Tol[w] \in Nat
                               /\ w * g[1] <= Tol[w] * g[2]
         /\ \A c \in Centres : c \in Nat /\ Min <= c /\ c <= Max
         /\ DacValues \subseteq Nat /\ 2^Width \in Nat
<1>1. Max - Min \in Nat \ {0} /\ DacValues \subseteq Nat
  BY RangeAssumption DEF DacValues
<1>2. \A c \in Centres : c \in Nat /\ Min <= c /\ c <= Max
  BY OscillatorAssumption, RangeAssumption
<1> QED
  BY <1>1, <1>2, OscillatorAssumption, WindowsAssumption, TunableAssumption, RangeAssumption

\* What a counter reports is the error, rounded.
LEMMA Reported ==
  ASSUME NEW g \in Gains, NEW c \in Centres, NEW y \in Int, NEW w \in Windows
  PROVE  LET e == PpsError(g, c, y, w)
             x == w * g[1] * (y - c)
         IN  /\ e \in Int /\ x \in Int
             /\ 2 * x <= 2 * (g[2] * e) + g[2] /\ 2 * (g[2] * e) <= 2 * x + g[2]
             /\ y >= c => e >= 0
             /\ y <= c => e <= 0
<1> DEFINE k == w * g[1]
           x == k * (y - c)
<1>1. k \in Nat \ {0} /\ g[2] \in Nat \ {0} /\ c \in Int
  <2>1. w \in Nat \ {0} /\ g[1] \in Nat \ {0}
    BY Oscillator
  <2>2. w * g[1] \in Nat \ {0}
    BY <2>1
  <2> QED
    BY <2>2, Oscillator
<1> HIDE DEF k
<1>2. x \in Int /\ (y >= c => x >= 0) /\ (y <= c => x <= 0)
  <2>1. x \in Int
    BY <1>1
  <2>2. y >= c => k * 0 <= k * (y - c)
    BY <1>1, Products
  <2>3. y <= c => k * (y - c) <= k * 0
    BY <1>1, Products
  <2> QED
    BY <1>1, <2>1, <2>2, <2>3
<1>3. PpsError(g, c, y, w) = Round(x, g[2])
  BY DEF PpsError, k
<1> HIDE DEF x
<1>4. /\ Round(x, g[2]) \in Int
      /\ 2 * x <= 2 * (g[2] * Round(x, g[2])) + g[2]
      /\ 2 * (g[2] * Round(x, g[2])) <= 2 * x + g[2]
      /\ x >= 0 => Round(x, g[2]) >= 0
      /\ x <= 0 => Round(x, g[2]) <= 0
  BY <1>1, <1>2, RoundNear
<1> QED
  BY <1>2, <1>3, <1>4 DEF x, k

\* The errors of the ends of the line, one on each side of 0, differ by what the
\* ends do, within a Hertz.
LEMMA Ends ==
  ASSUME NEW g \in Gains, NEW c \in Centres
  PROVE  LET a == PpsError(g, c, Min, 1)
             b == PpsError(g, c, Max, 1)
             q == g[2]
         IN  /\ a \in Int /\ b \in Int /\ a <= 0 /\ 0 <= b /\ 4 <= b - a
             /\ g[1] * (Max - Min) <= q * (b - a) + q
             /\ q * (b - a) <= g[1] * (Max - Min) + q
             /\ 2 * (g[1] * (Min - c)) <= 2 * (q * a) + q
             /\ 2 * (q * a) <= 2 * (g[1] * (Min - c)) + q
             /\ 2 * (g[1] * (Max - c)) <= 2 * (q * b) + q
             /\ 2 * (q * b) <= 2 * (g[1] * (Max - c)) + q
<1> DEFINE a == PpsError(g, c, Min, 1)
           b == PpsError(g, c, Max, 1)
           p == g[1]
           q == g[2]
<1>1. p \in Nat \ {0} /\ q \in Nat \ {0} /\ c \in Nat /\ Min <= c /\ c <= Max /\ 5 * q <= p * (Max - Min)
      /\ Min \in Nat /\ Max \in Nat /\ 1 \in Windows
  BY Oscillator, RangeAssumption, WindowsAssumption
<1>2. 1 * p * (Min - c) = p * (Min - c) /\ 1 * p * (Max - c) = p * (Max - c)
  BY <1>1
<1>3. /\ a \in Int /\ a <= 0
      /\ 2 * (1 * p * (Min - c)) <= 2 * (q * a) + q /\ 2 * (q * a) <= 2 * (1 * p * (Min - c)) + q
  BY <1>1, Reported
<1>4. /\ b \in Int /\ 0 <= b
      /\ 2 * (1 * p * (Max - c)) <= 2 * (q * b) + q /\ 2 * (q * b) <= 2 * (1 * p * (Max - c)) + q
  BY <1>1, Reported
<1> HIDE DEF a, b, p, q
<1>5. p * (Max - Min) = p * (Max - c) - p * (Min - c) /\ q * (b - a) = q * b - q * a
      /\ p * (Max - c) \in Int /\ p * (Min - c) \in Int /\ q * a \in Int /\ q * b \in Int
  BY <1>1, <1>3, <1>4
<1>6. p * (Max - Min) <= q * (b - a) + q /\ q * (b - a) <= p * (Max - Min) + q
  BY <1>1, <1>2, <1>3, <1>4, <1>5
<1>7. 4 <= b - a
  <2>1. q * 4 <= q * (b - a)
    BY <1>1, <1>3, <1>4, <1>5, <1>6
  <2> QED
    BY <1>1, <1>3, <1>4, <2>1, Products
<1> QED
  BY <1>2, <1>3, <1>4, <1>6, <1>7 DEF a, b, p, q

\* The intercept is within a Hertz of the centre.
LEMMA InterceptNear ==
  ASSUME NEW g \in Gains, NEW c \in Centres,
         NEW y \in Intercept(PpsError(g, c, Min, 1), PpsError(g, c, Max, 1))
  PROVE  g[1] * Abs(y - c) <= g[2] + g[1]
<1> DEFINE a == PpsError(g, c, Min, 1)
           b == PpsError(g, c, Max, 1)
           p == g[1]
           q == g[2]
           R == Max - Min
           n == Round(R * a, b - a)
           z == Min - n
<1>1. /\ p \in Nat \ {0} /\ q \in Nat \ {0} /\ R \in Nat \ {0} /\ c \in Nat
      /\ Min <= c /\ c <= Max /\ Min \in Nat /\ Max \in Nat
  BY Oscillator, RangeAssumption
<1>2. /\ a \in Int /\ b \in Int /\ a <= 0 /\ 0 <= b /\ 4 <= b - a
      /\ 2 * (p * (Min - c)) <= 2 * (q * a) + q /\ 2 * (q * a) <= 2 * (p * (Min - c)) + q
      /\ 2 * (p * (Max - c)) <= 2 * (q * b) + q /\ 2 * (q * b) <= 2 * (p * (Max - c)) + q
  BY Ends
<1>3. y = Unsigned(Min - Unsigned(n))
  BY <1>2 DEF Intercept, Scaled
<1> HIDE DEF a, b, p, q
<1>4. b - a \in Nat \ {0} /\ R * a \in Int
  BY <1>1, <1>2
<1>5. /\ n \in Int
      /\ 2 * (R * a) <= 2 * ((b - a) * n) + (b - a)
      /\ 2 * ((b - a) * n) <= 2 * (R * a) + (b - a)
  <2> HIDE DEF R
  <2> QED
    BY <1>4, RoundNear
<1> HIDE DEF n
<1>6. 2 * (p * (z - c)) <= p + q /\ -(p + q) <= 2 * (p * (z - c))
  <2> DEFINE u == c - Min
             v == Max - c
  <2>1. u \in Nat /\ v \in Nat /\ -u = Min - c /\ u + v = R /\ -n - u = z - c /\ a < b
    BY <1>1, <1>2, <1>5
  <2> HIDE DEF u, R, z
  <2>2. /\ 2 * (p * (-u)) <= 2 * (q * a) + q /\ 2 * (q * a) <= 2 * (p * (-u)) + q
        /\ 2 * (p * v) <= 2 * (q * b) + q /\ 2 * (q * b) <= 2 * (p * v) + q
        /\ 2 * ((u + v) * a) <= 2 * ((b - a) * n) + (b - a)
        /\ 2 * ((b - a) * n) <= 2 * ((u + v) * a) + (b - a)
    BY <1>2, <1>5, <2>1
  <2> HIDE DEF v
  <2>3. 2 * (p * (-n - u)) <= p + q /\ -(p + q) <= 2 * (p * (-n - u))
    BY <1>1, <1>2, <1>5, <2>1, <2>2, InterceptSize
  <2> QED
    BY <2>1, <2>3
<1>7. z \in Int /\ z - c \in Int /\ p * (z - c) \in Int
  BY <1>1, <1>5
<1> HIDE DEF z
<1>8. z \in DacValues
  <2> DEFINE N == 2^Width
  <2>1. N \in Nat /\ Max < N
    BY RangeAssumption
  <2>2. ASSUME NEW room \in {Min, N - 1 - Max}
        PROVE  z - c <= room /\ -room <= z - c
    <3>1. q * (2 * N + R) <= (2 * room - 1) * (p * R - q)
      <4>1. q * (2 * N + Max - Min) <= (2 * room - 1) * (p * R - q)
        BY <2>2, TunableAssumption DEF p, q
      <4>2. 2 * N + Max - Min = 2 * N + R
        BY <1>1, <2>1
      <4> QED
        BY <4>1, <4>2
    <3>2. room \in Nat
      BY <1>1, <2>1, <2>2
    <3> HIDE DEF R, N
    <3>3. q < (2 * room - 1) * p
      <4> DEFINE r == 2 * room - 1
      <4>1. r \in Int /\ R * q < r * (p * R)
        <5>1. q * (2 * N + R) = 2 * (q * N) + R * q /\ q * N \in Nat /\ r * (p * R - q) = r * (p * R) - r * q
          BY <1>1, <2>1, <3>2
        <5>2. r >= 0
          <6>1. \A k \in Nat : (2 * 0 - 1) * k <= 0
            OBVIOUS
          <6>2. p * R - q \in Nat /\ q * (2 * N + R) > 0
            <7>1. 5 * q <= p * R
              BY Oscillator DEF p, q, R
            <7> QED
              BY <1>1, <2>1, <7>1
          <6>3. ASSUME room = 0 PROVE FALSE
            <7>1. (2 * 0 - 1) * (p * R - q) <= 0
              BY <6>1, <6>2
            <7>2. q * (2 * N + R) <= (2 * 0 - 1) * (p * R - q)
              BY <3>1, <6>3
            <7> QED
              BY <6>2, <7>1, <7>2, <1>1, <2>1
          <6> QED
            BY <3>2, <6>3
        <5>3. r # 0
          BY <3>2
        <5>4. r * q \in Nat \ {0}
          BY <1>1, <3>2, <5>2, <5>3
        <5> QED
          BY <1>1, <2>1, <3>1, <3>2, <5>1, <5>4
      <4>2. R * q < R * (r * p)
        BY <1>1, <3>2, <4>1
      <4> HIDE DEF r
      <4> QED
        BY <1>1, <4>1, <4>2, Products DEF r
    <3>4. p * (z - c) < p * (room + 1) /\ p * (-(room + 1)) < p * (z - c)
      <4>1. (2 * room - 1) * p = 2 * (p * room) - p /\ p * room \in Nat
        BY <1>1, <3>2
      <4>2. p * (room + 1) = p * room + p /\ p * (-(room + 1)) = -(p * room) - p
        BY <1>1, <3>2
      <4> QED
        BY <1>1, <1>6, <1>7, <3>3, <4>1, <4>2
    <3>5. z - c < room + 1 /\ -(room + 1) < z - c
      BY <1>1, <1>7, <3>2, <3>4, Products
    <3> QED
      BY <1>7, <3>2, <3>5
  <2>3. -Min <= z - c /\ z - c <= N - 1 - Max
    BY <2>2
  <2>4. 0 <= z /\ z <= N - 1
    BY <1>1, <1>7, <2>1, <2>3
  <2> QED
    BY <1>7, <2>1, <2>4 DEF DacValues
<1>9. y = z
  BY <1>1, <1>3, <1>5, <1>8, NoWrap DEF z
<1>10. p * Abs(z - c) <= q + p
  <2>1. CASE z - c >= 0
    <3>1. Abs(z - c) = z - c
      BY <1>7, <2>1 DEF Abs
    <3> QED
      BY <1>1, <1>6, <1>7, <3>1
  <2>2. CASE z - c < 0
    <3>1. Abs(z - c) = -(z - c) /\ p * (-(z - c)) = -(p * (z - c))
      BY <1>1, <1>7, <2>2 DEF Abs
    <3> QED
      BY <1>1, <1>6, <1>7, <3>1
  <2> QED
    BY <1>7, <2>1, <2>2
<1> QED
  BY <1>9, <1>10 DEF p, q

\* A correction by an error over the tolerance brings the DAC nearer.
LEMMA CorrectedNearer ==
  ASSUME NEW g \in Gains, NEW c \in Centres, NEW origin \in Centres,
         NEW w \in Windows, NEW y \in DacValues,
         Abs(PpsError(g, c, y, w)) > Tol[w],
         NEW x \in Corrected(y, PpsError(g, c, y, w), w,
                             PpsError(g, origin, Min, 1), PpsError(g, origin, Max, 1))
  PROVE  Abs(x - c) < Abs(y - c)
<1> DEFINE a == PpsError(g, origin, Min, 1)
           b == PpsError(g, origin, Max, 1)
           e == PpsError(g, c, y, w)
           p == g[1]
           q == g[2]
           R == Max - Min
           D == b - a
           T == Tol[w]
           N == 2^Width
           n == Round(e * R, D)
           s == Truncate(n, w)
           d == y - c
<1>1. /\ p \in Nat \ {0} /\ q \in Nat \ {0} /\ R \in Nat \ {0} /\ w \in Nat \ {0}
      /\ c \in Nat /\ Min <= c /\ c <= Max /\ Min \in Nat /\ Max \in Nat
      /\ T \in Nat /\ 5 * q <= p * R /\ w * p <= T * q
  BY Oscillator, RangeAssumption
<1>2. N \in Nat /\ Max < N /\ y \in Nat /\ y <= N - 1
  BY RangeAssumption DEF DacValues
<1>3. a \in Int /\ b \in Int /\ 4 <= D /\ p * R <= q * D + q /\ q * D <= p * R + q
  BY Ends
<1>4. /\ e \in Int /\ w * p * d \in Int
      /\ 2 * (w * p * d) <= 2 * (q * e) + q /\ 2 * (q * e) <= 2 * (w * p * d) + q
      /\ d >= 0 => e >= 0
      /\ d <= 0 => e <= 0
  <2>1. d >= 0 <=> y >= c
    BY <1>1, <1>2
  <2>2. d <= 0 <=> y <= c
    BY <1>1, <1>2
  <2> QED
    BY <1>2, <2>1, <2>2, Reported
<1>5. Abs(e) > T
  OBVIOUS
<1>6. x = Unsigned(y - Unsigned(s))
  BY <1>3 DEF Corrected
<1>7. \A room \in {Min, N - 1 - Max} :
         room \in Nat /\ q * (2 * N + R) <= (2 * room - 1) * (p * R - q)
  <2> SUFFICES ASSUME NEW room \in {Min, N - 1 - Max}
               PROVE  room \in Nat /\ q * (2 * N + R) <= (2 * room - 1) * (p * R - q)
    OBVIOUS
  <2>1. q * (2 * N + Max - Min) <= (2 * room - 1) * (p * R - q)
    BY TunableAssumption
  <2>2. 2 * N + Max - Min = 2 * N + R
    BY <1>1, <1>2
  <2> QED
    BY <1>1, <1>2, <2>1, <2>2
<1>8. D \in Nat \ {0} /\ e * R \in Int /\ d \in Int
  BY <1>1, <1>2, <1>3, <1>4
<1> HIDE DEF a, b, e, p, q, R, D, T, N
<1>9. n \in Int /\ 2 * (e * R) <= 2 * (D * n) + D /\ 2 * (D * n) <= 2 * (e * R) + D
      /\ (e >= 0 => n >= 0) /\ (e <= 0 => n <= 0)
  <2>1. e >= 0 => e * R >= 0
    BY <1>1, <1>4
  <2>2. e <= 0 => e * R <= 0
    BY <1>1, <1>4
  <2> QED
    BY <1>8, <2>1, <2>2, RoundNear
<1> HIDE DEF n
<1>10. /\ s \in Int
       /\ n >= 0 => w * s <= n /\ n < w * s + w
       /\ n <= 0 => w * (-s) <= -n /\ -n < w * (-s) + w
  BY <1>1, <1>9, TruncateNear
<1> HIDE DEF s
<1>11. CASE d >= 0
  <2>1. e >= 0 /\ e > T
    BY <1>1, <1>4, <1>5, <1>11 DEF Abs
  <2>2. w * s <= n /\ n < w * s + w /\ d \in Nat
    BY <1>8, <1>9, <1>10, <1>11, <2>1
  <2>3. /\ 0 < s /\ s < 2 * d
        /\ \A B, room \in Nat :
             d <= B /\ q * (2 * B + R) <= (2 * room - 1) * (p * R - q) => s <= d + room
    <3> HIDE DEF d
    <3> QED
      BY <1>1, <1>3, <1>4, <1>8, <1>9, <1>10, <2>1, <2>2, CorrectionSize
  <2>4. s <= d + Min
    <3>1. d <= N
      BY <1>1, <1>2
    <3> QED
      BY <1>1, <1>2, <1>7, <2>3, <3>1
  <2>5. y - s \in Int /\ 0 <= y - s /\ y - s <= N - 1
    BY <1>1, <1>2, <1>10, <2>3, <2>4
  <2>6. y - s \in DacValues
    BY <1>2, <2>5 DEF DacValues, N
  <2>7. x = y - s
    BY <1>2, <1>6, <1>10, <2>6, NoWrap
  <2> QED
    BY <1>1, <1>2, <1>10, <1>11, <2>3, <2>7 DEF Abs
<1>12. CASE d < 0
  <2> DEFINE dd == -d
             ee == -e
             nn == -n
             ss == -s
  <2>1. /\ dd \in Nat /\ ee \in Int /\ nn \in Int /\ ss \in Int /\ T < ee
        /\ w * ss <= nn /\ nn < w * ss + w
    BY <1>1, <1>4, <1>5, <1>8, <1>9, <1>10, <1>12 DEF Abs
  <2>2. w * p * dd = -(w * p * d) /\ q * ee = -(q * e) /\ ee * R = -(e * R) /\ D * nn = -(D * n)
    BY <1>1, <1>4, <1>8, <1>9
  <2>3. w * p * d \in Int /\ q * e \in Int /\ e * R \in Int /\ D * n \in Int
    BY <1>1, <1>4, <1>8, <1>9
  <2>4. /\ 2 * (w * p * dd) <= 2 * (q * ee) + q /\ 2 * (q * ee) <= 2 * (w * p * dd) + q
        /\ 2 * (ee * R) <= 2 * (D * nn) + D /\ 2 * (D * nn) <= 2 * (ee * R) + D
    <3> HIDE DEF d, dd, ee, nn
    <3> QED
      BY <1>1, <1>4, <1>8, <1>9, <2>2, <2>3
  <2>5. /\ 0 < ss /\ ss < 2 * dd
        /\ \A B, room \in Nat :
             dd <= B /\ q * (2 * B + R) <= (2 * room - 1) * (p * R - q) => ss <= dd + room
    <3> HIDE DEF d, dd, ee, nn, ss
    <3> QED
      BY <1>1, <1>3, <1>8, <2>1, <2>4, CorrectionSize
  <2>6. ss <= dd + (N - 1 - Max)
    <3>1. dd <= N
      BY <1>1, <1>2
    <3> HIDE DEF dd, ss
    <3> QED
      BY <1>1, <1>2, <1>7, <2>5, <3>1
  <2>7. y - s \in Int /\ 0 <= y - s /\ y - s <= N - 1
    BY <1>1, <1>2, <1>10, <2>5, <2>6
  <2>8. y - s \in DacValues
    BY <1>2, <2>7 DEF DacValues, N
  <2>9. x = y - s
    BY <1>2, <1>6, <1>10, <2>8, NoWrap
  <2> QED
    BY <1>1, <1>2, <1>10, <1>12, <2>5, <2>9 DEF Abs
<1> QED
  BY <1>8, <1>11, <1>12

-----------------------------------------------------------------------------
(* What the errors are.  Besides the setting an error was measured at, the *)
(* corrections need what it says: that it is the one the oscillator has,   *)
(* which may drift while none is under way.                                *)

\* An error over the tolerance, of the DAC value and the oscillator there are.
Present(m, w) == m.hz = Hz(w) /\ Over(w)

FlagsPresent == \A w \in Windows : error_v[w] => Present(error[w], w)
CopyPresent  == \A w \in Windows : pkt.flag[w] => Present(pkt.error[w], w)

\* In coarse tuning the oscillator does not drift: an error of one second of the
\* present DAC value is what would be measured now.
CoarsePresent ==
  tune_state \in {"MAX", "DONE"} =>
    /\ Fresh => error[1].hz = Hz(1)
    /\ pkt.error[1].own /\ pkt.error[1].at = dac => pkt.error[1].hz = Hz(1)

\* The line goes through the errors of the two ends that one oscillator had.
LineOf(c) ==
  /\ point[0].hz = PpsError(gain, c, Min, 1)
  /\ tune_state = "FINE" => point[1].hz = PpsError(gain, c, Max, 1)

LinePresent ==
  /\ tune_state = "DONE" => LineOf(centre)
  /\ tune_state = "FINE" => \E c \in Centres : LineOf(c)

Reports ==
  /\ pc \in Serving => irq
  /\ CoarsePresent
  /\ ~late => /\ FlagsPresent /\ LinePresent
              /\ (pc = "isr_clear" \/ Delivered) /\ tune_state = "FINE" => CopyPresent

\* A step that leaves the oscillator, the results and the tuning alone, and does
\* not reach the service routine or the delivery of a packet, leaves it all.
LEMMA QuietReports ==
  ASSUME Reports, UNCHANGED <<gain, centre, results, pkt, tuning>>,
         ~late' => ~late,
         pc' \in Serving => irq,
         ~late' /\ tune_state = "FINE" /\ (pc' = "isr_clear" \/ Delivered')
            => pc = "isr_clear" \/ Delivered
  PROVE  Reports'
<1> USE DEF results, tuning
<1>1. CoarsePresent'
  BY DEF Reports, CoarsePresent, Fresh, Hz
<1>2. ~late' => FlagsPresent' /\ LinePresent'
  BY DEF Reports, FlagsPresent, Present, Over, Hz, LinePresent, LineOf
<1>3. ~late' => ((pc' = "isr_clear" \/ Delivered') /\ tune_state' = "FINE" => CopyPresent')
  BY DEF Reports, CopyPresent, Present, Over, Hz
<1>4. pc' \in Serving => irq'
  OBVIOUS
<1> QED
  BY <1>1, <1>2, <1>3, <1>4 DEF Reports

\* The main loop outside of the service routine and the tuning.
LEMMA LoopReports ==
  ASSUME IInv, Reports,
         \/ Poll \/ IsrOff \/ IsrReset
         \/ SeeEnable \/ ModeOff \/ ModeSet \/ ModeRelease \/ ModeOn
         \/ NotReady \/ Release \/ IrqOn \/ Dispatch
  PROVE  Reports'
<1>1. TypeOK /\ (~late => PcOK /\ OffOK)
  BY DEF IInv, Phases
<1>2. UNCHANGED <<gain, centre, results, pkt, tuning, late>>
  BY DEF Poll, IsrOff, IsrReset, SeeEnable, ModeOff, ModeSet, ModeRelease, ModeOn, NotReady, Release,
     IrqOn, Dispatch, osc
<1>3. pc' \in Serving => irq
  BY DEF Reports, Serving, Poll, IsrOff, IsrReset, SeeEnable, ModeOff, ModeSet, ModeRelease, ModeOn,
     NotReady, Release, IrqOn, Dispatch
<1>4. ~late' /\ tune_state = "FINE" /\ (pc' = "isr_clear" \/ Delivered') => pc = "isr_clear" \/ Delivered
  BY <1>1, <1>2 DEF PcOK, OffOK, IsOff, Mode, Serving, Setting, Delivered, TypeOK, Poll, IsrOff, IsrReset,
     SeeEnable, ModeOff, ModeSet, ModeRelease, ModeOn, NotReady, Release, IrqOn, Dispatch
<1> QED
  BY <1>2, <1>3, <1>4, QuietReports

\* The end of the hold and the pulses.
LEMMA CounterReports ==
  ASSUME IInv, Reports, HoldEnds \/ Pulse
  PROVE  Reports'
<1>1. UNCHANGED <<gain, centre, results, pkt, tuning, late, pc, ready>>
  BY DEF HoldEnds, Pulse, osc
<1>2. pc' \in Serving => irq
  BY <1>1 DEF Reports
<1>3. Delivered' <=> Delivered
  BY <1>1 DEF Delivered
<1> QED
  BY <1>1, <1>2, <1>3, QuietReports

\* The service routine copies the errors with their flags.
LEMMA IsrReadReports ==
  ASSUME IInv, Reports, IsrRead
  PROVE  Reports'
<1> USE DEF IsrRead, results, tuning, osc
<1>1. TypeOK
  BY DEF IInv
<1>2. CoarsePresent'
  BY DEF Reports, CoarsePresent, Fresh, Hz
<1>3. ~late => FlagsPresent' /\ LinePresent' /\ CopyPresent'
  BY DEF Reports, FlagsPresent, CopyPresent, Present, Over, Hz, LinePresent, LineOf
<1>4. irq' /\ late' = late
  BY DEF Reports, Serving
<1> QED
  BY <1>2, <1>3, <1>4 DEF Reports

\* It clears the flags, and the packet is on its way.
LEMMA IsrClearReports ==
  ASSUME IInv, Reports, IsrClear
  PROVE  Reports'
<1> USE DEF IsrClear, results, tuning, osc
<1>1. CoarsePresent'
  BY DEF Reports, CoarsePresent, Fresh, Hz
<1>2. ~late => /\ FlagsPresent' /\ LinePresent'
               /\ tune_state = "FINE" => CopyPresent'
  BY DEF Reports, FlagsPresent, CopyPresent, Present, Over, Hz, LinePresent, LineOf
<1>3. pc' \notin Serving /\ late' = late /\ tune_state' = tune_state
  BY DEF Serving
<1> QED
  BY <1>1, <1>2, <1>3 DEF Reports

\* Switched off, the tamer forgets its line; switched on, it had none.
LEMMA ModeResetReports ==
  ASSUME IInv, Reports, ModeReset
  PROVE  Reports'
<1>1. TypeOK /\ Always /\ (~late => PcOK /\ OffOK)
  BY DEF IInv, Phases
<1>2. CASE tamer_en
  <2>1. UNCHANGED <<gain, centre, results, pkt, tuning, late, ready>> /\ pc' = "mode_release"
    BY <1>2 DEF ModeReset, osc, tuning
  <2>2. pc' \notin Serving /\ ~Delivered' /\ pc' # "isr_clear"
    BY <2>1 DEF Serving, Delivered
  <2> QED
    BY <2>1, <2>2, QuietReports
<1>3. CASE ~tamer_en
  <2>1. /\ tune_state' = "MIN" /\ late' = irq /\ pc' = "tune"
        /\ error_v' = error_v
    BY <1>3 DEF ModeReset, results
  <2>2. ~late' => FlagsPresent'
    BY <1>1, <2>1 DEF Always, FlagsPresent
  <2> QED
    BY <2>1, <2>2 DEF Reports, Serving, CoarsePresent, LinePresent
<1> QED
  BY <1>2, <1>3

\* The oscillator drifts when no error is on its way to a correction.
LEMMA DriftReports ==
  ASSUME IInv, Reports, Drift
  PROVE  Reports'
<1>1. TypeOK /\ Always
  BY DEF IInv
<1>2. /\ tune_state = "FINE" /\ ~ready /\ ~irq
      /\ UNCHANGED <<gain, results, pkt, tuning, late, pc, ready>>
  BY DEF Drift
<1>3. pc' \notin Serving /\ ~Delivered'
  BY <1>2 DEF Reports, Serving, Delivered
<1>4. FlagsPresent'
  BY <1>1, <1>2 DEF Always, FlagsPresent, results
<1>5. ~late' => LinePresent'
  BY <1>2 DEF Reports, LinePresent, LineOf, tuning
<1>6. CoarsePresent'
  BY <1>2 DEF CoarsePresent, tuning
<1> QED
  BY <1>3, <1>4, <1>5, <1>6 DEF Reports, Serving

\* A full window reports the present error.
LEMMA CountValidReports ==
  ASSUME IInv, Reports, NEW w \in Windows, CountValid(w)
  PROVE  Reports'
<1>1. TypeOK /\ 1 \in Windows
  BY WindowsAssumption DEF IInv
<1>2. UNCHANGED <<gain, centre, pkt, tuning, late, pc, ready>>
  BY DEF CountValid, osc
<1>3. \A v \in Windows : Hz(v)' = Hz(v) /\ (Over(v)' <=> Over(v))
  BY <1>2 DEF Hz, Over, tuning
<1>4. CASE ~hw.irq_en
  <2>1. UNCHANGED <<gain, centre, results, pkt, tuning>>
    BY <1>2, <1>4 DEF CountValid
  <2> QED
    BY <1>2, <2>1, QuietReports DEF Reports, Delivered
<1>5. CASE hw.irq_en
  <2> DEFINE m == [hz |-> Hz(w), at |-> dac, own |-> own[w]]
  <2>1. /\ error' = [error EXCEPT ![w] = m] /\ m.hz = Hz(w)
        /\ error_v' = [error_v EXCEPT ![w] = error_v[w] \/ Over(w)]
        /\ irq' = (irq \/ Over(w))
        /\ error \in [Windows -> Measurements] /\ error_v \in [Windows -> BOOLEAN]
    BY <1>1, <1>5 DEF CountValid, TypeOK
  <2> HIDE DEF m
  <2>2. irq => irq'
    BY <2>1
  <2>3. CoarsePresent'
    <3>1. CASE w = 1
      BY <1>1, <1>2, <1>3, <2>1, <3>1 DEF Reports, CoarsePresent, tuning
    <3>2. CASE w # 1
      BY <1>1, <1>2, <1>3, <2>1, <3>2 DEF Reports, CoarsePresent, Fresh, tuning
    <3> QED
      BY <3>1, <3>2
  <2>4. ~late => FlagsPresent'
    <3> SUFFICES ASSUME ~late, NEW v \in Windows, error_v'[v]
                 PROVE  error'[v].hz = Hz(v) /\ Over(v)
      BY <1>3 DEF FlagsPresent, Present
    <3>1. CASE v = w
      BY <2>1, <3>1 DEF Reports, FlagsPresent, Present
    <3>2. CASE v # w
      BY <2>1, <3>2 DEF Reports, FlagsPresent, Present
    <3> QED
      BY <3>1, <3>2
  <2>5. ~late => LinePresent'
    BY <1>2 DEF Reports, LinePresent, LineOf, tuning
  <2>6. CopyPresent => CopyPresent'
    BY <1>2, <1>3 DEF CopyPresent, Present
  <2>7. Delivered' <=> Delivered
    BY <1>2 DEF Delivered
  <2> QED
    BY <1>2, <2>2, <2>3, <2>4, <2>5, <2>6, <2>7 DEF Reports, tuning
<1> QED
  BY <1>4, <1>5

\* A step of tuning that moves the DAC uses the errors up.
LEMMA TuningReports ==
  ASSUME IInv, Reports, NEW state, Step(state),
         CoarsePresent', ~late => LinePresent'
  PROVE  Reports'
<1>1. pc' \notin Serving /\ ~Delivered' /\ pc' # "isr_clear" /\ late' = late
  BY DEF Step, Serving, Delivered
<1>2. ~late => FlagsPresent'
  <2> SUFFICES ASSUME ~late PROVE FlagsPresent'
    OBVIOUS
  <2>1. \A w \in Windows : ~error_v[w]
    BY TuningFacts DEF Step
  <2> QED
    BY <2>1 DEF Step, FlagsPresent
<1> QED
  BY <1>1, <1>2 DEF Reports

\* The steps of tuning.
LEMMA StepReports ==
  ASSUME IInv, Reports, CoarseTuneMin \/ CoarseTuneMax \/ CoarseTuneDone \/ FineTune
  PROVE  Reports'
<1>1. TypeOK /\ 1 \in Windows
  BY WindowsAssumption DEF IInv
<1>2. ASSUME NEW y \in DacValues, SetDac(y)
      PROVE  ~error'[1].own /\ ~pkt'.error[1].own
  <2>1. ~error'[1].own
    BY <1>1, <1>2, SetDacFacts
  <2>2. pkt' = [pkt EXCEPT !.error = Disown(pkt.error)]
    BY <1>2 DEF SetDac
  <2>3. ~Disown(pkt.error)[1].own
    BY <1>1 DEF Disown, TypeOK, Measurements
  <2>4. pkt'.error = Disown(pkt.error)
    BY <1>1, <2>2 DEF TypeOK
  <2> QED
    BY <2>1, <2>3, <2>4
<1>3. CASE CoarseTuneMin
  <2>1. SetDac(Min) /\ tune_state' = "MAX" /\ Step("MIN")
    BY <1>3 DEF CoarseTuneMin
  <2>2. CoarsePresent' /\ LinePresent'
    BY <1>2, <2>1, DacRange DEF CoarsePresent, Fresh, LinePresent
  <2> QED
    BY <2>1, <2>2, TuningReports
<1>4. CASE CoarseTuneMax
  <2>1. /\ SetDac(Max) /\ tune_state' = "DONE" /\ Step("MAX") /\ tune_state = "MAX"
        /\ point' = [point EXCEPT ![0] = pkt.error[1]] /\ gain' = gain /\ centre' = centre
        /\ pc = "tune" /\ ready
    BY <1>4 DEF CoarseTuneMax, Step, osc
  <2>2. CoarsePresent'
    BY <1>2, <2>1, DacRange DEF CoarsePresent, Fresh
  <2>3. ~late => LinePresent'
    <3> SUFFICES ASSUME ~late PROVE LinePresent'
      OBVIOUS
    <3>1. Copied /\ dac = Min
      BY <2>1, TuningFacts
    <3>2. pkt.error[1].hz = PpsError(gain, centre, Min, 1)
      BY <2>1, <3>1 DEF Copied, Reports, CoarsePresent, Hz
    <3>3. point'[0] = pkt.error[1]
      BY <1>1, <2>1 DEF TypeOK
    <3> QED
      BY <2>1, <3>2, <3>3 DEF LinePresent, LineOf
  <2> QED
    BY <2>1, <2>2, <2>3, TuningReports
<1>5. CASE CoarseTuneDone
  <2>1. /\ tune_state' = "FINE" /\ Step("DONE") /\ tune_state = "DONE"
        /\ point' = [point EXCEPT ![1] = pkt.error[1]] /\ gain' = gain
        /\ pc = "tune" /\ ready
    BY <1>5 DEF CoarseTuneDone, Step, osc
  <2>2. CoarsePresent'
    BY <2>1 DEF CoarsePresent
  <2>3. ~late => LinePresent'
    <3> SUFFICES ASSUME ~late PROVE LinePresent'
      OBVIOUS
    <3>1. Copied /\ dac = Max
      BY <2>1, TuningFacts
    <3>2. pkt.error[1].hz = PpsError(gain, centre, Max, 1)
      BY <2>1, <3>1 DEF Copied, Reports, CoarsePresent, Hz
    <3>3. point'[1] = pkt.error[1] /\ point'[0] = point[0]
      BY <1>1, <2>1 DEF TypeOK
    <3>4. point[0].hz = PpsError(gain, centre, Min, 1) /\ centre \in Centres
      BY <1>1, <2>1 DEF Reports, LinePresent, LineOf, TypeOK
    <3> QED
      BY <2>1, <3>2, <3>3, <3>4 DEF LinePresent, LineOf
  <2> QED
    BY <2>1, <2>2, <2>3, TuningReports
<1>6. CASE FineTune
  <2>1. tune_state' = "FINE" /\ Step("FINE") /\ tune_state = "FINE" /\ point' = point /\ gain' = gain
    BY <1>6 DEF FineTune, Step, osc
  <2>2. CoarsePresent' /\ (~late => LinePresent')
    BY <2>1 DEF CoarsePresent, Reports, LinePresent, LineOf
  <2> QED
    BY <2>1, <2>2, TuningReports
<1> QED
  BY <1>3, <1>4, <1>5, <1>6

\* At the start nothing is reported.
LEMMA InitReports == ASSUME Init PROVE Reports
BY DEF Init, Reports, Serving, CoarsePresent, FlagsPresent, LinePresent

\* Every step keeps what the errors say.
LEMMA NextReports == ASSUME IInv, Reports, [Next]_vars PROVE Reports'
<1>1. CASE Next
  <2>1. CASE Firmware
    BY <2>1, LoopReports, IsrReadReports, IsrClearReports, ModeResetReports, StepReports
       DEF Firmware, Tune
  <2>2. CASE Drift \/ HoldEnds \/ Pulse
    BY <2>2, DriftReports, CounterReports
  <2>3. CASE \E w \in Windows : CountValid(w)
    BY <2>3, CountValidReports
  <2> QED
    BY <1>1, <2>1, <2>2, <2>3 DEF Next
<1>2. CASE UNCHANGED vars
  <2>1. UNCHANGED <<gain, centre, results, pkt, tuning, late, pc, ready>>
    BY <1>2 DEF vars, osc
  <2>2. (Delivered' <=> Delivered) /\ (pc' \in Serving => irq)
    BY <2>1 DEF Delivered, Reports
  <2> QED
    BY <2>1, <2>2, QuietReports
<1> QED
  BY <1>1, <1>2

\* The errors the tuning uses are those of the oscillator.
THEOREM ReportsPresent == Spec => []Reports
BY InitInv, NextInv, InitReports, NextReports, PTL DEF Spec

\* Every step of tuning does what it is for: the intercept is within a Hertz of
\* the DAC value without error, and a correction brings the DAC nearer to it.
LEMMA TuningContracts ==
  ASSUME IInv, Reports, ~late
  PROVE  /\ CoarseTuneDone => gain[1] * Abs(dac' - centre) <= gain[2] + gain[1]
         /\ FineTune /\ Deciding # {} => Abs(dac' - centre) < Abs(dac - centre)
<1>1. TypeOK /\ gain \in Gains /\ centre \in Centres /\ dac \in DacValues
  BY DEF IInv, TypeOK
<1>2. ASSUME CoarseTuneDone
      PROVE  gain[1] * Abs(dac' - centre) <= gain[2] + gain[1]
  <2>1. Step("DONE") /\ pc = "tune" /\ ready /\ tune_state = "DONE"
    BY <1>2 DEF CoarseTuneDone, Step
  <2>2. PICK y \in Intercept(point[0].hz, pkt.error[1].hz) : dac' = y
    BY <1>2 DEF CoarseTuneDone, SetDac
  <2>3. Copied /\ dac = Max
    BY <2>1, TuningFacts
  <2>4. pkt.error[1].hz = PpsError(gain, centre, Max, 1)
    BY <2>1, <2>3 DEF Copied, Reports, CoarsePresent, Hz
  <2>5. point[0].hz = PpsError(gain, centre, Min, 1)
    BY <2>1 DEF Reports, LinePresent, LineOf
  <2> QED
    BY <1>1, <2>2, <2>4, <2>5, InterceptNear
<1>3. ASSUME FineTune, Deciding # {}
      PROVE  Abs(dac' - centre) < Abs(dac - centre)
  <2>1. Step("FINE") /\ pc = "tune" /\ ready /\ tune_state = "FINE"
    BY <1>3 DEF FineTune, Step
  <2>2. PICK w \in Deciding :
          \E y \in Corrected(dac, pkt.error[w].hz, w, point[0].hz, point[1].hz) : SetDac(y)
    BY <1>3 DEF FineTune
  <2>3. PICK y \in Corrected(dac, pkt.error[w].hz, w, point[0].hz, point[1].hz) : dac' = y
    BY <2>2 DEF SetDac
  <2>4. w \in Windows /\ pkt.flag[w] /\ Delivered
    BY <2>1 DEF Deciding, Delivered
  <2>5. pkt.error[w].hz = PpsError(gain, centre, dac, w) /\ Abs(PpsError(gain, centre, dac, w)) > Tol[w]
    BY <2>1, <2>4 DEF Reports, CopyPresent, Present, Hz, Over
  <2>6. PICK c \in Centres : /\ point[0].hz = PpsError(gain, c, Min, 1)
                             /\ point[1].hz = PpsError(gain, c, Max, 1)
    BY <2>1 DEF Reports, LinePresent, LineOf
  <2> QED
    BY <1>1, <2>3, <2>4, <2>5, <2>6, CorrectedNearer
<1> QED
  BY <1>2, <1>3

\* Coarse tuning ends within a Hertz, and every correction after it contracts:
\* for every oscillator, tolerance and range of the assumptions, wherever the
\* oscillator drifts between the corrections.
THEOREM TamerContracts == Spec => Contracts
<1>1. IInv /\ Reports /\ [Next]_vars
        => [~late => /\ CoarseTuneDone => gain[1] * Abs(dac' - centre) <= gain[2] + gain[1]
                     /\ FineTune /\ Deciding # {} => Abs(dac' - centre) < Abs(dac - centre)]_vars
  BY TuningContracts
<1> QED
  BY <1>1, TamerInductive, ReportsPresent, PTL DEF Spec, Contracts

=============================================================================
