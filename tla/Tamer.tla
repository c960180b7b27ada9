------------------------------- MODULE Tamer --------------------------------
(***************************************************************************)
(* Taming of the VCTCXO.  Counters in vctcxo_tamer measure the frequency   *)
(* over one, ten and a hundred periods of a 1 pps reference and interrupt  *)
(* when the error exceeds a tolerance; the main loop of the firmware polls *)
(* the interrupt, moves the trim DAC to its minimum, then to its maximum,  *)
(* draws a line through the two errors and from then on corrects by it.    *)
(* A host switches the tamer on and off in the dispatcher, at the end of a *)
(* pass, and leaves the DAC to it.  The arithmetic is in TrimLine.         *)
(***************************************************************************)
EXTENDS TrimLine, FiniteSets

CONSTANTS
  Windows,     \* lengths of the counters in pulses (1, 10 and 100 in the code)
  Tol,         \* PPS_*_ERROR_TOL, by window
  Gains,       \* Hz for a DAC step an oscillator may have
  Centres,     \* DAC values without error it may have
  MaxSwitches, \* bound: writes of the enable bit by the host
  MaxDrifts    \* bound: changes of the centre

ASSUME WindowsAssumption ==
  /\ IsFiniteSet(Windows) /\ 1 \in Windows /\ Windows \subseteq Nat \ {0}
ASSUME BoundsAssumption == MaxSwitches \in Nat /\ MaxDrifts \in Nat
ASSUME OscillatorAssumption ==
  /\ Centres \subseteq Min .. Max
  /\ \A g \in Gains : g[1] \in Nat \ {0} /\ g[2] \in Nat \ {0}

\* At the ends of the DAC's range some window is over its tolerance; otherwise
\* the counters would never interrupt there.
ASSUME EndsAssumption ==
  \A g \in Gains, c \in Centres, y \in {Min, Max} :
    \E w \in Windows : Abs(PpsError(g, c, y, w)) > Tol[w]

\* A step of the DAC stays within the tolerance of every window, the ends of the
\* line are some Hertz apart, and the DAC has room beyond each of them for the
\* rounding of the line.  (In the code Tol is 1, 3 and 31, and the ends leave
\* 6456 and 7436 values: this holds from a third of a mHz a step to 0.3 Hz.)
ASSUME TunableAssumption ==
  /\ \A w \in Windows : Tol[w] \in Nat
  /\ \A g \in Gains :
       /\ \A w \in Windows : w * g[1] <= Tol[w] * g[2]
       /\ 5 * g[2] <= g[1] * (Max - Min)
       /\ \A room \in {Min, 2^Width - 1 - Max} :
            g[2] * (2 * 2^Width + Max - Min)
              <= (2 * room - 1) * (g[1] * (Max - Min) - g[2])

VARIABLES
  gain, centre, \* the oscillator
  hw,         \* control register of vctcxo_tamer: reset, irq_en, pps
  ctrl_reg,   \* vctcxo_tamer_ctrl_reg, its cached version
  hold,       \* vctcxo_reset_hold
  count,      \* pulses in a window; Idle before the first
  error,      \* error registers, as measurements
  error_v,    \* error over tolerance, by window
  irq,        \* mm_irq
  en,         \* enable bit in the register file
  tamer_en,   \* vctcxo_tamer_en, the bit as the firmware last saw it
  pkt,        \* vctcxo_tamer_pkt: errors and flags copied by the ISR
  ready,      \* vctcxo_tamer_pkt.ready
  tune_state,
  point,      \* trimdac_cal_line.point, as measurements
  dac,        \* the trim DAC, and its cached value vctcxo_trim_dac_value
  pc,         \* where the main loop is
  own,        \* history: the DAC has not moved since the window began
  late,       \* history: an interrupt came between its poll and the last disabling
  switches, drifts

counters == <<hold, count, own>>
results  == <<error, error_v, irq>>
tuning   == <<tune_state, point, dac>>
host     == <<en, switches>>
osc      == <<gain, centre, drifts>>
vars == <<osc, hw, ctrl_reg, counters, results, tamer_en, pkt, ready, tuning, pc, late, host>>

Idle     == -1

\* A measurement: the error, the DAC value when the window ended, and whether
\* that was the value all through the window and still is.
Measurements == [hz : Int, at : DacValues, own : BOOLEAN]
Never        == [hz |-> 0, at |-> 0, own |-> FALSE]

TypeOK ==
  /\ gain \in Gains /\ centre \in Centres /\ drifts \in 0 .. MaxDrifts
  /\ hw \in [reset : BOOLEAN, irq_en : BOOLEAN, pps : BOOLEAN]
  /\ ctrl_reg \in [reset : BOOLEAN, irq_en : BOOLEAN, pps : BOOLEAN]
  /\ count \in [Windows -> {Idle} \cup Nat] /\ \A w \in Windows : count[w] <= w
  /\ hold \in BOOLEAN /\ own \in [Windows -> BOOLEAN]
  /\ error \in [Windows -> Measurements] /\ error_v \in [Windows -> BOOLEAN]
  /\ irq \in BOOLEAN /\ en \in BOOLEAN /\ tamer_en \in BOOLEAN /\ ready \in BOOLEAN
  /\ pkt \in [error : [Windows -> Measurements], flag : [Windows -> BOOLEAN]]
  /\ tune_state \in {"MIN", "MAX", "DONE", "FINE"}
  /\ point \in [0 .. 1 -> Measurements] /\ dac \in DacValues
  /\ pc \in {"poll", "isr_off", "isr_reset", "isr_read", "isr_clear", "enable",
             "mode_off", "mode_set", "mode_reset", "mode_release", "mode_on",
             "tune", "release", "irq_on", "dispatch"}
  /\ late \in BOOLEAN /\ switches \in 0 .. MaxSwitches

Init ==
  /\ gain \in Gains /\ centre \in Centres /\ drifts = 0
  /\ hw = [reset |-> TRUE, irq_en |-> FALSE, pps |-> FALSE]
  /\ ctrl_reg = [reset |-> FALSE, irq_en |-> FALSE, pps |-> FALSE]
  /\ hold = TRUE /\ count = [w \in Windows |-> Idle] /\ own = [w \in Windows |-> FALSE]
  /\ error = [w \in Windows |-> Never] /\ error_v = [w \in Windows |-> FALSE]
  /\ irq = FALSE /\ en = FALSE /\ tamer_en = FALSE /\ ready = FALSE
  /\ pkt = [error |-> error, flag |-> error_v]
  /\ tune_state = "MIN" /\ point = [i \in 0 .. 1 |-> Never] /\ dac = 2^Width \div 2
  /\ pc = "poll" /\ late = FALSE /\ switches = 0

-----------------------------------------------------------------------------
(* The counters.                                                           *)

\* The hold of the counters is longer than the few writes of the firmware
\* between their release and the DAC value and interrupt enable they are for.
HoldEnds ==
  /\ hold /\ ~hw.reset /\ pc \notin {"mode_on", "release", "irq_on"}
  /\ ~(pc = "tune" /\ ready)
  /\ hold' = FALSE
  /\ UNCHANGED <<osc, hw, ctrl_reg, count, own, results, tamer_en, pkt, ready,
                 tuning, pc, late, host>>

NextCount(w) == IF count[w] = w THEN w ELSE count[w] + 1

\* Bound: a tamer whose calibration began with a late interrupt has no more to
\* measure after it.  Its corrections, by a wrong line, lead anywhere.
Measuring == ~(late /\ tune_state = "FINE")

\* A pulse begins a window or is counted in it.  The counts of the pulse
\* before have long been taken over.
Pulse ==
  /\ Measuring /\ hw.pps /\ ~hw.reset /\ ~hold /\ \A w \in Windows : count[w] < w
  /\ count' = [w \in Windows |-> NextCount(w)]
  /\ own' = [w \in Windows |-> count[w] = Idle \/ own[w]]
  /\ UNCHANGED <<osc, hw, ctrl_reg, hold, results, tamer_en, pkt, ready, tuning, pc,
                 late, host>>

Hz(w)   == PpsError(gain, centre, dac, w)
Over(w) == Abs(Hz(w)) > Tol[w]

\* A full window arrives in the system's clock domain: int_req_proc.
CountValid(w) ==
  /\ count[w] = w
  /\ count' = [count EXCEPT ![w] = Idle]
  /\ IF hw.irq_en
     THEN /\ error' = [error EXCEPT ![w] = [hz |-> Hz(w), at |-> dac, own |-> own[w]]]
          /\ error_v' = [error_v EXCEPT ![w] = @ \/ Over(w)]
          /\ irq' = (irq \/ Over(w))
     ELSE UNCHANGED results
  /\ UNCHANGED <<osc, hw, ctrl_reg, hold, own, tamer_en, pkt, ready, tuning, pc,
                 late, host>>

-----------------------------------------------------------------------------
(* Writes of the firmware.                                                 *)

\* A write of the control register; its reset bit stops the counters.
Write(r) ==
  /\ ctrl_reg' = r /\ hw' = r
  /\ IF r.reset THEN /\ hold' = TRUE
                     /\ count' = [w \in Windows |-> Idle]
                     /\ own' = [w \in Windows |-> FALSE]
                ELSE UNCHANGED counters

reset_counters(b) == Write([ctrl_reg EXCEPT !.reset = b])
enable_isr(b)     == Write([ctrl_reg EXCEPT !.irq_en = b])

Disown(ms) == [w \in Windows |-> [ms[w] EXCEPT !.own = FALSE]]

\* The DAC moves: what was measured, or is being measured, is of another value.
SetDac(value) ==
  /\ dac' = value
  /\ own' = [w \in Windows |-> FALSE]
  /\ error' = Disown(error) /\ pkt' = [pkt EXCEPT !.error = Disown(@)]

-----------------------------------------------------------------------------
(* The interrupt service routine, called when the main loop sees irq.      *)

Poll ==
  /\ pc = "poll"
  /\ pc' = IF irq THEN "isr_off" ELSE "enable"
  /\ UNCHANGED <<osc, hw, ctrl_reg, counters, results, tamer_en, pkt, ready, tuning,
                 late, host>>

IsrOff ==
  /\ pc = "isr_off" /\ enable_isr(FALSE) /\ pc' = "isr_reset"
  /\ UNCHANGED <<osc, results, tamer_en, pkt, ready, tuning, late, host>>

\* Mutant: the ISR lets the counters run on.
IsrResetNot ==
  /\ pc = "isr_reset" /\ pc' = "isr_read"
  /\ UNCHANGED <<osc, hw, ctrl_reg, counters, results, tamer_en, pkt, ready, tuning,
                 late, host>>

IsrReset ==
  /\ pc = "isr_reset" /\ reset_counters(TRUE) /\ pc' = "isr_read"
  /\ UNCHANGED <<osc, results, tamer_en, pkt, ready, tuning, late, host>>

IsrRead ==
  /\ pc = "isr_read" /\ pc' = "isr_clear"
  /\ pkt' = [error |-> error, flag |-> error_v]
  /\ UNCHANGED <<osc, hw, ctrl_reg, counters, results, tamer_en, ready, tuning,
                 late, host>>

\* IRQ_CLR is written with the interrupt disabled and falls back by itself.
IsrClear ==
  /\ pc = "isr_clear" /\ pc' = "enable" /\ ready' = TRUE
  /\ error_v' = [w \in Windows |-> FALSE] /\ irq' = FALSE
  /\ UNCHANGED <<osc, hw, ctrl_reg, counters, error, tamer_en, pkt, tuning, late, host>>

-----------------------------------------------------------------------------
(* An edge of the enable bit: vctcxo_tamer_init and vctcxo_tamer_dis.      *)

SeeEnable ==
  /\ pc = "enable" /\ tamer_en' = en
  /\ pc' = IF en = tamer_en THEN "tune" ELSE "mode_off"
  /\ UNCHANGED <<osc, hw, ctrl_reg, counters, results, pkt, ready, tuning, late, host>>

ModeOff ==
  /\ pc = "mode_off" /\ enable_isr(FALSE) /\ pc' = "mode_set"
  /\ UNCHANGED <<osc, results, tamer_en, pkt, ready, tuning, late, host>>

ModeSet ==
  /\ pc = "mode_set" /\ Write([ctrl_reg EXCEPT !.pps = tamer_en]) /\ pc' = "mode_reset"
  /\ UNCHANGED <<osc, results, tamer_en, pkt, ready, tuning, late, host>>

ModeReset ==
  /\ pc = "mode_reset" /\ reset_counters(TRUE)
  /\ IF tamer_en
     THEN pc' = "mode_release" /\ UNCHANGED <<ready, tune_state, late>>
     ELSE pc' = "tune" /\ ready' = FALSE /\ tune_state' = "MIN" /\ late' = irq
  /\ UNCHANGED <<osc, results, tamer_en, pkt, point, dac, host>>

ModeRelease ==
  /\ pc = "mode_release" /\ reset_counters(FALSE) /\ pc' = "mode_on"
  /\ UNCHANGED <<osc, results, tamer_en, pkt, ready, tuning, late, host>>

ModeOn ==
  /\ pc = "mode_on" /\ enable_isr(TRUE) /\ ready' = TRUE /\ pc' = "tune"
  /\ UNCHANGED <<osc, results, tamer_en, pkt, tuning, late, host>>

-----------------------------------------------------------------------------
(* A tuning step.                                                          *)

NotReady ==
  /\ pc = "tune" /\ ~ready /\ pc' = "dispatch"
  /\ UNCHANGED <<osc, hw, ctrl_reg, counters, results, tamer_en, pkt, ready, tuning,
                 late, host>>

Step(state) ==
  /\ pc = "tune" /\ ready /\ tune_state = state /\ ready' = FALSE /\ pc' = "release"
  /\ UNCHANGED <<osc, hw, ctrl_reg, hold, count, error_v, irq, tamer_en, late, host>>

CoarseTuneMin ==
  /\ Step("MIN") /\ SetDac(Min) /\ tune_state' = "MAX" /\ UNCHANGED point

CoarseTuneMax ==
  /\ Step("MAX") /\ point' = [point EXCEPT ![0] = pkt.error[1]]
  /\ SetDac(Max) /\ tune_state' = "DONE"

CoarseTuneDone ==
  /\ Step("DONE") /\ point' = [point EXCEPT ![1] = pkt.error[1]]
  /\ \E y \in Intercept(point[0].hz, pkt.error[1].hz) : SetDac(y)
  /\ tune_state' = "FINE"

\* The window that decides a correction: the shortest with its flag set.
Deciding == {w \in Windows : pkt.flag[w] /\ \A v \in Windows : pkt.flag[v] => w <= v}

FineTune ==
  /\ Step("FINE") /\ UNCHANGED <<tune_state, point>>
  /\ IF Deciding = {} THEN UNCHANGED <<dac, own, error, pkt>>
     ELSE \E w \in Deciding :
            \E y \in Corrected(dac, pkt.error[w].hz, w, point[0].hz, point[1].hz) :
              SetDac(y)

Tune == NotReady \/ CoarseTuneMin \/ CoarseTuneMax \/ CoarseTuneDone \/ FineTune

\* Mutant: the counters are left in reset after a step.
ReleaseNot ==
  /\ pc = "release" /\ pc' = "irq_on"
  /\ UNCHANGED <<osc, hw, ctrl_reg, counters, results, tamer_en, pkt, ready, tuning,
                 late, host>>

Release ==
  /\ pc = "release" /\ reset_counters(FALSE) /\ pc' = "irq_on"
  /\ UNCHANGED <<osc, results, tamer_en, pkt, ready, tuning, late, host>>

IrqOn ==
  /\ pc = "irq_on" /\ enable_isr(TRUE) /\ pc' = "dispatch"
  /\ UNCHANGED <<osc, results, tamer_en, pkt, ready, tuning, late, host>>

-----------------------------------------------------------------------------
(* The dispatcher executes at most one command of the host.                *)

SwitchTamer == switches < MaxSwitches /\ switches' = switches + 1 /\ en' = ~en

Dispatch ==
  /\ pc = "dispatch" /\ pc' = "poll"
  /\ UNCHANGED host \/ SwitchTamer
  /\ UNCHANGED <<osc, hw, ctrl_reg, counters, results, tamer_en, pkt, ready, tuning,
                 late>>

Firmware ==
  \/ Poll \/ IsrOff \/ IsrReset \/ IsrRead \/ IsrClear
  \/ SeeEnable \/ ModeOff \/ ModeSet \/ ModeReset \/ ModeRelease \/ ModeOn
  \/ Tune \/ Release \/ IrqOn \/ Dispatch

\* The oscillator ages or warms up, in a time in which nothing is measured.
Drift ==
  /\ Measuring /\ tune_state = "FINE" /\ hold /\ ~ready /\ ~irq
  /\ drifts < MaxDrifts /\ drifts' = drifts + 1
  /\ centre' \in Centres
  /\ UNCHANGED <<gain, hw, ctrl_reg, counters, results, tamer_en, pkt, ready, tuning,
                 pc, late, host>>

Next == Firmware \/ Drift \/ HoldEnds \/ Pulse \/ \E w \in Windows : CountValid(w)

Spec == Init /\ [][Next]_vars

\* The firmware runs, the reference pulses and the counters follow it.
Fairness ==
  /\ WF_vars(Firmware) /\ WF_vars(HoldEnds) /\ WF_vars(Pulse)
  /\ \A w \in Windows : WF_vars(CountValid(w))

FairSpec == Spec /\ Fairness

-----------------------------------------------------------------------------
(* Properties.                                                             *)

\* The two points of the line are the errors of the DAC's minimum and of its
\* maximum, each measured over a whole window with the DAC at that setting.
Calibrated ==
  /\ tune_state \in {"DONE", "FINE"} => point[0].at = Min /\ point[0].own
  /\ tune_state = "FINE"             => point[1].at = Max /\ point[1].own

\* A correction in fine tuning is by an error of the setting it corrects: no
\* correction is applied twice, and none is of a window the DAC moved in.
CorrectsOwnError ==
  pc = "tune" /\ ready /\ tune_state = "FINE" =>
    \A w \in Deciding : pkt.error[w].at = dac /\ pkt.error[w].own

\* Variables are in their types, and every decision is by a measurement of the
\* setting it is about.  (An interrupt that came while the tamer was being
\* switched off is served when it is off, as a step of the next calibration:
\* until the tamer is switched off again nothing can be said.)
OwnMeasurements == TypeOK /\ (~late => Calibrated /\ CorrectsOwnError)

\* The intercept of the coarse line, built from two errors rounded to a Hertz,
\* is within a Hertz of the DAC value without error, and every correction after
\* it brings the DAC nearer to that value: though each is a subtraction of
\* unsigned numbers it never wraps round the end of the range, goes the wrong
\* way, or overshoots as far as it was off.
Contracts ==
  [][~late =>
       /\ CoarseTuneDone => gain[1] * Abs(dac' - centre) <= gain[2] + gain[1]
       /\ FineTune /\ Deciding # {} => Abs(dac' - centre) < Abs(dac - centre)]_vars

\* A tamer that stays switched on gets through the coarse steps, whatever edge
\* and interrupt meet in a pass, and comes to rest with every window within its
\* tolerance: the corrections of the windows do not fight each other.
Settles ==
  (<>[]en) => <>[](tune_state = "FINE" /\ (late \/ \A w \in Windows : ~Over(w)))
=============================================================================
