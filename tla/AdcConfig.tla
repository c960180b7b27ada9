------------------------------ MODULE AdcConfig ------------------------------
(***************************************************************************)
(* Configuration of the external ADC by the firmware: init_ADC when it     *)
(* starts, change_ADC_tpat when a switch on the board moves.  The ADC has  *)
(* no read bit in its commands: while its readout is enabled every command *)
(* is a read, and otherwise every command is a write, also one the         *)
(* firmware means to be a read.                                            *)
(*                                                                         *)
(* A command is <<kind, address, value>>; each is one call of              *)
(* alt_avalon_spi_command (module SpiCommand).                             *)
(***************************************************************************)
EXTENDS Integers, Sequences, SequencesExt

W(address, value) == <<"write", address, value>>
R(address)        == <<"read", address, 0>>

\* Register 0: bit 0 enables the readout, bit 1 resets the others.
ReadoutOff == W(0, 0)
ReadoutOn  == W(0, 1)
Reset      == W(0, 2)

Zeroed == << \h01, \h03, \h29, \h3D, \h3F, \h40, \h41, \h42, \h45, \h4A, \h58, \hBF,
             \hC1, \hCF, \hF1 >>

\* Ramp as the pattern of both channels, and the low speed mode.
Chosen == << W(\h25, 4), W(\h2B, 4), W(\hDB, 1), W(\hEF, 16), W(\hF2, 8) >>

Checked == << \h3F, \h40, \h41, \h42, \h45, \h4A, \h58, \hBF, \hC1, \hCF, \hDB, \hEF,
              \hF1, \hF2 >>

VARIABLES
  pc,       \* where the main loop is
  todo,     \* commands of the routine being executed
  sw2,      \* the switch as it was read last
  sw2_old,  \* and the time before
  pin,      \* the switch
  readout,  \* the ADC answers commands with a register's content
  regs,     \* the registers of the ADC
  written   \* history: what the firmware wrote last, since it reset them

vars == <<pc, todo, sw2, sw2_old, pin, readout, regs, written>>

Addresses == ToSet(Zeroed) \cup {c[2] : c \in ToSet(Chosen)}

Cleared == [a \in Addresses |-> 0]

DigitalFunctions == \h42

\* The digital functions of the ADC, its test patterns among them.
Enabled == regs[DigitalFunctions] = 8

TypeOK ==
  /\ pc \in {"init", "check", "change", "sample", "rest"}
  /\ \A i \in DOMAIN todo : todo[i][2] \in Addresses \cup {0}
  /\ sw2 \in 0 .. 1 /\ sw2_old \in 0 .. 1 /\ pin \in 0 .. 1
  /\ readout \in BOOLEAN
  /\ regs \in [Addresses -> 0 .. 255] /\ written \in [Addresses -> 0 .. 255]

-----------------------------------------------------------------------------
(* The routines.                                                           *)

\* Mutant: the registers are checked without enabling the readout.
InitWithoutReadout ==
  <<Reset>> \o [i \in DOMAIN Zeroed |-> W(Zeroed[i], 0)] \o Chosen
            \o [i \in DOMAIN Checked |-> R(Checked[i])] \o <<ReadoutOff>>

\* (The code writes Zeroed and Chosen in the order of their addresses.)
init_ADC ==
  <<Reset>> \o [i \in DOMAIN Zeroed |-> W(Zeroed[i], 0)] \o Chosen
            \o <<ReadoutOn>>
            \o [i \in DOMAIN Checked |-> R(Checked[i])] \o <<ReadoutOff>>

Pattern == << W(\h25, 3), W(\h2B, 3), W(\h3F, 31), W(\h40, 255) >>

CheckPattern == << ReadoutOn, R(\h3F), R(DigitalFunctions), ReadoutOff >>

change_ADC_tpat(mode) ==
  IF mode = 1
    THEN <<ReadoutOff>> \o Pattern \o <<W(DigitalFunctions, 8)>> \o CheckPattern
    ELSE <<W(DigitalFunctions, 0)>>

\* The ADC takes a command: register 0 always, the others unless it is in
\* readout; a read it does not know to be one writes the zero that the
\* processor sends to clock the answer in.
Take(command) ==
  LET a == command[2]
      v == command[3] IN
  IF a = 0
    THEN /\ readout' = (v = 1)
         /\ IF v = 2 THEN regs' = Cleared /\ written' = Cleared
                     ELSE UNCHANGED <<regs, written>>
    ELSE /\ regs' = IF readout THEN regs ELSE [regs EXCEPT ![a] = v]
         /\ written' = IF command[1] = "write" THEN [written EXCEPT ![a] = v]
                                               ELSE written
         /\ UNCHANGED readout

-----------------------------------------------------------------------------
\* The firmware starts.  The ADC is powered up with it, or the program that ran
\* before was cut short anywhere.
Init ==
  /\ pc = "init" /\ todo = init_ADC
  /\ sw2 = 0 /\ sw2_old = 0 /\ pin \in 0 .. 1
  /\ readout \in BOOLEAN
  /\ \E v \in {0, 8} : regs = [Cleared EXCEPT ![DigitalFunctions] = v]
  /\ written = regs

Command ==
  /\ pc \in {"init", "change"} /\ todo # <<>>
  /\ Take(Head(todo))
  /\ todo' = Tail(todo)
  /\ UNCHANGED <<pc, sw2, sw2_old, pin>>

\* Mutant: no change is seen at the start.
AssumeUnchanged == sw2' = pin /\ sw2_old' = pin

FirstSample == sw2' = pin /\ sw2_old' = 0

InitDone ==
  /\ pc = "init" /\ todo = <<>>
  /\ FirstSample
  /\ pc' = "check"
  /\ UNCHANGED <<todo, pin, readout, regs, written>>

Check ==
  /\ pc = "check"
  /\ IF sw2_old # sw2 THEN todo' = change_ADC_tpat(sw2) /\ pc' = "change"
                      ELSE pc' = "sample" /\ UNCHANGED todo
  /\ UNCHANGED <<sw2, sw2_old, pin, readout, regs, written>>

SampleSwitch == sw2_old' = sw2 /\ sw2' = pin

Sample ==
  /\ pc = "sample" \/ (pc = "change" /\ todo = <<>>)
  /\ SampleSwitch
  /\ pc' = "rest"
  /\ UNCHANGED <<todo, pin, readout, regs, written>>

\* The rest of the loop (modules PllConfig, Tamer, Dispatcher).
Rest ==
  /\ pc = "rest"
  /\ pc' = "check"
  /\ UNCHANGED <<todo, sw2, sw2_old, pin, readout, regs, written>>

Flip ==
  /\ pin' = 1 - pin
  /\ UNCHANGED <<pc, todo, sw2, sw2_old, readout, regs, written>>

Next == Command \/ InitDone \/ Check \/ Sample \/ Rest \/ Flip

Spec == Init /\ [][Next]_vars

-----------------------------------------------------------------------------
\* The ADC's registers hold what the firmware wrote into them: no write meets
\* an ADC in readout, no read one that is not.
RegistersAsWritten == regs = written

\* From the reset of its registers on, the ADC only shows a test pattern when
\* all of it is loaded.
PatternWhole ==
  Len(todo) < Len(init_ADC) /\ Enabled =>
    \A i \in DOMAIN Pattern : regs[Pattern[i][2]] = Pattern[i][3]

\* When the switch is left alone the ADC ends up in the mode it selects.
SwitchFollowed ==
  \A x \in 0 .. 1 : <>[](pin = x) => <>[](Enabled <=> x = 1)
=============================================================================
