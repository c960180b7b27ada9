------------------------------ MODULE MainLoop ------------------------------
(***************************************************************************)
(* The firmware's processor: one thread that configures the ADC and then   *)
(* goes round the main loop, ADC switch first (AdcConfig), requests of the *)
(* PLLs next (PllConfig, which this module extends), a command of the host *)
(* last.  Commands to the ADC, and host commands to other chips, are calls *)
(* of the SPI driver (SpiCommand) during which the thread does nothing     *)
(* else.  SPI cores, PLLs and the switch move beside it.                   *)
(***************************************************************************)
EXTENDS PllConfig, Sequences

CONSTANTS
  Masters,    \* the SPI cores on the bus
  AdcMaster,  \* the one the ADC is on
  MaxWrite,   \* bound: write_length of a host command
  MaxRead     \* bound: read_length

ASSUME MastersAssumption == AdcMaster \in Masters
ASSUME LengthAssumption  == MaxWrite \in Nat \ {0, 1} /\ MaxRead \in Nat \ {0}

VARIABLES
  adc_pc, todo, sw2, sw2_old, pin, readout, regs, written,    \* of AdcConfig
  spi_pc, master, writes, reads, credits, sent, ignore, data, \* of SpiCommand
  status, spi_core, sso, frame

adcVars  == <<adc_pc, todo, sw2, sw2_old, pin, readout, regs, written>>
spiVars  == <<spi_pc, master, writes, reads, credits, sent, ignore, data, status,
              spi_core, sso, frame>>
mainVars == <<vars, adcVars, spiVars>>

Adc == INSTANCE AdcConfig WITH pc <- adc_pc
Spi == INSTANCE SpiCommand WITH pc <- spi_pc, core <- spi_core

MainTypeOK == TypeOK /\ Adc!TypeOK /\ Spi!TypeOK

\* Bound: a host either writes the registers of PllConfig, and the switch stays
\* off, or gives commands for other chips while the switch moves.
NoRequests == \A k \in Kinds : budget[k] = 0

MainInit ==
  /\ Init /\ Adc!Init /\ Spi!Init
  /\ master = AdcMaster
  /\ \A p \in Plls : locked[p]
  /\ NoRequests \/ pin = 0

-----------------------------------------------------------------------------
(* The thread is in the driver, in the part of AdcConfig, or in the rest.  *)

InDriver == spi_pc # "idle"
InRest   == adc_pc = "rest"

Driver ==
  /\ InDriver
  /\ Spi!Driver
  /\ UNCHANGED <<vars, adcVars>>

\* Of the commands to the ADC a write sends the address and the value, a read
\* the address and takes a byte.
AdcCall ==
  /\ adc_pc \in {"init", "change"} /\ todo # <<>>
  /\ IF Head(todo)[1] = "write" THEN Spi!Call(AdcMaster, 2, 0)
                                ELSE Spi!Call(AdcMaster, 1, 1)
  /\ UNCHANGED <<vars, adcVars>>

AdcReturn ==
  /\ ~InRest
  /\ Spi!Release /\ Adc!Command
  /\ UNCHANGED vars

AdcSwitch ==
  /\ ~InDriver
  /\ Adc!InitDone \/ Adc!Check \/ Adc!Sample
  /\ UNCHANGED <<vars, spiVars>>

PllRequests ==
  /\ InRest /\ pc # "dispatch"
  /\ Firmware
  /\ UNCHANGED <<adcVars, spiVars>>

RegisterCommand ==
  /\ InRest /\ ~InDriver
  /\ Dispatch /\ Adc!Rest
  /\ NoRequests => UNCHANGED hostVars
  /\ UNCHANGED spiVars

ChipCommand ==
  /\ InRest /\ pc = "dispatch" /\ NoRequests
  /\ \E m \in Masters, w \in 1 .. MaxWrite, r \in 0 .. MaxRead : Spi!Call(m, w, r)
  /\ UNCHANGED <<vars, adcVars>>

ChipCommandEnds ==
  /\ InRest
  /\ Spi!Release /\ Adc!Rest
  /\ pc' = "phase"
  /\ UNCHANGED <<budget, hostVars, fwVars, pllVars, history>>

Processor ==
  \/ Driver \/ AdcCall \/ AdcReturn \/ AdcSwitch
  \/ PllRequests \/ RegisterCommand \/ ChipCommand \/ ChipCommandEnds

-----------------------------------------------------------------------------
(* Beside it.                                                              *)

SpiCores == Spi!Core /\ UNCHANGED <<vars, adcVars>>

Pll(p) == (Lock(p) \/ CoreDone(p)) /\ UNCHANGED <<adcVars, spiVars>>

Switch == NoRequests /\ Adc!Flip /\ UNCHANGED <<vars, spiVars>>

MainNext == Processor \/ SpiCores \/ (\E p \in Plls : Pll(p)) \/ Switch

MainSpec == MainInit /\ [][MainNext]_mainVars

\* Processor and cores run, and a PLL with a reference clock locks.
MainFairness ==
  /\ WF_mainVars(Processor) /\ WF_mainVars(SpiCores)
  /\ \A p \in Plls : WF_mainVars(Pll(p))

MainFairSpec == MainSpec /\ MainFairness

-----------------------------------------------------------------------------
(* Besides the properties of PllConfig:                                    *)

\* The ADC is configured as the firmware wrote it: no write meets an ADC in
\* readout, no read one that is not, and from the reset of its registers on it
\* only shows a test pattern when all of it is loaded.
AdcAsWritten == Adc!RegistersAsWritten /\ Adc!PatternWhole

\* When the switch is left alone the ADC ends up in the mode it selects
\* ("Check if ADC test pattern must be changed"), whatever commands the host
\* gives in between.
SwitchFollowed == Adc!SwitchFollowed

\* When the select is released the chip has had exactly the bytes of its
\* command, read_data holds what it sent during the last of them, and no byte
\* was received on top of one that was not read.
Exchanged == Spi!Exchanged

\* The cores share the pins: a core shifts only while it alone is selected.
\* (Variables are in their types, too.)
BusIsOurs == MainTypeOK /\ Spi!BusIsOurs
=============================================================================
