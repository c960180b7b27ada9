---------------------------- MODULE MainInvariant ----------------------------
(***************************************************************************)
(* The inductive invariant of MainLoop: what holds between two steps of    *)
(* the firmware about the requests of the PLLs (PllInv), the commands of   *)
(* the ADC (AdcInv), a call of the SPI driver (SpiInv), and about where    *)
(* the one thread is (ThreadInv).  Module MainProofs proves it.            *)
(***************************************************************************)
EXTENDS MainLoop

(***************************************************************************)
(* The requests of the PLLs.                                               *)
(***************************************************************************)

\* The places of a pass at which a request seen at its start is unserved.
Before == [phase  |-> {"phase"},
           config |-> {"phase", "config"},
           reset  |-> {"phase", "config", "mode", "params", "start", "poll",
                       "reset_pll", "reset"}]

\* Places at which a configuration is being written, and until its result is.
Writing     == {"mode", "params", "start", "poll"}
Configuring == Writing \cup {"reset_pll"}

\* An edge is sampled in the pass after the command that raised it, and seen
\* until the next sample.
EdgeOfAge ==
  /\ pc = "dispatch" => now = start /\ \A k \in Kinds : Edge(k) <=> age[k] = 0
  /\ pc # "dispatch" =>
       \A k \in Kinds : /\ Edge(k) <=> age[k] = 1
                        /\ (start[k] /\ ~now[k]) <=> age[k] = 0

Unserved(k) == age[k] = 0 \/ (age[k] = 1 /\ pc \in Before[k])

\* One request of a kind at most is not served yet.
ServedOfAge ==
  /\ raised \in [Kinds -> Nat] /\ served \in [Kinds -> Nat]
  /\ \A k \in Kinds : raised[k] = served[k] + (IF Unserved(k) THEN 1 ELSE 0)

StatusInv ==
  /\ pc \in Configuring => served["config"] > 0
  /\ pc \in Configuring \/ (stat.done /\ ~stat.busy)
  /\ served["config"] > 0 /\ pc \notin Writing => pllcfgrez \in {NoErr, CxTimeout}
  /\ (served["phase"] = 0 \/ served["config"] > 0) /\ pc \notin Configuring =>
       stat.err \in {NoErr, CxTimeout}
  /\ pc = "poll" => timeout <= Timeout + 1

\* A core that no service has left behind is idle outside the poll of it.
CoreInv ==
  \A p \in Plls : ~late[p] /\ ~(pc = "poll" /\ p = Base) => core[p] = "idle"

\* The configuration being written, and the one that was written last.
JobInv ==
  /\ pc \in {"start", "poll"} => job.pll = Base
  /\ pc = "start" => usr[Base] = job.cfg /\ job.late = late[Base]
  /\ pc = "poll" /\ ~job.late =>
       /\ ~late[Base] /\ target[Base] = job.cfg /\ core[Base] # "idle"
       /\ core[Base] = "locked" => applied[Base] = job.cfg
  /\ served["config"] > 0 /\ pc \notin Writing /\ pllcfgrez = NoErr /\ ~job.late =>
       applied[job.pll] = job.cfg /\ core[job.pll] = "idle"

PllInv == TypeOK /\ EdgeOfAge /\ ServedOfAge /\ StatusInv /\ CoreInv /\ JobInv

(***************************************************************************)
(* The thread.                                                             *)
(***************************************************************************)

\* The driver is in a call for the ADC, or the rest of the loop is at a command
\* of the host; a host that makes no requests has never made one.
ThreadInv ==
  /\ InDriver /\ InRest => pc = "dispatch" /\ NoRequests
  /\ InDriver /\ ~InRest => adc_pc \in {"init", "change"} /\ todo # <<>>
  /\ NoRequests => \A k \in Kinds : age[k] = 2

(***************************************************************************)
(* A call of the SPI driver.                                               *)
(***************************************************************************)

Total == writes + reads

\* The byte under way has been written and not been taken back.
UnderWay == spi_core[master].tx # 0 \/ spi_core[master].shift # 0

\* Only the core of the call is selected or moves bytes.
OthersQuiet ==
  \A m \in Masters :
    /\ ~spi_core[m].roe
    /\ sso[m] <=> m = master /\ spi_pc \notin {"idle", "select"}
    /\ (m # master \/ spi_pc \in {"idle", "select", "discard", "finish", "release"}) =>
         spi_core[m].tx = 0 /\ spi_core[m].shift = 0

\* A call begins with nothing sent.
CallBegins ==
  /\ spi_pc = "idle" => frame = <<>>
  /\ spi_pc # "idle" => Total > 0
  /\ spi_pc \in {"select", "discard"} =>
       frame = <<>> /\ sent = 0 /\ credits = 1 /\ ignore = writes /\ data = <<>>

\* In the loop one byte at most is in the core, the last one sent, in one of
\* its registers; all before it are in the frame.
OneByte ==
  spi_pc \in {"poll", "send", "receive"} =>
    LET c == spi_core[master] IN
    /\ credits \in {0, 1}
    /\ credits = 1 <=> c.tx = 0 /\ c.shift = 0 /\ c.rx = 0
    /\ c.tx \in {0, sent} /\ c.shift \in {0, sent} /\ c.rx \in {0, sent}
    /\ c.tx # 0 => c.shift = 0 /\ c.rx = 0
    /\ c.shift # 0 => c.rx = 0
    /\ Len(frame) = IF UnderWay THEN sent - 1 ELSE sent
    /\ (writes - ignore) + Len(data) = sent - (1 - credits)
    /\ (writes - ignore) + Len(data) < Total
    /\ spi_pc # "poll" /\ status.rrdy => c.rx # 0

Complete ==
  spi_pc \in {"finish", "release"} =>
    ignore = 0 /\ Len(data) = reads /\ Len(frame) = Total

\* What the chip has got, and what it has sent.
Contents ==
  /\ \A i \in 1 .. Len(frame) : frame[i] = i
  /\ \A i \in 1 .. Len(data) : data[i] = writes + i
  /\ ignore > 0 => data = <<>>

SpiInv ==
  Spi!TypeOK /\ OthersQuiet /\ CallBegins /\ OneByte /\ Complete /\ Contents

(***************************************************************************)
(* The commands of the ADC.                                                *)
(***************************************************************************)

Commands == {"write", "read"} \X (Adc!Addresses \cup {0}) \X (0 .. 255)

\* todo is what is left of a routine after its first n - 1 commands.
Left(routine, n) ==
  /\ n \in 1 .. Len(routine) + 1
  /\ Len(todo) = Len(routine) + 1 - n
  /\ \A i \in 1 .. Len(todo) : todo[i] = routine[n - 1 + i]

PatternLoaded(n) == \A i \in DOMAIN Adc!Pattern :
                      i < n => regs[Adc!Pattern[i][2]] = Adc!Pattern[i][3]

\* The reset is first; the readout is on from the 22nd command to the last.
Initialising ==
  adc_pc = "init" =>
    \E n \in 1 .. 38 :
      /\ Left(Adc!init_ADC, n)
      /\ n > 1 => regs[Adc!DigitalFunctions] = 0 /\ (readout <=> n \in 23 .. 37)

\* The pattern is written before it is enabled, and read back in readout.
Changing ==
  adc_pc = "change" =>
    /\ sw2 # sw2_old
    /\ \E n \in 1 .. 11 :
         /\ Left(Adc!change_ADC_tpat(sw2), n)
         /\ sw2 = 1 => /\ Adc!Enabled <=> n > 6
                       /\ PatternLoaded(n - 1)
                       /\ readout <=> n \in 8 .. 10
         /\ sw2 = 0 => /\ ~readout /\ PatternLoaded(5)
                       /\ Adc!Enabled <=> n = 1

\* Outside the routines the ADC is in the mode of the last switch sampled.
Settled ==
  adc_pc \in {"check", "sample", "rest"} =>
    /\ todo = <<>> /\ ~readout
    /\ Adc!Enabled <=> sw2_old = 1
    /\ adc_pc = "sample" => sw2 = sw2_old
    /\ Adc!Enabled => PatternLoaded(5)

AdcInv ==
  /\ Adc!TypeOK /\ todo \in Seq(Commands) /\ regs = written
  /\ Initialising /\ Changing /\ Settled

IInv == PllInv /\ ThreadInv /\ SpiInv /\ AdcInv
=============================================================================
