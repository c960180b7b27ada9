----------------------------- MODULE Dispatcher -----------------------------
(***************************************************************************)
(* The command dispatcher of the firmware's main loop and the devices it   *)
(* reaches over SPI and I2C: the two LMS7002M, the FPGA's own registers,   *)
(* the TCXO's DAC and its ADF4002 PLL, the digital potentiometer and the   *)
(* Si5351C.  A command carries blocks, one device access each, which the   *)
(* firmware executes one after the other; the answer carries one status.   *)
(*                                                                         *)
(* The FPGA has several copies (banks) of its registers.  Register Mac     *)
(* selects by its bits those that are written; a word that is read is the  *)
(* disjunction of theirs.  Bit Pin of register Ctrl of bank c is the reset *)
(* pin of LMS7002M number c, which loses its registers while it is low.    *)
(*                                                                         *)
(* A 16-bit register is the set of its bits that are set.  The history     *)
(* variable believed holds, for each device value, what a host may think   *)
(* it is from the answers it got: a completed write fixes it, a failed one *)
(* leaves it open.  The history variable hoped is what it will think when  *)
(* the blocks executed so far are answered as completed.                   *)
(***************************************************************************)
EXTENDS Naturals, Sequences

CONSTANTS
  Suites,     \* sets of commands, of the names below: a host sends those of one
  DataField,  \* bytes of Data_field
  Width,      \* bits of an FPGA register
  Reset,      \* LMS1_RESET and LMS2_RESET, bits of register Ctrl
  Ctrl,       \* BRD_SPI_REG_LMS1_LMS2_CTRL
  Banks,      \* copies of the FPGA's registers
  BrdAddrs,   \* these registers
  BrdDefault, \* their values after a reset
  BrdValues,  \* and what a host writes into them
  Mac,        \* the register that selects banks
  MacValues,  \* and what a host writes into it
  Addrs,      \* registers of an LMS7002M and of the Si5351C
  Values,     \* their values
  LmsDefault, \* those of an LMS7002M after a reset
  AnalogVals, \* values of ANALOG_VAL_WR
  WiperMax    \* the last position of a wiper

Chips == {0, 1}
Bits  == 0 .. Width - 1

Pin == Reset[0]   \* in every bank

ASSUME CtrlAssumption   == Ctrl \in BrdAddrs /\ Mac \notin BrdAddrs
ASSUME BanksAssumption  == Chips \subseteq Banks /\ Banks \subseteq Bits
ASSUME ResetAssumption  == Reset \in [Chips -> Bits] /\ Reset[0] # Reset[1]
ASSUME ValuesAssumption == \A v \in BrdValues \cup MacValues : v \subseteq Bits
ASSUME DefaultAssumption ==
  /\ BrdDefault \in [BrdAddrs -> SUBSET Bits]
  /\ \A c \in Chips : Reset[c] \in BrdDefault[Ctrl]
  /\ LmsDefault \in [Addrs -> Values]

MaxPeriph == 1   \* MAX_ID_LMS7

DefaultDac   == 30714
DefaultWiper == 128
Analog       == AnalogVals \cup {DefaultDac, DefaultWiper}

ASSUME SizesAssumption ==
  /\ Width \in Nat /\ DataField \in Nat \ {0}
  /\ WiperMax \in Nat /\ DefaultWiper <= WiperMax

BlockSize ==
  [LMS7002_WR |-> 4, LMS7002_RD |-> 4, BRDSPI16_WR |-> 4, BRDSPI16_RD |-> 4,
   ADF4002_WR |-> 3, ANALOG_VAL_WR |-> 4, SI5351_WR |-> 2, SI5351_RD |-> 2]

Capacity(c) == IF c \in DOMAIN BlockSize THEN DataField \div BlockSize[c]
               ELSE IF c = "ANALOG_VAL_RD" THEN DataField \div 4 ELSE 1

\* What a block of each command may hold.
Blocks(c) ==
  CASE c \in {"LMS7002_WR", "SI5351_WR"} -> [addr : Addrs, val : Values]
    [] c \in {"LMS7002_RD", "SI5351_RD"} -> [addr : Addrs]
    [] c = "BRDSPI16_WR"   -> [addr : BrdAddrs, val : BrdValues] \cup
                              [addr : {Mac}, val : MacValues]
    [] c = "BRDSPI16_RD"   -> [addr : BrdAddrs \cup {Mac}]
    [] c = "ADF4002_WR"    -> [drives : BOOLEAN]
    [] c = "ANALOG_VAL_WR" -> [ch : {0, 1, 2, 3}, unit : {0, 1}, val : AnalogVals]
    [] c = "ANALOG_VAL_RD" -> [ch : {0, 1, 2, 3, 4}]
    [] c = "LMS_RST"       -> [op : {"DEACTIVATE", "ACTIVATE", "PULSE", "OTHER"}]
    [] OTHER               -> {0}

\* Data_blocks is one byte, whatever fits; only LMS_RST takes a block without
\* looking at it, and the answer to ANALOG_VAL_RD has room for as many blocks
\* as are asked for here.
Counts(c) == IF c = "LMS_RST" THEN {1}
             ELSE IF c \in DOMAIN BlockSize THEN 0 .. Capacity(c) + 1
             ELSE 0 .. Capacity(c)

Fields(c, n) == IF n <= Capacity(c) THEN [1 .. n -> Blocks(c)]
                ELSE {[i \in 1 .. n |-> CHOOSE b \in Blocks(c) : TRUE]}

Periphs(c) == IF c \in {"LMS_RST", "LMS7002_WR", "LMS7002_RD"}
                THEN 0 .. MaxPeriph + 1 ELSE {0}

PacketsOf(c) ==
  UNION {[Command : {c}, Periph_ID : Periphs(c), Data_blocks : {n},
          Data_field : Fields(c, n)] : n \in Counts(c)}

VARIABLES
  suite,     \* the commands this host sends
  lms,       \* registers of the two LMS7002M
  brd,       \* registers of the FPGA, of each bank
  mac,       \* register Mac
  si5351,    \* registers of the Si5351C
  dac,       \* the TCXO DAC: output enabled, and its value
  adf,       \* the ADF4002 charge pump drives the TCXO
  pot,       \* wipers of the MCP4261
  dac_val, wiper_pos, cmd_errors, block,
  pc,        \* "idle", "check", "blocks" or "send"
  rx,        \* LMS_Ctrl_Packet_Rx
  status,    \* of LMS_Ctrl_Packet_Tx
  tx,        \* its values
  start,     \* history: the devices when the command came
  believed,  \* history: the values a host may expect
  hoped      \* history: and those it will once the command is completed

fpga    == <<brd, mac>>
devices == <<lms, fpga, si5351, dac, adf, pot>>
fwVars  == <<dac_val, wiper_pos>>
history == <<start, believed, hoped>>
vars == <<suite, devices, fwVars, cmd_errors, block, pc, rx, status, tx, history>>

NoPacket == [Command |-> "NONE", Periph_ID |-> 0, Data_blocks |-> 0,
             Data_field |-> <<>>]

TypeOK ==
  /\ suite \in Suites
  /\ lms \in [Chips -> [Addrs -> Values]]
  /\ brd \in [Banks -> [BrdAddrs -> SUBSET Bits]] /\ mac \in SUBSET Bits
  /\ si5351 \in [Addrs -> Values]
  /\ dac \in [on : BOOLEAN, val : Analog] /\ adf \in BOOLEAN
  /\ \A i \in Chips : pot[i] \in Analog /\ pot[i] <= WiperMax
  /\ dac_val \in Analog /\ wiper_pos \in [Chips -> Analog]
  /\ cmd_errors \in 0 .. 3 * DataField
  /\ pc \in {"idle", "check", "blocks", "send"}
  /\ rx.Data_blocks \in Nat /\ block \in 0 .. rx.Data_blocks
  /\ status \in {"COMPLETED", "UNKNOWN", "BUSY", "BLOCKS_ERROR", "ERROR",
                 "INVALID_PERIPH_ID"}
  /\ pc \in {"idle", "send"} => status # "BUSY"
  /\ Len(tx) <= block

\* What the FPGA's reset and main() have set up before its loop; the rest is
\* whatever it was, a host has not looked at it.
Init ==
  /\ suite \in Suites
  /\ \E v \in Values : /\ lms = [c \in Chips |-> [a \in Addrs |-> v]]
                       /\ si5351 = [a \in Addrs |-> v]
  /\ brd = [k \in Banks |-> BrdDefault] /\ mac = {0}
  /\ dac = [on |-> TRUE, val |-> DefaultDac] /\ adf = FALSE
  /\ pot = [i \in Chips |-> DefaultWiper]
  /\ dac_val = DefaultDac /\ wiper_pos = [i \in Chips |-> DefaultWiper]
  /\ cmd_errors = 0 /\ block = 0 /\ pc = "idle" /\ rx = NoPacket
  /\ status = "COMPLETED" /\ tx = <<>> /\ start = devices
  /\ believed = [lms    |-> [c \in Chips |-> [a \in Addrs |-> Values]],
                 brd    |-> brd,
                 mac    |-> mac,
                 si5351 |-> [a \in Addrs |-> Values],
                 dac    |-> {DefaultDac},
                 wiper  |-> [i \in Chips |-> {DefaultWiper}]]
  /\ hoped = believed

-----------------------------------------------------------------------------
(* Register helpers.                                                       *)

Shl(word, n) == {b + n : b \in word} \cap Bits
Shr(word, n) == {b - n : b \in {x \in word : x >= n}}

\* The computation of Modify_BRDSPI16_Reg_bits on the value it read.
Modify(word, msb, lsb, new) ==
  LET n == msb - lsb + 1
      mask == Shr(Shl(Bits, Width - n), Width - n)
  IN (word \ Shl(mask, lsb)) \cup Shl(new \cap mask, lsb)

Selected == mac \cap Banks

\* The outputs of the banks are ORed.
BrdWord(a) == IF a = Mac THEN mac ELSE UNION {brd[k][a] : k \in Selected}

\* One write after the other to register a of the banks selected, the last one
\* of word: a chip whose pin was low in between has lost its registers.
BrdStore(a, words, word) ==
  /\ brd' = [k \in Banks |-> IF k \in Selected THEN [brd[k] EXCEPT ![a] = word]
                                                ELSE brd[k]]
  /\ lms' = [c \in Chips |->
               IF a = Ctrl /\ c \in Selected /\ \E w \in words : Pin \notin w
                 THEN LmsDefault ELSE lms[c]]

\* Mutant: the other chip select.
SwappedSelect(periph) == IF periph = 1 THEN 0 ELSE 1

\* Periph_ID == 1 ? SPI_NR_LMS7002M_1 : SPI_NR_LMS7002M_0
Select(periph) == IF periph = 1 THEN 1 ELSE 0

\* Mutant: the output of the DAC stays on.
DacStaysOn(oe, v) == dac' = IF oe THEN [on |-> TRUE, val |-> v] ELSE dac

Control_TCXO_DAC(oe, v) ==
  dac' = IF oe THEN [on |-> TRUE, val |-> v] ELSE [dac EXCEPT !.on = FALSE]

\* With oe = 0 the charge pump goes to three-state; otherwise one block of the
\* host is written, which drives the TCXO or not.
Control_TCXO_ADF(oe, drives) == adf' = (oe /\ drives)

-----------------------------------------------------------------------------
(* One command.                                                            *)

Idle ==
  /\ pc = "idle"
  /\ \E c \in suite : rx' \in PacketsOf(c)
  /\ pc' = "check" /\ status' = "BUSY" /\ cmd_errors' = 0 /\ block' = 0
  /\ tx' = <<>> /\ start' = devices /\ hoped' = believed
  /\ UNCHANGED <<suite, devices, fwVars, believed>>

\* Check_many_blocks; ANALOG_VAL_RD does not call it.
ManyBlocks(p) ==
  p.Command \in DOMAIN BlockSize
    /\ p.Data_blocks > DataField \div BlockSize[p.Command]

\* Check_Periph_ID, which LMS7002_RD does not call.
WrongPeriph(p) ==
  p.Command \in {"LMS_RST", "LMS7002_WR"} /\ p.Periph_ID > MaxPeriph

\* Mutant: the DAC is put in three-state before the blocks are counted.
RefuseAfterDac(s) ==
  /\ status' = s /\ pc' = "send" /\ UNCHANGED <<cmd_errors, block>>
  /\ IF rx.Command = "ADF4002_WR" THEN Control_TCXO_DAC(FALSE, 0)
                                  ELSE UNCHANGED dac

Refuse(s) == status' = s /\ pc' = "send" /\ UNCHANGED <<dac, cmd_errors, block>>

Check ==
  /\ pc = "check"
  /\ CASE WrongPeriph(rx) -> Refuse("INVALID_PERIPH_ID")
       [] ~WrongPeriph(rx) /\ ManyBlocks(rx) -> Refuse("BLOCKS_ERROR")
       [] rx.Command = "OTHER" -> Refuse("UNKNOWN")
       [] rx.Command = "GET_INFO" -> Refuse("COMPLETED")
       [] OTHER ->
            /\ pc' = "blocks"
            /\ IF rx.Command = "ADF4002_WR" THEN Control_TCXO_DAC(FALSE, 0)
                                            ELSE UNCHANGED dac
            /\ UNCHANGED <<status, cmd_errors, block>>
  /\ UNCHANGED <<suite, lms, fpga, si5351, adf, pot, fwVars, rx, tx, history>>

\* The loops end in a status of their own kind.
Finish ==
  /\ pc = "blocks" /\ block = rx.Data_blocks
  /\ status' = IF cmd_errors = 0 THEN "COMPLETED"
               ELSE CASE rx.Command = "ADF4002_WR" -> "INVALID_PERIPH_ID"
                      [] rx.Command \in {"ANALOG_VAL_WR", "SI5351_WR", "SI5351_RD"}
                           -> "ERROR"
                      [] OTHER -> "COMPLETED"
  /\ pc' = "send"
  /\ UNCHANGED <<suite, devices, fwVars, cmd_errors, block, rx, tx, history>>

Now(c)  == pc = "blocks" /\ rx.Command = c /\ block < rx.Data_blocks
b       == rx.Data_field[block + 1]

\* A host's idea of a word in register a of the banks it has selected, with or
\* without a reset of their chips.
Stored(s, a, word, reset) ==
  [s EXCEPT !.brd = [k \in Banks |-> IF k \in s.mac THEN [s.brd[k] EXCEPT ![a] = word]
                                                    ELSE s.brd[k]],
            !.lms = [c \in Chips |-> IF reset /\ c \in s.mac
                                       THEN [x \in Addrs |-> {LmsDefault[x]}]
                                       ELSE s.lms[c]]]

\* Its idea of LMS_RST.
ResetMeant(s, bit, op) ==
  LET word == UNION {s.brd[k][Ctrl] : k \in s.mac \cap Banks}
      on   == word \cup {bit}
      off  == word \ {bit}
  IN CASE op = "DEACTIVATE" -> Stored(s, Ctrl, on, Pin \notin on)
       [] op = "ACTIVATE"   -> Stored(s, Ctrl, off, Pin \notin off)
       [] op = "PULSE"      -> Stored(s, Ctrl, on, Pin \notin off)
       [] OTHER             -> s

\* One block of a completed write, as the host meant it.
Believe(p, s, blk) ==
  CASE p.Command = "LMS7002_WR" ->
         IF Pin \in s.brd[p.Periph_ID][Ctrl]
           THEN [s EXCEPT !.lms[p.Periph_ID][blk.addr] = {blk.val}] ELSE s
    [] p.Command = "BRDSPI16_WR" ->
         IF blk.addr = Mac THEN [s EXCEPT !.mac = blk.val]
         ELSE Stored(s, blk.addr, blk.val, blk.addr = Ctrl /\ Pin \notin blk.val)
    [] p.Command = "SI5351_WR"   -> [s EXCEPT !.si5351[blk.addr] = {blk.val}]
    [] p.Command = "LMS_RST"     -> ResetMeant(s, Reset[p.Periph_ID], blk.op)
    [] p.Command = "ANALOG_VAL_WR" ->
         CASE blk.ch = 0 -> [s EXCEPT !.dac = {blk.val}]
           [] blk.ch \in {2, 3} -> [s EXCEPT !.wiper[blk.ch - 2] = {blk.val}]
           [] OTHER -> s
    [] OTHER -> s

NextBlock ==
  /\ block' = block + 1 /\ hoped' = Believe(rx, hoped, b)
  /\ UNCHANGED <<suite, pc, rx, status, start, believed>>

Errors(n) == cmd_errors' = cmd_errors + n
NoError   == UNCHANGED cmd_errors

\* Low, high, or one after the other; each is a read and a write.
LmsReset ==
  /\ Now("LMS_RST")
  /\ LET bit  == Reset[Select(rx.Periph_ID)]
         word == BrdWord(Ctrl)
         low  == Modify(word, bit, bit, {})
         high(w) == Modify(w, bit, bit, {0})
     IN CASE b.op = "DEACTIVATE" -> BrdStore(Ctrl, {high(word)}, high(word)) /\ NoError
          [] b.op = "ACTIVATE"   -> BrdStore(Ctrl, {low}, low) /\ NoError
          [] b.op = "PULSE"      -> BrdStore(Ctrl, {low, high(low)}, high(low)) /\ NoError
          [] OTHER               -> Errors(1) /\ UNCHANGED <<brd, lms>>
  /\ NextBlock
  /\ UNCHANGED <<mac, si5351, dac, adf, pot, fwVars, tx>>

\* The chip answers and can be written while its reset pin is high.
Awake(c) == Pin \in brd[c][Ctrl]

LmsWrite ==
  /\ Now("LMS7002_WR")
  /\ LET c == Select(rx.Periph_ID) IN
     lms' = IF Awake(c) THEN [lms EXCEPT ![c][b.addr] = b.val] ELSE lms
  /\ NextBlock /\ NoError
  /\ UNCHANGED <<fpga, si5351, dac, adf, pot, fwVars, tx>>

LmsRead ==
  /\ Now("LMS7002_RD")
  /\ LET c == Select(rx.Periph_ID) IN
     \E v \in Values : (Awake(c) => v = lms[c][b.addr]) /\ tx' = Append(tx, v)
  /\ NextBlock /\ NoError
  /\ UNCHANGED <<devices, fwVars>>

BrdWrite ==
  /\ Now("BRDSPI16_WR")
  /\ IF b.addr = Mac THEN mac' = b.val /\ UNCHANGED <<brd, lms>>
                     ELSE BrdStore(b.addr, {b.val}, b.val) /\ UNCHANGED mac
  /\ NextBlock /\ NoError
  /\ UNCHANGED <<si5351, dac, adf, pot, fwVars, tx>>

BrdRead ==
  /\ Now("BRDSPI16_RD")
  /\ tx' = Append(tx, BrdWord(b.addr))
  /\ NextBlock /\ NoError
  /\ UNCHANGED <<devices, fwVars>>

AdfWrite ==
  /\ Now("ADF4002_WR")
  /\ Control_TCXO_ADF(TRUE, b.drives)
  /\ NextBlock /\ NoError
  /\ UNCHANGED <<lms, fpga, si5351, dac, pot, fwVars, tx>>

\* The temperature is whatever the LM75 says; its acknowledges are ignored.
AnalogRead ==
  /\ Now("ANALOG_VAL_RD")
  /\ CASE b.ch = 0 -> tx' = Append(tx, dac_val) /\ NoError
       [] b.ch = 1 -> tx' \in {Append(tx, t) : t \in AnalogVals} /\ NoError
       [] b.ch \in {2, 3} -> tx' = Append(tx, wiper_pos[b.ch - 2]) /\ NoError
       [] OTHER -> Errors(1) /\ tx' = Append(tx, 0)
  /\ NextBlock
  /\ UNCHANGED <<devices, fwVars>>

SetDac ==
  IF b.unit = 0
    THEN /\ Control_TCXO_ADF(FALSE, FALSE)
         /\ dac_val' = b.val
         /\ Control_TCXO_DAC(TRUE, b.val)
         /\ NoError
    ELSE Errors(1) /\ UNCHANGED <<adf, dac, dac_val>>

\* The position is remembered before it is checked.
SetWiper ==
  IF b.unit = 0
    THEN /\ wiper_pos' = [wiper_pos EXCEPT ![b.ch - 2] = b.val]
         /\ IF b.val <= WiperMax
              THEN pot' = [pot EXCEPT ![b.ch - 2] = b.val] /\ NoError
              ELSE Errors(1) /\ UNCHANGED pot
    ELSE Errors(1) /\ UNCHANGED <<wiper_pos, pot>>

AnalogWrite ==
  /\ Now("ANALOG_VAL_WR")
  /\ CASE b.ch = 0 -> SetDac /\ UNCHANGED <<pot, wiper_pos>>
       [] b.ch \in {2, 3} -> SetWiper /\ UNCHANGED <<adf, dac, dac_val>>
       [] OTHER -> Errors(1) /\ UNCHANGED <<adf, dac, pot, fwVars>>
  /\ NextBlock
  /\ UNCHANGED <<lms, fpga, si5351, tx>>

\* Mutant: the first refusal is not counted.
Si5351WriteLax ==
  /\ Now("SI5351_WR")
  /\ \E nacks \in 0 .. 3 :
       /\ Errors(IF nacks = 0 THEN 0 ELSE nacks - 1)
       /\ si5351' = IF nacks = 0 THEN [si5351 EXCEPT ![b.addr] = b.val] ELSE si5351
  /\ NextBlock
  /\ UNCHANGED <<lms, fpga, dac, adf, pot, fwVars, tx>>

\* Every byte on the I2C bus may be refused; the firmware counts the refusals
\* and goes on.
Si5351Write ==
  /\ Now("SI5351_WR")
  /\ \E nacks \in 0 .. 3 :
       /\ Errors(nacks)
       /\ si5351' = IF nacks = 0 THEN [si5351 EXCEPT ![b.addr] = b.val] ELSE si5351
  /\ NextBlock
  /\ UNCHANGED <<lms, fpga, dac, adf, pot, fwVars, tx>>

Si5351Read ==
  /\ Now("SI5351_RD")
  /\ \E nacks \in 0 .. 3, v \in Values :
       /\ nacks = 0 => v = si5351[b.addr]
       /\ Errors(nacks)
       /\ tx' = Append(tx, v)
  /\ NextBlock
  /\ UNCHANGED <<devices, fwVars>>

-----------------------------------------------------------------------------
(* The answer, and what a host makes of it.                                *)

Unsure(p, s) ==
  CASE p.Command = "SI5351_WR" -> [s EXCEPT !.si5351 = [a \in Addrs |-> Values]]
    [] p.Command = "ANALOG_VAL_WR" ->
         [s EXCEPT !.dac = Analog, !.wiper = [i \in Chips |-> Analog]]
    [] OTHER -> s

\* The buffers of a command are not read again.
Forget == /\ rx' = NoPacket /\ tx' = <<>> /\ block' = 0 /\ cmd_errors' = 0
          /\ status' = "COMPLETED" /\ start' = devices

Send ==
  /\ pc = "send"
  /\ pc' = "idle"
  /\ believed' = CASE status = "COMPLETED" -> hoped
                   [] status = "ERROR" -> Unsure(rx, believed)
                   [] OTHER -> believed
  /\ hoped' = believed'
  /\ Forget
  /\ UNCHANGED <<suite, devices, fwVars>>

Block ==
  \/ LmsReset \/ LmsWrite \/ LmsRead \/ BrdWrite \/ BrdRead \/ AdfWrite
  \/ AnalogRead \/ AnalogWrite \/ Si5351Write \/ Si5351Read

Next == Idle \/ Check \/ Block \/ Finish \/ Send

Spec == Init /\ [][Next]_vars

-----------------------------------------------------------------------------
\* What a host may expect of the i-th value of an answer; of a chip it holds in
\* reset, anything.
Expected(i) ==
  LET blk == rx.Data_field[i] IN
  CASE rx.Command = "LMS7002_RD" ->
         LET c == Select(rx.Periph_ID) IN
         IF Pin \in believed.brd[c][Ctrl] THEN believed.lms[c][blk.addr] ELSE Values
    [] rx.Command = "BRDSPI16_RD" ->
         {IF blk.addr = Mac THEN believed.mac
          ELSE UNION {believed.brd[k][blk.addr] : k \in believed.mac \cap Banks}}
    [] rx.Command = "SI5351_RD"   -> believed.si5351[blk.addr]
    [] OTHER -> CASE blk.ch = 0        -> believed.dac
                  [] blk.ch \in {2, 3} -> believed.wiper[blk.ch - 2]
                  [] OTHER             -> AnalogVals \cup {0}

\* A completed read returns, block by block, what the completed writes before
\* it left: writes of several blocks are applied in their order, to the chip
\* that was addressed and to the banks that were selected; and an LMS7002M has
\* what was written into it since its own reset pin was last low, be it by
\* LMS_RST or by a write to register Ctrl, and its reset values elsewhere.
ReadBack ==
  pc = "send" /\ status = "COMPLETED" =>
    \A i \in 1 .. Len(tx) : tx[i] \in Expected(i)

\* Between two commands every device is in a state the answers so far allow:
\* the completed writes, and only they, are in the devices, whatever commands
\* failed half way in between.  (At any time they are in their types, which for
\* a wiper is its range.)
DevicesAsBelieved ==
  /\ TypeOK
  /\ pc = "idle" =>
       /\ \A c \in Chips, a \in Addrs : lms[c][a] \in believed.lms[c][a]
       /\ brd = believed.brd /\ mac = believed.mac
       /\ \A a \in Addrs : si5351[a] \in believed.si5351[a]
       /\ \A i \in Chips : pot[i] \in believed.wiper[i]

\* A command the firmware refuses (unknown, too many blocks, no such chip) has
\* changed nothing: all checks come before the first device access.
RefusedChangesNothing ==
  pc = "send" /\ status \in {"UNKNOWN", "BLOCKS_ERROR", "INVALID_PERIPH_ID"} =>
    devices = start

\* The DAC and the charge pump of the ADF4002 never drive the control voltage
\* of the TCXO at the same time, not even between two blocks of a command
\* ("set DAC out to three-state", "set ADF4002 CP to three-state").
OneTcxoDriver == ~(dac.on /\ adf)

=============================================================================
