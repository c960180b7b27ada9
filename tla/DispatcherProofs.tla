-------------------------- MODULE DispatcherProofs --------------------------
(***************************************************************************)
(* What the dispatcher promises a host, for every number of registers and  *)
(* values, every length of a command and every order of commands.          *)
(*                                                                         *)
(* Between two blocks the devices are as the host will believe them to be  *)
(* if the command is completed (hoped), unless an error has been counted   *)
(* that is going to be answered; then they are as it will believe them to  *)
(* be after the error.  That invariant is what is inductive.               *)
(***************************************************************************)
EXTENDS Dispatcher, TLAPS

\* What a host can believe.
Beliefs ==
  [lms    : [Chips -> [Addrs -> SUBSET Values]],
   brd    : [Banks -> [BrdAddrs -> SUBSET Bits]],
   mac    : SUBSET Bits,
   si5351 : [Addrs -> SUBSET Values],
   dac    : SUBSET Analog,
   wiper  : [Chips -> SUBSET Analog]]

\* The values a command reads from the devices.
Readings == Values \cup (SUBSET Bits) \cup Analog \cup {0}

\* The devices and what is remembered of them are in their types.
DeviceTypes ==
  /\ lms \in [Chips -> [Addrs -> Values]]
  /\ brd \in [Banks -> [BrdAddrs -> SUBSET Bits]] /\ mac \in SUBSET Bits
  /\ si5351 \in [Addrs -> Values]
  /\ dac \in [on : BOOLEAN, val : Analog] /\ adf \in BOOLEAN
  /\ pot \in [Chips -> Analog] /\ \A i \in Chips : pot[i] <= WiperMax
  /\ dac_val \in Analog /\ wiper_pos \in [Chips -> Analog]

HistoryInv ==
  /\ believed \in Beliefs /\ hoped \in Beliefs
  /\ wiper_pos \in [Chips -> Analog] /\ pot \in [Chips -> Analog]
  /\ tx \in Seq(Readings)

Reads == {"LMS7002_RD", "BRDSPI16_RD", "SI5351_RD", "ANALOG_VAL_RD"}

\* A command is one a host sends, and one that is being executed is one that
\* passed the checks.
PacketInv ==
  /\ pc \in {"check", "blocks"} => rx \in PacketsOf(rx.Command)
  /\ pc = "check" => status = "BUSY" /\ block = 0 /\ cmd_errors = 0
  /\ pc = "blocks" => /\ rx.Data_blocks <= Capacity(rx.Command)
                      /\ ~WrongPeriph(rx)
                      /\ status = "BUSY"
  /\ cmd_errors <= 3 * block
  /\ IF pc # "idle" /\ rx.Command \in Reads THEN Len(tx) = block ELSE tx = <<>>

\* The first block of the ADF4002 comes after the DAC has been switched off.
DriverInv ==
  /\ OneTcxoDriver
  /\ pc = "blocks" /\ rx.Command = "ADF4002_WR" => ~dac.on /\ cmd_errors = 0

StartInv ==
  /\ pc = "check" => devices = start
  /\ RefusedChangesNothing

\* The devices, and what the firmware remembers of them, are as believed.
Agrees(h) ==
  /\ \A c \in Chips, a \in Addrs : lms[c][a] \in h.lms[c][a]
  /\ brd = h.brd /\ mac = h.mac
  /\ \A a \in Addrs : si5351[a] \in h.si5351[a]
  /\ \A i \in Chips : pot[i] \in h.wiper[i] /\ wiper_pos[i] \in h.wiper[i]
  /\ dac_val \in h.dac

\* An error of these commands leaves a device in an unknown state.
Failing == {"ANALOG_VAL_WR", "SI5351_WR"}

Writes == Failing \cup {"LMS_RST", "LMS7002_WR", "BRDSPI16_WR"}

AgreeInv ==
  /\ pc \in {"idle", "check"} => Agrees(believed) /\ hoped = believed
  /\ pc = "blocks" =>
       /\ cmd_errors = 0 \/ rx.Command \notin Failing => Agrees(hoped)
       /\ rx.Command \in Failing => Agrees(Unsure(rx, believed))
       /\ rx.Command \notin Writes => hoped = believed
  /\ pc = "send" => CASE status = "COMPLETED" -> Agrees(hoped)
                      [] status = "ERROR" -> Agrees(Unsure(rx, believed))
                      [] OTHER -> Agrees(believed)

\* No error is going to be answered.
Completing ==
  \/ pc = "blocks" /\ (cmd_errors = 0 \/ rx.Command # "SI5351_RD")
  \/ pc = "send" /\ status = "COMPLETED"

\* What has been read so far.
ReadInv ==
  Completing => \A i \in 1 .. Len(tx) : tx[i] \in Expected(i)

IInv ==
  TypeOK /\ HistoryInv /\ PacketInv /\ DriverInv /\ StartInv /\ AgreeInv /\ ReadInv

-----------------------------------------------------------------------------
(* The operators.                                                          *)

\* How many blocks fit.
LEMMA CapacityFacts ==
  ASSUME NEW c
  PROVE  Capacity(c) \in Nat /\ Capacity(c) <= DataField
<1>1. DataField \in Nat /\ DataField >= 1
  BY SizesAssumption
<1>2. /\ DataField \div 2 \in Nat /\ DataField \div 2 <= DataField
      /\ DataField \div 3 \in Nat /\ DataField \div 3 <= DataField
      /\ DataField \div 4 \in Nat /\ DataField \div 4 <= DataField
  BY <1>1
<1>3. c \in DOMAIN BlockSize => BlockSize[c] \in {2, 3, 4}
  BY DEF BlockSize
<1>4. CASE c \in DOMAIN BlockSize
  BY <1>2, <1>3, <1>4 DEF Capacity
<1>5. CASE c \notin DOMAIN BlockSize
  BY <1>1, <1>2, <1>5 DEF Capacity
<1> QED BY <1>4, <1>5

\* What a packet is made of.
LEMMA PacketFacts ==
  ASSUME NEW c, NEW p \in PacketsOf(c)
  PROVE  /\ p.Command = c /\ p.Periph_ID \in Periphs(c)
         /\ p.Data_blocks \in Counts(c) /\ p.Data_blocks \in Nat
         /\ p.Data_field \in Fields(c, p.Data_blocks)
<1>1. PICK n \in Counts(c) :
        p \in [Command : {c}, Periph_ID : Periphs(c), Data_blocks : {n},
               Data_field : Fields(c, n)]
  BY DEF PacketsOf
<1>2. Counts(c) \subseteq Nat
  BY CapacityFacts DEF Counts
<1> QED BY <1>1, <1>2

\* The block a loop of the dispatcher is at.
LEMMA BlockFacts ==
  ASSUME PacketInv, TypeOK, pc = "blocks", block < rx.Data_blocks
  PROVE  /\ block \in Nat /\ rx.Data_blocks \in Nat
         /\ b \in Blocks(rx.Command) /\ block + 1 <= DataField
<1>1. rx \in PacketsOf(rx.Command) /\ rx.Data_blocks <= Capacity(rx.Command)
  BY DEF PacketInv
<1>2. /\ rx.Data_field \in Fields(rx.Command, rx.Data_blocks)
      /\ rx.Data_blocks \in Nat
  BY <1>1, PacketFacts
<1>3. rx.Data_field \in [1 .. rx.Data_blocks -> Blocks(rx.Command)]
  BY <1>1, <1>2 DEF Fields
<1>4. block \in Nat
  BY <1>2 DEF TypeOK
<1>5. block + 1 \in 1 .. rx.Data_blocks
  BY <1>2, <1>4
<1>6. Capacity(rx.Command) \in Nat /\ Capacity(rx.Command) <= DataField
  BY CapacityFacts
<1>7. block + 1 <= DataField
  BY <1>1, <1>2, <1>4, <1>6, SizesAssumption
<1> QED BY <1>2, <1>3, <1>4, <1>5, <1>7 DEF b

\* Modify_BRDSPI16_Reg_bits with one bit sets it or clears it, and leaves the
\* others alone.
LEMMA ModifyOneBit ==
  ASSUME NEW w \in SUBSET Bits, NEW bit \in Bits
  PROVE  /\ Modify(w, bit, bit, {}) = w \ {bit}
         /\ Modify(w, bit, bit, {0}) = w \cup {bit}
<1>1. Width \in Nat /\ Width >= 1 /\ bit \in Nat /\ bit < Width
  BY SizesAssumption DEF Bits
<1>2. Shl(Bits, Width - 1) = {Width - 1}
  BY <1>1 DEF Shl, Bits
<1>3. Shr({Width - 1}, Width - 1) = {0}
  <2>1. ASSUME NEW m \in Nat
        PROVE  Shr({m}, m) = {0}
    <3>1. {x \in {m} : x >= m} = {m} /\ m - m = 0
      OBVIOUS
    <3>2. {x - m : x \in {m}} = {0}
      BY <3>1
    <3> QED BY <3>1, <3>2 DEF Shr
  <2> QED BY <1>1, <2>1
<1>4. Shl({0}, bit) = {bit} /\ Shl({}, bit) = {}
  BY <1>1 DEF Shl, Bits
<1>5. bit - bit + 1 = 1
  BY <1>1
<1>6. {0} \cap {0} = {0} /\ {} \cap {0} = {}
  OBVIOUS
<1>7. ASSUME NEW new \in {{}, {0}}
      PROVE  Modify(w, bit, bit, new) = (w \ {bit}) \cup Shl(new, bit)
  BY <1>2, <1>3, <1>4, <1>5, <1>6 DEF Modify
<1> QED BY <1>4, <1>7, Zenon

\* What the blocks of the commands are made of.
LEMMA BlockTypes ==
  ASSUME NEW c, NEW blk \in Blocks(c)
  PROVE  /\ c \in {"LMS7002_WR", "SI5351_WR"} => blk.addr \in Addrs /\ blk.val \in Values
         /\ c \in {"LMS7002_RD", "SI5351_RD"} => blk.addr \in Addrs
         /\ c = "BRDSPI16_WR" => blk.addr \in BrdAddrs \cup {Mac} /\ blk.val \in SUBSET Bits
         /\ c = "BRDSPI16_RD" => blk.addr \in BrdAddrs \cup {Mac}
         /\ c = "ADF4002_WR" => blk.drives \in BOOLEAN
         /\ c = "ANALOG_VAL_WR" => /\ blk.ch \in {0, 1, 2, 3} /\ blk.unit \in {0, 1}
                                   /\ blk.val \in AnalogVals
         /\ c = "ANALOG_VAL_RD" => blk.ch \in {0, 1, 2, 3, 4}
         /\ c = "LMS_RST" => blk.op \in {"DEACTIVATE", "ACTIVATE", "PULSE", "OTHER"}
BY SMTT(30), ValuesAssumption DEF Blocks

\* A chip that is addressed by a command that changes it is the one selected.
LEMMA SelectFacts ==
  ASSUME NEW c \in {"LMS_RST", "LMS7002_WR"}, NEW p \in PacketsOf(c), ~WrongPeriph(p)
  PROVE  p.Periph_ID \in Chips /\ Select(p.Periph_ID) = p.Periph_ID
BY PacketFacts DEF Periphs, WrongPeriph, MaxPeriph, Chips, Select

\* Any identification selects some chip.
LEMMA SelectIsChip ==
  ASSUME NEW p
  PROVE  Select(p) \in Chips
BY DEF Select, Chips

\* What a host believes after a block: a register of an LMS7002M has the value
\* written, unless the chip is held in reset; everything else is as it was.
LEMMA BelieveLms ==
  ASSUME NEW p, NEW h \in Beliefs, NEW blk \in Blocks("LMS7002_WR"),
         p.Command = "LMS7002_WR", p.Periph_ID \in Chips
  PROVE  LET n == Believe(p, h, blk) IN
         /\ n \in Beliefs
         /\ n.lms = IF Pin \in h.brd[p.Periph_ID][Ctrl]
                      THEN [h.lms EXCEPT ![p.Periph_ID][blk.addr] = {blk.val}] ELSE h.lms
         /\ n.brd = h.brd /\ n.mac = h.mac /\ n.si5351 = h.si5351 /\ n.dac = h.dac
         /\ n.wiper = h.wiper
<1>1. blk.addr \in Addrs /\ blk.val \in Values
  BY BlockTypes
<1>2. Believe(p, h, blk) = IF Pin \in h.brd[p.Periph_ID][Ctrl]
                             THEN [h EXCEPT !.lms[p.Periph_ID][blk.addr] = {blk.val}] ELSE h
  BY DEF Believe
<1>3. h.lms \in [Chips -> [Addrs -> SUBSET Values]]
  BY DEF Beliefs
<1>4. [h.lms EXCEPT ![p.Periph_ID][blk.addr] = {blk.val}] \in [Chips -> [Addrs -> SUBSET Values]]
  BY <1>1, <1>3
<1>5. CASE Pin \in h.brd[p.Periph_ID][Ctrl]
  BY <1>2, <1>4, <1>5 DEF Beliefs
<1>6. CASE Pin \notin h.brd[p.Periph_ID][Ctrl]
  BY <1>2, <1>6
<1> QED BY <1>5, <1>6

\* The banks after a write to those of sel.
Banked(banks, sel, a, word) ==
  [k \in Banks |-> IF k \in sel THEN [banks[k] EXCEPT ![a] = word] ELSE banks[k]]

\* What a host believes after a write to a register of the FPGA.
LEMMA StoredFacts ==
  ASSUME NEW h \in Beliefs, NEW a \in BrdAddrs, NEW word \in SUBSET Bits,
         NEW reset \in BOOLEAN
  PROVE  LET n == Stored(h, a, word, reset) IN
         /\ n \in Beliefs
         /\ n.brd = Banked(h.brd, h.mac, a, word)
         /\ n.lms = [c \in Chips |-> IF reset /\ c \in h.mac
                                      THEN [x \in Addrs |-> {LmsDefault[x]}] ELSE h.lms[c]]
         /\ n.mac = h.mac /\ n.si5351 = h.si5351 /\ n.dac = h.dac /\ n.wiper = h.wiper
<1> DEFINE banks == Banked(h.brd, h.mac, a, word)
           regs  == [c \in Chips |-> IF reset /\ c \in h.mac
                                      THEN [x \in Addrs |-> {LmsDefault[x]}] ELSE h.lms[c]]
<1>1. Stored(h, a, word, reset) = [h EXCEPT !.brd = banks, !.lms = regs]
  BY DEF Stored, Banked
<1>2. banks \in [Banks -> [BrdAddrs -> SUBSET Bits]]
  BY DEF Beliefs, Banked
<1>3. [x \in Addrs |-> {LmsDefault[x]}] \in [Addrs -> SUBSET Values]
  BY DefaultAssumption
<1>4. regs \in [Chips -> [Addrs -> SUBSET Values]]
  BY <1>3 DEF Beliefs
<1> HIDE DEF banks, regs
<1>5. /\ Stored(h, a, word, reset) \in Beliefs
      /\ Stored(h, a, word, reset).brd = banks /\ Stored(h, a, word, reset).lms = regs
      /\ Stored(h, a, word, reset).mac = h.mac
      /\ Stored(h, a, word, reset).si5351 = h.si5351
      /\ Stored(h, a, word, reset).dac = h.dac
      /\ Stored(h, a, word, reset).wiper = h.wiper
  BY <1>1, <1>2, <1>4 DEF Beliefs
<1> HIDE DEF Stored
<1> QED BY <1>5 DEF banks, regs

\* Writes to a register of the FPGA leave the banks and the chips as the host
\* believes, if it knows when the pins of the chips are low.
LEMMA StoreAgrees ==
  ASSUME DeviceTypes, NEW h \in Beliefs, Agrees(h),
         NEW a \in BrdAddrs, NEW words, NEW word \in SUBSET Bits, NEW reset \in BOOLEAN,
         reset <=> (a = Ctrl /\ \E w \in words : Pin \notin w),
         BrdStore(a, words, word)
  PROVE  /\ brd' \in [Banks -> [BrdAddrs -> SUBSET Bits]]
         /\ lms' \in [Chips -> [Addrs -> Values]]
         /\ brd' = Stored(h, a, word, reset).brd
         /\ \A c \in Chips, x \in Addrs : lms'[c][x] \in Stored(h, a, word, reset).lms[c][x]
         /\ Stored(h, a, word, reset) \in Beliefs
         /\ Stored(h, a, word, reset).mac = h.mac
         /\ Stored(h, a, word, reset).si5351 = h.si5351
         /\ Stored(h, a, word, reset).dac = h.dac
         /\ Stored(h, a, word, reset).wiper = h.wiper
<1>1. /\ brd \in [Banks -> [BrdAddrs -> SUBSET Bits]] /\ lms \in [Chips -> [Addrs -> Values]]
      /\ brd = h.brd /\ mac = h.mac
      /\ \A c \in Chips, x \in Addrs : lms[c][x] \in h.lms[c][x]
  BY DEF DeviceTypes, Agrees
<1>2. brd' = Banked(brd, mac, a, word)
  BY DEF BrdStore, Selected, Banked
<1>3. \A c \in Chips : c \in Selected <=> c \in mac
  BY BanksAssumption DEF Selected
<1>4. lms' = [c \in Chips |-> IF reset /\ c \in mac THEN LmsDefault ELSE lms[c]]
  BY <1>3 DEF BrdStore
<1>5. brd' \in [Banks -> [BrdAddrs -> SUBSET Bits]]
  BY <1>1, <1>2 DEF Banked
<1>6. lms' \in [Chips -> [Addrs -> Values]]
  BY <1>1, <1>4, DefaultAssumption
<1>7. /\ Stored(h, a, word, reset).brd = Banked(h.brd, h.mac, a, word)
      /\ Stored(h, a, word, reset).lms = [c \in Chips |-> IF reset /\ c \in h.mac
                                      THEN [x \in Addrs |-> {LmsDefault[x]}] ELSE h.lms[c]]
      /\ Stored(h, a, word, reset) \in Beliefs
      /\ Stored(h, a, word, reset).mac = h.mac
      /\ Stored(h, a, word, reset).si5351 = h.si5351
      /\ Stored(h, a, word, reset).dac = h.dac
      /\ Stored(h, a, word, reset).wiper = h.wiper
  BY StoredFacts
<1> HIDE DEF Stored
<1>8. ASSUME NEW c \in Chips, NEW x \in Addrs
      PROVE  lms'[c][x] \in Stored(h, a, word, reset).lms[c][x]
  BY <1>1, <1>4, <1>7
<1> QED BY <1>1, <1>2, <1>5, <1>6, <1>7, <1>8

\* The same for a register of the Si5351C.
LEMMA BelieveSi5351 ==
  ASSUME NEW p, NEW h \in Beliefs, NEW blk \in Blocks("SI5351_WR"),
         p.Command = "SI5351_WR"
  PROVE  LET n == Believe(p, h, blk) IN
         /\ n \in Beliefs
         /\ n.si5351 = [h.si5351 EXCEPT ![blk.addr] = {blk.val}]
         /\ n.lms = h.lms /\ n.brd = h.brd /\ n.mac = h.mac
         /\ n.dac = h.dac /\ n.wiper = h.wiper
<1>1. blk.addr \in Addrs /\ blk.val \in Values
  BY BlockTypes
<1>2. Believe(p, h, blk) = [h EXCEPT !.si5351[blk.addr] = {blk.val}]
  BY DEF Believe
<1>3. [h.si5351 EXCEPT ![blk.addr] = {blk.val}] \in [Addrs -> SUBSET Values]
  BY <1>1 DEF Beliefs
<1> QED BY <1>2, <1>3 DEF Beliefs

\* The same for the DAC and the wipers.
LEMMA BelieveAnalog ==
  ASSUME NEW p, NEW h \in Beliefs, NEW blk \in Blocks("ANALOG_VAL_WR"),
         p.Command = "ANALOG_VAL_WR"
  PROVE  LET n == Believe(p, h, blk) IN
         /\ n \in Beliefs
         /\ n.lms = h.lms /\ n.brd = h.brd /\ n.mac = h.mac /\ n.si5351 = h.si5351
         /\ n.dac = IF blk.ch = 0 THEN {blk.val} ELSE h.dac
         /\ n.wiper = IF blk.ch \in {2, 3} THEN [h.wiper EXCEPT ![blk.ch - 2] = {blk.val}]
                                           ELSE h.wiper
<1>1. blk.ch \in {0, 1, 2, 3} /\ blk.val \in Analog
  BY BlockTypes DEF Analog
<1>2. CASE blk.ch = 0
  <2>1. Believe(p, h, blk) = [h EXCEPT !.dac = {blk.val}]
    BY <1>2 DEF Believe
  <2>2. {blk.val} \in SUBSET Analog /\ blk.ch \notin {2, 3}
    BY <1>1, <1>2
  <2> QED BY <1>2, <2>1, <2>2 DEF Beliefs
<1>3. CASE blk.ch \in {2, 3}
  <2>1. Believe(p, h, blk) = [h EXCEPT !.wiper[blk.ch - 2] = {blk.val}]
    BY <1>3 DEF Believe
  <2>2. [h.wiper EXCEPT ![blk.ch - 2] = {blk.val}] \in [Chips -> SUBSET Analog]
    BY <1>1, <1>3 DEF Beliefs, Chips
  <2>3. blk.ch # 0
    BY <1>3
  <2> QED BY <1>3, <2>1, <2>2, <2>3 DEF Beliefs
<1>4. CASE blk.ch = 1
  BY <1>1, <1>4 DEF Believe, Beliefs
<1> QED BY <1>1, <1>2, <1>3, <1>4

\* A command that writes nothing changes no belief.
LEMMA BelieveRead ==
  ASSUME NEW p, NEW h, NEW blk, p.Command \notin Writes
  PROVE  Believe(p, h, blk) = h
BY DEF Believe, Writes, Failing

-----------------------------------------------------------------------------
(* The invariant.                                                          *)

\* What every block has in common: given what it does to the devices, to the
\* error count and to the answer, the invariant is kept.
LEMMA BlockStep ==
  ASSUME IInv, pc = "blocks", block < rx.Data_blocks, NextBlock, DeviceTypes',
         hoped' \in Beliefs,
         cmd_errors' \in Nat, cmd_errors <= cmd_errors', cmd_errors' <= cmd_errors + 3,
         IF rx.Command \in Reads
           THEN \E v \in Readings : /\ tx' = Append(tx, v)
                                    /\ Completing' => v \in Expected(block + 1)
           ELSE tx' = tx,
         ~(dac'.on /\ adf'),
         rx.Command = "ADF4002_WR" => ~dac'.on /\ cmd_errors' = 0,
         cmd_errors' = 0 \/ rx.Command \notin Failing => Agrees(hoped)',
         rx.Command \in Failing => Agrees(Unsure(rx, believed))'
  PROVE  IInv'
<1>1. /\ block' = block + 1 /\ hoped' = Believe(rx, hoped, b)
      /\ suite' = suite /\ pc' = pc /\ rx' = rx /\ status' = status
      /\ start' = start /\ believed' = believed
  BY DEF NextBlock
<1>2. /\ TypeOK /\ HistoryInv /\ PacketInv /\ DriverInv /\ StartInv /\ AgreeInv /\ ReadInv
  BY DEF IInv
<1>3. /\ block \in Nat /\ rx.Data_blocks \in Nat /\ block + 1 <= DataField
      /\ status = "BUSY" /\ cmd_errors \in Nat /\ cmd_errors <= 3 * block
  BY <1>2, BlockFacts DEF PacketInv, TypeOK
<1>4. block' \in 0 .. rx.Data_blocks /\ cmd_errors' <= 3 * block'
  BY <1>1, <1>3
<1>5. cmd_errors' \in 0 .. 3 * DataField
  BY <1>1, <1>3, <1>4, SizesAssumption
<1>6. /\ tx' \in Seq(Readings)
      /\ IF rx.Command \in Reads THEN Len(tx') = block' ELSE tx' = <<>>
  <2>1. CASE rx.Command \in Reads
    <3>1. PICK v \in Readings : tx' = Append(tx, v)
      BY <2>1
    <3>2. tx \in Seq(Readings) /\ Len(tx) = block
      BY <1>2, <2>1 DEF HistoryInv, PacketInv
    <3> QED BY <1>1, <2>1, <3>1, <3>2
  <2>2. CASE rx.Command \notin Reads
    BY <1>2, <2>2 DEF HistoryInv, PacketInv
  <2> QED BY <2>1, <2>2
<1>7. Len(tx') <= block'
  BY <1>1, <1>3, <1>6
<1>8. TypeOK'
  BY <1>1, <1>2, <1>3, <1>4, <1>5, <1>7 DEF TypeOK, DeviceTypes
<1>9. HistoryInv'
  BY <1>1, <1>2, <1>6 DEF HistoryInv, DeviceTypes
<1>10. PacketInv'
  BY <1>1, <1>2, <1>4, <1>6 DEF PacketInv
<1>11. DriverInv'
  BY <1>1 DEF DriverInv, OneTcxoDriver
<1>12. StartInv'
  BY <1>1 DEF StartInv, RefusedChangesNothing
<1>13. AgreeInv'
  BY <1>1, <1>2, BelieveRead DEF AgreeInv
<1>14. ReadInv'
  <2>0. ASSUME NEW i
        PROVE  Expected(i)' = Expected(i)
    BY <1>1 DEF Expected
  <2> HIDE DEF Expected
  <2>1. SUFFICES ASSUME Completing', rx.Command \in Reads
                 PROVE  \A i \in 1 .. Len(tx') : tx'[i] \in Expected(i)
    <3>1. CASE rx.Command \notin Reads
      <4>1. Len(tx') = 0
        BY <1>6, <3>1
      <4> QED BY <4>1 DEF ReadInv
    <3>2. CASE rx.Command \in Reads
      BY <2>0, <3>2 DEF ReadInv
    <3> QED BY <3>1, <3>2
  <2>2. Completing
    BY <1>1, <1>3, <2>1 DEF Completing
  <2>3. PICK v \in Readings : tx' = Append(tx, v) /\ v \in Expected(block + 1)
    BY <2>1
  <2>4. tx \in Seq(Readings) /\ Len(tx) = block
    BY <1>2, <2>1 DEF HistoryInv, PacketInv
  <2>5. \A i \in 1 .. Len(tx) : tx[i] \in Expected(i)
    BY <1>2, <2>2 DEF ReadInv
  <2>6. Len(tx') = block + 1 /\ tx'[block + 1] = v /\ \A i \in 1 .. block : tx'[i] = tx[i]
    BY <1>3, <2>3, <2>4
  <2>7. \A i \in 1 .. block + 1 : i = block + 1 \/ i \in 1 .. block
    BY <1>3
  <2> QED BY <2>3, <2>4, <2>5, <2>6, <2>7
<1> QED BY <1>8, <1>9, <1>10, <1>11, <1>12, <1>13, <1>14 DEF IInv

\* What holds when a block of command c is executed.
LEMMA AtBlock ==
  ASSUME IInv, NEW c, Now(c)
  PROVE  /\ pc = "blocks" /\ rx.Command = c /\ block < rx.Data_blocks
         /\ b \in Blocks(c) /\ rx \in PacketsOf(c) /\ ~WrongPeriph(rx)
         /\ DeviceTypes /\ hoped \in Beliefs /\ believed \in Beliefs
         /\ cmd_errors \in Nat /\ ~(dac.on /\ adf)
         /\ c = "ADF4002_WR" => ~dac.on /\ cmd_errors = 0
         /\ cmd_errors = 0 \/ c \notin Failing => Agrees(hoped)
         /\ c \in Failing => Agrees(Unsure(rx, believed))
         /\ c \notin Writes => hoped = believed
<1>1. /\ TypeOK /\ HistoryInv /\ PacketInv /\ DriverInv /\ AgreeInv
      /\ pc = "blocks" /\ rx.Command = c /\ block < rx.Data_blocks
  BY DEF IInv, Now
<1>2. b \in Blocks(c) /\ rx \in PacketsOf(c) /\ ~WrongPeriph(rx)
  BY <1>1, BlockFacts DEF PacketInv
<1>3. DeviceTypes /\ cmd_errors \in Nat
  BY <1>1 DEF TypeOK, HistoryInv, DeviceTypes
<1> QED BY <1>1, <1>2, <1>3 DEF HistoryInv, DriverInv, OneTcxoDriver, AgreeInv

\* A register of an LMS7002M is written as the host will believe.
LEMMA LmsWriteNext ==
  ASSUME IInv, LmsWrite
  PROVE  IInv'
<1> DEFINE c == "LMS7002_WR"
           awake == Pin \in brd[rx.Periph_ID][Ctrl]
<1>1. Now(c) /\ NextBlock /\ UNCHANGED <<cmd_errors, brd, mac, si5351, dac, adf, pot, fwVars, tx>>
  BY DEF LmsWrite, NoError, fpga
<1>2. /\ pc = "blocks" /\ rx.Command = c /\ block < rx.Data_blocks
      /\ b \in Blocks(c) /\ rx \in PacketsOf(c) /\ ~WrongPeriph(rx)
      /\ DeviceTypes /\ hoped \in Beliefs /\ cmd_errors \in Nat /\ ~(dac.on /\ adf)
      /\ Agrees(hoped)
  BY <1>1, AtBlock DEF Failing
<1>3. /\ rx.Periph_ID \in Chips /\ b.addr \in Addrs /\ b.val \in Values
      /\ lms' = IF awake THEN [lms EXCEPT ![rx.Periph_ID][b.addr] = b.val] ELSE lms
  BY <1>2, SelectFacts, BlockTypes DEF LmsWrite, Awake
<1>4. /\ hoped' \in Beliefs
      /\ hoped'.lms = IF Pin \in hoped.brd[rx.Periph_ID][Ctrl]
                        THEN [hoped.lms EXCEPT ![rx.Periph_ID][b.addr] = {b.val}] ELSE hoped.lms
      /\ hoped'.brd = hoped.brd /\ hoped'.mac = hoped.mac /\ hoped'.si5351 = hoped.si5351
      /\ hoped'.dac = hoped.dac /\ hoped'.wiper = hoped.wiper
  BY <1>1, <1>2, <1>3, BelieveLms DEF NextBlock
<1>5. brd = hoped.brd
  BY <1>2 DEF Agrees
<1>6. lms \in [Chips -> [Addrs -> Values]] /\ hoped.lms \in [Chips -> [Addrs -> SUBSET Values]]
  BY <1>2 DEF DeviceTypes, Beliefs
<1> HIDE DEF awake
<1>7. lms' \in [Chips -> [Addrs -> Values]]
  BY <1>3, <1>6
<1>8. DeviceTypes'
  BY <1>1, <1>2, <1>7 DEF DeviceTypes, fwVars
<1>9. \A i \in Chips, a \in Addrs : lms'[i][a] \in hoped'.lms[i][a]
  <2>1. \A i \in Chips, a \in Addrs : lms[i][a] \in hoped.lms[i][a]
    BY <1>2 DEF Agrees
  <2>2. CASE awake
    BY <1>3, <1>4, <1>5, <1>6, <2>1, <2>2 DEF awake
  <2>3. CASE ~awake
    BY <1>3, <1>4, <1>5, <2>1, <2>3 DEF awake
  <2> QED BY <2>2, <2>3
<1>10. Agrees(hoped)'
  BY <1>1, <1>2, <1>4, <1>9 DEF Agrees, fwVars
<1> QED BY <1>1, <1>2, <1>4, <1>8, <1>10, BlockStep DEF Failing, Reads

\* What BrdStore and the beliefs agree on is enough for the invariant.
LEMMA StoreStep ==
  ASSUME IInv, NEW c \in {"LMS_RST", "BRDSPI16_WR"}, Now(c), NextBlock,
         UNCHANGED <<mac, si5351, dac, adf, pot, fwVars, tx>>,
         cmd_errors' \in {cmd_errors, cmd_errors + 1},
         NEW a \in BrdAddrs, NEW words, NEW word \in SUBSET Bits, NEW reset \in BOOLEAN,
         reset <=> (a = Ctrl /\ \E w \in words : Pin \notin w),
         BrdStore(a, words, word),
         hoped' = Stored(hoped, a, word, reset)
  PROVE  IInv'
<1>1. /\ pc = "blocks" /\ rx.Command = c /\ block < rx.Data_blocks
      /\ b \in Blocks(c) /\ DeviceTypes /\ hoped \in Beliefs
      /\ cmd_errors \in Nat /\ ~(dac.on /\ adf) /\ Agrees(hoped)
  BY AtBlock DEF Failing
<1>2. /\ brd' \in [Banks -> [BrdAddrs -> SUBSET Bits]] /\ lms' \in [Chips -> [Addrs -> Values]]
      /\ brd' = Stored(hoped, a, word, reset).brd
      /\ \A i \in Chips, x \in Addrs : lms'[i][x] \in Stored(hoped, a, word, reset).lms[i][x]
      /\ Stored(hoped, a, word, reset) \in Beliefs
      /\ Stored(hoped, a, word, reset).mac = hoped.mac
      /\ Stored(hoped, a, word, reset).si5351 = hoped.si5351
      /\ Stored(hoped, a, word, reset).dac = hoped.dac
      /\ Stored(hoped, a, word, reset).wiper = hoped.wiper
  BY <1>1, StoreAgrees
<1> HIDE DEF Stored
<1>3. /\ hoped' \in Beliefs /\ hoped'.mac = hoped.mac /\ hoped'.si5351 = hoped.si5351
      /\ hoped'.dac = hoped.dac /\ hoped'.wiper = hoped.wiper /\ brd' = hoped'.brd
      /\ \A i \in Chips, x \in Addrs : lms'[i][x] \in hoped'.lms[i][x]
  BY <1>2
<1>4. DeviceTypes'
  BY <1>1, <1>2 DEF DeviceTypes, fwVars
<1>5. Agrees(hoped)'
  BY <1>1, <1>3 DEF Agrees, fwVars
<1>6. cmd_errors' \in Nat /\ cmd_errors <= cmd_errors' /\ cmd_errors' <= cmd_errors + 3
  BY <1>1
<1> QED BY <1>1, <1>3, <1>4, <1>5, <1>6, BlockStep DEF Failing, Reads

\* The same when nothing but the selection of banks changes.
LEMMA SelectStep ==
  ASSUME IInv, NEW c \in {"LMS_RST", "BRDSPI16_WR"}, Now(c), NextBlock,
         UNCHANGED <<lms, brd, si5351, dac, adf, pot, fwVars, tx>>,
         cmd_errors' \in {cmd_errors, cmd_errors + 1}, mac' \in SUBSET Bits,
         hoped' = [hoped EXCEPT !.mac = mac']
  PROVE  IInv'
<1>1. /\ pc = "blocks" /\ rx.Command = c /\ block < rx.Data_blocks
      /\ b \in Blocks(c) /\ DeviceTypes /\ hoped \in Beliefs
      /\ cmd_errors \in Nat /\ ~(dac.on /\ adf) /\ Agrees(hoped)
  BY AtBlock DEF Failing
<1>2. /\ hoped' \in Beliefs /\ hoped'.mac = mac' /\ hoped'.lms = hoped.lms
      /\ hoped'.brd = hoped.brd /\ hoped'.si5351 = hoped.si5351
      /\ hoped'.dac = hoped.dac /\ hoped'.wiper = hoped.wiper
  BY <1>1 DEF Beliefs
<1>3. DeviceTypes'
  BY <1>1 DEF DeviceTypes, fwVars
<1>4. Agrees(hoped)'
  BY <1>1, <1>2 DEF Agrees, fwVars
<1>5. cmd_errors' \in Nat /\ cmd_errors <= cmd_errors' /\ cmd_errors' <= cmd_errors + 3
  BY <1>1
<1> QED BY <1>1, <1>2, <1>3, <1>4, <1>5, BlockStep DEF Failing, Reads

\* A register of the FPGA is written as the host will believe; if it is the one
\* of the reset pins, so are the chips.
LEMMA BrdWriteNext ==
  ASSUME IInv, BrdWrite
  PROVE  IInv'
<1> DEFINE c == "BRDSPI16_WR"
           reset == b.addr = Ctrl /\ Pin \notin b.val
<1>1. /\ Now(c) /\ NextBlock /\ UNCHANGED <<cmd_errors, si5351, dac, adf, pot, fwVars, tx>>
      /\ hoped' = Believe(rx, hoped, b)
  BY DEF BrdWrite, NoError, NextBlock
<1>2. rx.Command = c /\ b \in Blocks(c) /\ hoped \in Beliefs
  BY <1>1, AtBlock
<1>3. b.addr \in BrdAddrs \cup {Mac} /\ b.val \in SUBSET Bits
  BY <1>2, BlockTypes
<1>4. CASE b.addr = Mac
  <2>1. mac' = b.val /\ UNCHANGED <<brd, lms>>
    BY <1>4 DEF BrdWrite
  <2>2. hoped' = [hoped EXCEPT !.mac = mac']
    BY <1>1, <1>2, <1>4, <2>1 DEF Believe
  <2> QED BY <1>1, <1>3, <2>1, <2>2, SelectStep
<1>5. CASE b.addr # Mac
  <2>1. BrdStore(b.addr, {b.val}, b.val) /\ mac' = mac /\ b.addr \in BrdAddrs
    BY <1>3, <1>5 DEF BrdWrite
  <2>2. hoped' = Stored(hoped, b.addr, b.val, reset)
    BY <1>1, <1>2, <1>5 DEF Believe
  <2>3. reset \in BOOLEAN /\ (reset <=> (b.addr = Ctrl /\ \E w \in {b.val} : Pin \notin w))
    OBVIOUS
  <2> HIDE DEF reset
  <2> QED BY <1>1, <1>3, <2>1, <2>2, <2>3, StoreStep
<1> QED BY <1>4, <1>5

\* So are the reset lines, and the other bits of their register stay.
LEMMA LmsResetNext ==
  ASSUME IInv, LmsReset
  PROVE  IInv'
<1> DEFINE c == "LMS_RST"
           bit  == Reset[rx.Periph_ID]
           word == UNION {brd[k][Ctrl] : k \in mac \cap Banks}
           on   == word \cup {bit}
           off  == word \ {bit}
<1>1. Now(c) /\ NextBlock /\ UNCHANGED <<mac, si5351, dac, adf, pot, fwVars, tx>>
  BY DEF LmsReset
<1>2. /\ rx.Command = c /\ b \in Blocks(c) /\ rx \in PacketsOf(c) /\ ~WrongPeriph(rx)
      /\ DeviceTypes /\ hoped \in Beliefs /\ Agrees(hoped)
  BY <1>1, AtBlock DEF Failing
<1>3. /\ rx.Periph_ID \in Chips /\ Select(rx.Periph_ID) = rx.Periph_ID
      /\ b.op \in {"DEACTIVATE", "ACTIVATE", "PULSE", "OTHER"}
  BY <1>2, SelectFacts, BlockTypes
<1>4. bit \in Bits
  BY <1>3, ResetAssumption
<1>5. word \in SUBSET Bits
  BY <1>2, CtrlAssumption DEF DeviceTypes
<1>6. BrdWord(Ctrl) = word
  BY CtrlAssumption DEF BrdWord, Selected
<1>7. word = UNION {hoped.brd[k][Ctrl] : k \in hoped.mac \cap Banks}
  BY <1>2 DEF Agrees
<1>8. hoped' = ResetMeant(hoped, bit, b.op)
  BY <1>1, <1>2 DEF NextBlock, Believe
<1> HIDE DEF bit, word
<1>9. on \in SUBSET Bits /\ off \in SUBSET Bits /\ off \cup {bit} = on
  BY <1>4, <1>5
<1>10. /\ Modify(word, bit, bit, {}) = off
       /\ Modify(word, bit, bit, {0}) = on
       /\ Modify(off, bit, bit, {0}) = on
  BY <1>4, <1>5, <1>9, ModifyOneBit
<1>11. CASE b.op = "DEACTIVATE"
  <2>1. BrdStore(Ctrl, {on}, on) /\ cmd_errors' = cmd_errors
    BY <1>3, <1>6, <1>10, <1>11 DEF LmsReset, NoError, bit
  <2>2. hoped' = Stored(hoped, Ctrl, on, Pin \notin on)
    BY <1>7, <1>8, <1>11 DEF ResetMeant
  <2>3. (Pin \notin on) <=> (Ctrl = Ctrl /\ \E w \in {on} : Pin \notin w)
    OBVIOUS
  <2> HIDE DEF on
  <2>4. (Pin \notin on) \in BOOLEAN
    OBVIOUS
  <2> QED BY <1>1, <1>9, <2>1, <2>2, <2>3, <2>4, StoreStep, CtrlAssumption
<1>12. CASE b.op = "ACTIVATE"
  <2>1. BrdStore(Ctrl, {off}, off) /\ cmd_errors' = cmd_errors
    BY <1>3, <1>6, <1>10, <1>12 DEF LmsReset, NoError, bit
  <2>2. hoped' = Stored(hoped, Ctrl, off, Pin \notin off)
    BY <1>7, <1>8, <1>12 DEF ResetMeant
  <2>3. (Pin \notin off) <=> (Ctrl = Ctrl /\ \E w \in {off} : Pin \notin w)
    OBVIOUS
  <2> HIDE DEF off
  <2>4. (Pin \notin off) \in BOOLEAN
    OBVIOUS
  <2> QED BY <1>1, <1>9, <2>1, <2>2, <2>3, <2>4, StoreStep, CtrlAssumption
<1>13. CASE b.op = "PULSE"
  <2>1. BrdStore(Ctrl, {off, on}, on) /\ cmd_errors' = cmd_errors
    BY <1>3, <1>6, <1>10, <1>13 DEF LmsReset, NoError, bit
  <2>2. hoped' = Stored(hoped, Ctrl, on, Pin \notin off)
    BY <1>7, <1>8, <1>13 DEF ResetMeant
  <2>3. (Pin \notin off) <=> (Ctrl = Ctrl /\ \E w \in {off, on} : Pin \notin w)
    OBVIOUS
  <2> HIDE DEF on, off
  <2>4. (Pin \notin off) \in BOOLEAN
    OBVIOUS
  <2> QED BY <1>1, <1>9, <2>1, <2>2, <2>3, <2>4, StoreStep, CtrlAssumption
<1>14. CASE b.op = "OTHER"
  <2>1. cmd_errors' = cmd_errors + 1 /\ UNCHANGED <<brd, lms>>
    BY <1>14 DEF LmsReset, Errors
  <2>2. hoped' = hoped
    BY <1>8, <1>14 DEF ResetMeant
  <2>3. mac' = mac /\ mac = hoped.mac /\ mac \in SUBSET Bits
    BY <1>1, <1>2 DEF Agrees, DeviceTypes
  <2>4. hoped' = [hoped EXCEPT !.mac = mac']
    BY <1>2, <2>2, <2>3 DEF Beliefs
  <2> QED BY <1>1, <2>1, <2>3, <2>4, SelectStep
<1> QED BY <1>3, <1>11, <1>12, <1>13, <1>14

\* A command that only reads leaves every belief true.
LEMMA ReadLeaves ==
  ASSUME IInv, NEW c \in Reads, Now(c), NextBlock, UNCHANGED <<devices, fwVars>>
  PROVE  /\ pc = "blocks" /\ rx.Command = c /\ block < rx.Data_blocks
         /\ b \in Blocks(c) /\ DeviceTypes /\ DeviceTypes' /\ cmd_errors \in Nat
         /\ hoped' \in Beliefs /\ ~(dac'.on /\ adf')
         /\ c \notin Failing /\ c # "ADF4002_WR"
         /\ Agrees(believed) /\ Agrees(hoped)'
<1>1. c \notin Writes /\ c \notin Failing /\ c # "ADF4002_WR"
  BY DEF Reads, Writes, Failing
<1>2. /\ pc = "blocks" /\ rx.Command = c /\ block < rx.Data_blocks
      /\ b \in Blocks(c) /\ DeviceTypes /\ cmd_errors \in Nat
      /\ hoped \in Beliefs /\ ~(dac.on /\ adf)
      /\ Agrees(hoped) /\ hoped = believed
  BY <1>1, AtBlock
<1>3. hoped' = hoped
  BY <1>1, <1>2, BelieveRead DEF NextBlock
<1>4. DeviceTypes' /\ ~(dac'.on /\ adf')
  BY <1>2 DEF DeviceTypes, devices, fpga, fwVars
<1>5. Agrees(hoped)'
  BY <1>2, <1>3 DEF Agrees, devices, fpga, fwVars
<1> QED BY <1>1, <1>2, <1>3, <1>4, <1>5

\* A register of an LMS7002M is read as it is believed to be.
LEMMA LmsReadNext ==
  ASSUME IInv, LmsRead
  PROVE  IInv'
<1> DEFINE c == "LMS7002_RD"
           chip == Select(rx.Periph_ID)
<1>1. /\ Now(c) /\ NextBlock /\ UNCHANGED <<devices, fwVars>> /\ c \in Reads
      /\ cmd_errors' = cmd_errors
  BY DEF LmsRead, NoError, Reads
<1>2. PICK v \in Values : (Pin \in brd[chip][Ctrl] => v = lms[chip][b.addr]) /\ tx' = Append(tx, v)
  BY DEF LmsRead, Awake
<1>3. /\ pc = "blocks" /\ rx.Command = c /\ block < rx.Data_blocks
      /\ b \in Blocks(c) /\ DeviceTypes /\ DeviceTypes' /\ cmd_errors \in Nat
      /\ hoped' \in Beliefs /\ ~(dac'.on /\ adf') /\ c \notin Failing /\ c # "ADF4002_WR"
      /\ Agrees(believed) /\ Agrees(hoped)'
  BY <1>1, ReadLeaves
<1>4. chip \in Chips /\ b.addr \in Addrs
  BY <1>3, SelectIsChip, BlockTypes
<1>5. v \in Readings
  BY DEF Readings
<1>6. Expected(block + 1) = IF Pin \in believed.brd[chip][Ctrl]
                              THEN believed.lms[chip][b.addr] ELSE Values
  BY <1>3 DEF Expected, b
<1> HIDE DEF chip
<1>7. v \in Expected(block + 1)
  BY <1>2, <1>3, <1>4, <1>6 DEF Agrees
<1> QED BY <1>1, <1>2, <1>3, <1>5, <1>7, BlockStep

\* So is a register of the FPGA.
LEMMA BrdReadNext ==
  ASSUME IInv, BrdRead
  PROVE  IInv'
<1> DEFINE c == "BRDSPI16_RD"
           v == BrdWord(b.addr)
<1>1. /\ Now(c) /\ NextBlock /\ UNCHANGED <<devices, fwVars>> /\ c \in Reads
      /\ cmd_errors' = cmd_errors /\ tx' = Append(tx, v)
  BY DEF BrdRead, NoError, Reads
<1>2. /\ pc = "blocks" /\ rx.Command = c /\ block < rx.Data_blocks
      /\ b \in Blocks(c) /\ DeviceTypes /\ DeviceTypes' /\ cmd_errors \in Nat
      /\ hoped' \in Beliefs /\ ~(dac'.on /\ adf') /\ c \notin Failing /\ c # "ADF4002_WR"
      /\ Agrees(believed) /\ Agrees(hoped)'
  BY <1>1, ReadLeaves
<1>3. b.addr \in BrdAddrs \cup {Mac}
  BY <1>2, BlockTypes
<1>4. v \in SUBSET Bits
  BY <1>2, <1>3 DEF DeviceTypes, BrdWord, Selected
<1>5. v \in Readings
  BY <1>4 DEF Readings
<1>6. Expected(block + 1) =
        {IF b.addr = Mac THEN believed.mac
         ELSE UNION {believed.brd[k][b.addr] : k \in believed.mac \cap Banks}}
  BY <1>2 DEF Expected, b
<1>7. v = IF b.addr = Mac THEN believed.mac
          ELSE UNION {believed.brd[k][b.addr] : k \in believed.mac \cap Banks}
  BY <1>2 DEF Agrees, BrdWord, Selected
<1>8. v \in Expected(block + 1)
  BY <1>6, <1>7
<1> QED BY <1>1, <1>2, <1>5, <1>8, BlockStep

\* So is a register of the Si5351C, unless a byte on the bus was refused; then
\* the command ends in an error.
LEMMA Si5351ReadNext ==
  ASSUME IInv, Si5351Read
  PROVE  IInv'
<1> DEFINE c == "SI5351_RD"
<1>1. Now(c) /\ NextBlock /\ UNCHANGED <<devices, fwVars>> /\ c \in Reads
  BY DEF Si5351Read, Reads
<1>2. PICK nacks \in 0 .. 3, v \in Values :
        /\ nacks = 0 => v = si5351[b.addr]
        /\ cmd_errors' = cmd_errors + nacks
        /\ tx' = Append(tx, v)
  BY DEF Si5351Read, Errors
<1>3. /\ pc = "blocks" /\ rx.Command = c /\ block < rx.Data_blocks
      /\ b \in Blocks(c) /\ DeviceTypes /\ DeviceTypes' /\ cmd_errors \in Nat
      /\ hoped' \in Beliefs /\ ~(dac'.on /\ adf') /\ c \notin Failing /\ c # "ADF4002_WR"
      /\ Agrees(believed) /\ Agrees(hoped)'
  BY <1>1, ReadLeaves
<1>4. b.addr \in Addrs
  BY <1>3, BlockTypes
<1>5. v \in Readings
  BY DEF Readings
<1>6. rx' = rx /\ pc' = pc
  BY <1>1 DEF NextBlock
<1>7. Completing' => nacks = 0
  BY <1>2, <1>3, <1>6 DEF Completing
<1>8. Completing' => v \in Expected(block + 1)
  BY <1>2, <1>3, <1>4, <1>7 DEF Agrees, Expected, b
<1>9. cmd_errors' \in Nat /\ cmd_errors <= cmd_errors' /\ cmd_errors' <= cmd_errors + 3
  BY <1>2, <1>3
<1> QED BY <1>1, <1>2, <1>3, <1>5, <1>8, <1>9, BlockStep

\* The DAC's value and the positions of the wipers are read as remembered.
LEMMA AnalogReadNext ==
  ASSUME IInv, AnalogRead
  PROVE  IInv'
<1> DEFINE c == "ANALOG_VAL_RD"
<1>1. Now(c) /\ NextBlock /\ UNCHANGED <<devices, fwVars>> /\ c \in Reads
  BY DEF AnalogRead, Reads
<1>2. /\ pc = "blocks" /\ rx.Command = c /\ block < rx.Data_blocks
      /\ b \in Blocks(c) /\ DeviceTypes /\ DeviceTypes' /\ cmd_errors \in Nat
      /\ hoped' \in Beliefs /\ ~(dac'.on /\ adf') /\ c \notin Failing /\ c # "ADF4002_WR"
      /\ Agrees(believed) /\ Agrees(hoped)'
  BY <1>1, ReadLeaves
<1>3. b.ch \in {0, 1, 2, 3, 4}
  BY <1>2, BlockTypes
<1>4. Expected(block + 1) = CASE b.ch = 0        -> believed.dac
                              [] b.ch \in {2, 3} -> believed.wiper[b.ch - 2]
                              [] OTHER           -> AnalogVals \cup {0}
  BY <1>2 DEF Expected, b
<1>5. \E v \in Readings : tx' = Append(tx, v) /\ v \in Expected(block + 1)
  <2>1. CASE b.ch = 0
    <3>1. tx' = Append(tx, dac_val)
      BY <2>1 DEF AnalogRead
    <3>2. dac_val \in Readings /\ dac_val \in Expected(block + 1)
      BY <1>2, <1>4, <2>1 DEF Agrees, DeviceTypes, Readings
    <3> QED BY <3>1, <3>2
  <2>2. CASE b.ch = 1
    <3>1. PICK t \in AnalogVals : tx' = Append(tx, t)
      BY <2>2 DEF AnalogRead
    <3>2. t \in Readings /\ t \in Expected(block + 1)
      BY <1>4, <2>2 DEF Readings, Analog
    <3> QED BY <3>1, <3>2
  <2>3. CASE b.ch \in {2, 3}
    <3>1. tx' = Append(tx, wiper_pos[b.ch - 2]) /\ b.ch - 2 \in Chips
      BY <2>3 DEF AnalogRead, Chips
    <3>2. wiper_pos[b.ch - 2] \in Analog
      BY <1>2, <3>1 DEF DeviceTypes
    <3>3. wiper_pos[b.ch - 2] \in believed.wiper[b.ch - 2]
      BY <1>2, <3>1 DEF Agrees
    <3>4. Expected(block + 1) = believed.wiper[b.ch - 2]
      BY <1>4, <2>3
    <3> QED BY <3>1, <3>2, <3>3, <3>4 DEF Readings
  <2>4. CASE b.ch = 4
    <3>1. tx' = Append(tx, 0)
      BY <2>4 DEF AnalogRead
    <3>2. 0 \in Readings /\ 0 \in Expected(block + 1)
      BY <1>4, <2>4 DEF Readings
    <3> QED BY <3>1, <3>2
  <2> QED BY <1>3, <2>1, <2>2, <2>3, <2>4
<1>6. cmd_errors' \in {cmd_errors, cmd_errors + 1}
  BY <1>3 DEF AnalogRead, NoError, Errors
<1>7. cmd_errors' \in Nat /\ cmd_errors <= cmd_errors' /\ cmd_errors' <= cmd_errors + 3
  BY <1>2, <1>6
<1> QED BY <1>1, <1>2, <1>5, <1>7, BlockStep

\* A block for the ADF4002 finds the DAC in three-state.
LEMMA AdfWriteNext ==
  ASSUME IInv, AdfWrite
  PROVE  IInv'
<1> DEFINE c == "ADF4002_WR"
<1>1. /\ Now(c) /\ NextBlock /\ cmd_errors' = cmd_errors /\ adf' = (TRUE /\ b.drives)
      /\ UNCHANGED <<lms, brd, mac, si5351, dac, pot, fwVars, tx>>
  BY DEF AdfWrite, NoError, Control_TCXO_ADF, fpga
<1>2. /\ pc = "blocks" /\ rx.Command = c /\ block < rx.Data_blocks
      /\ b \in Blocks(c) /\ DeviceTypes /\ hoped \in Beliefs
      /\ cmd_errors \in Nat /\ ~dac.on /\ cmd_errors = 0
      /\ Agrees(hoped)
  BY <1>1, AtBlock DEF Failing
<1>3. hoped' = hoped
  BY <1>1, <1>2, BelieveRead DEF NextBlock, Writes, Failing
<1>4. adf' \in BOOLEAN
  BY <1>1
<1>5. DeviceTypes'
  BY <1>1, <1>2, <1>4 DEF DeviceTypes, fwVars
<1>6. Agrees(hoped)'
  BY <1>1, <1>2, <1>3 DEF Agrees, fwVars
<1> QED BY <1>1, <1>2, <1>3, <1>5, <1>6, BlockStep DEF Failing, Reads

\* A register of the Si5351C is written, or an error is counted.
LEMMA Si5351WriteNext ==
  ASSUME IInv, Si5351Write
  PROVE  IInv'
<1> DEFINE c == "SI5351_WR"
<1>1. Now(c) /\ NextBlock /\ UNCHANGED <<lms, brd, mac, dac, adf, pot, fwVars, tx>>
  BY DEF Si5351Write, fpga
<1>2. PICK nacks \in 0 .. 3 :
        /\ cmd_errors' = cmd_errors + nacks
        /\ si5351' = IF nacks = 0 THEN [si5351 EXCEPT ![b.addr] = b.val] ELSE si5351
  BY DEF Si5351Write, Errors
<1>3. /\ pc = "blocks" /\ rx.Command = c /\ block < rx.Data_blocks
      /\ b \in Blocks(c) /\ DeviceTypes /\ hoped \in Beliefs /\ believed \in Beliefs
      /\ cmd_errors \in Nat /\ ~(dac.on /\ adf)
      /\ cmd_errors = 0 => Agrees(hoped)
      /\ Agrees(Unsure(rx, believed))
  BY <1>1, AtBlock DEF Failing
<1>4. b.addr \in Addrs /\ b.val \in Values
  BY <1>3, BlockTypes
<1>5. /\ hoped' \in Beliefs
      /\ hoped'.si5351 = [hoped.si5351 EXCEPT ![b.addr] = {b.val}]
      /\ hoped'.lms = hoped.lms /\ hoped'.brd = hoped.brd /\ hoped'.mac = hoped.mac
      /\ hoped'.dac = hoped.dac /\ hoped'.wiper = hoped.wiper
  <2>1. rx.Command = c /\ b \in Blocks(c) /\ hoped \in Beliefs
    BY <1>3
  <2>2. hoped' = Believe(rx, hoped, b)
    BY <1>1 DEF NextBlock
  <2> QED BY <2>1, <2>2, BelieveSi5351
<1>6. si5351' \in [Addrs -> Values]
  BY <1>2, <1>3, <1>4 DEF DeviceTypes
<1>7. DeviceTypes'
  BY <1>1, <1>3, <1>6 DEF DeviceTypes, fwVars
<1>8. cmd_errors' \in Nat /\ cmd_errors <= cmd_errors' /\ cmd_errors' <= cmd_errors + 3
  BY <1>2, <1>3
<1>9. ASSUME cmd_errors' = 0
      PROVE  Agrees(hoped)'
  <2>1. nacks = 0 /\ Agrees(hoped)
    BY <1>2, <1>3, <1>9
  <2>2. \A a \in Addrs : si5351'[a] \in hoped'.si5351[a]
    BY <1>2, <1>3, <1>4, <1>5, <2>1 DEF Beliefs, DeviceTypes, Agrees
  <2> QED BY <1>1, <1>5, <2>1, <2>2 DEF Agrees, fwVars
<1>10. Agrees(Unsure(rx, believed))'
  <2>1. Unsure(rx, believed) = [believed EXCEPT !.si5351 = [a \in Addrs |-> Values]]
    BY <1>3 DEF Unsure
  <2>2. Unsure(rx, believed)' = Unsure(rx, believed)
    BY <1>1 DEF NextBlock, Unsure
  <2>3. Unsure(rx, believed).si5351 = [a \in Addrs |-> Values]
    BY <1>3, <2>1 DEF Beliefs
  <2>4. \A a \in Addrs : si5351'[a] \in Unsure(rx, believed).si5351[a]
    BY <1>6, <2>3
  <2> HIDE DEF Unsure
  <2> QED BY <1>1, <1>3, <2>2, <2>4 DEF Agrees, fwVars
<1> QED BY <1>1, <1>3, <1>5, <1>7, <1>8, <1>9, <1>10, BlockStep DEF Failing, Reads

\* The DAC and the wipers are set, or an error is counted.  The DAC is enabled
\* after the charge pump of the ADF4002 has been put in three-state.
LEMMA AnalogWriteNext ==
  ASSUME IInv, AnalogWrite
  PROVE  IInv'
<1> DEFINE c == "ANALOG_VAL_WR"
<1>1. Now(c) /\ NextBlock /\ UNCHANGED <<lms, brd, mac, si5351, tx>>
  BY DEF AnalogWrite, fpga
<1>2. /\ pc = "blocks" /\ rx.Command = c /\ block < rx.Data_blocks
      /\ b \in Blocks(c) /\ DeviceTypes /\ hoped \in Beliefs /\ believed \in Beliefs
      /\ cmd_errors \in Nat /\ ~(dac.on /\ adf)
      /\ cmd_errors = 0 => Agrees(hoped)
      /\ Agrees(Unsure(rx, believed))
  BY <1>1, AtBlock DEF Failing
<1>3. b.ch \in {0, 1, 2, 3} /\ b.unit \in {0, 1} /\ b.val \in Analog
  BY <1>2, BlockTypes DEF Analog
<1>4. /\ hoped' \in Beliefs
      /\ hoped'.lms = hoped.lms /\ hoped'.brd = hoped.brd /\ hoped'.mac = hoped.mac
      /\ hoped'.si5351 = hoped.si5351
      /\ hoped'.dac = IF b.ch = 0 THEN {b.val} ELSE hoped.dac
      /\ hoped'.wiper = IF b.ch \in {2, 3} THEN [hoped.wiper EXCEPT ![b.ch - 2] = {b.val}]
                                           ELSE hoped.wiper
  <2>1. rx.Command = c /\ b \in Blocks(c) /\ hoped \in Beliefs
    BY <1>2
  <2>2. hoped' = Believe(rx, hoped, b)
    BY <1>1 DEF NextBlock
  <2> DEFINE n == Believe(rx, hoped, b)
  <2>3. /\ n \in Beliefs
        /\ n.lms = hoped.lms /\ n.brd = hoped.brd /\ n.mac = hoped.mac
        /\ n.si5351 = hoped.si5351
        /\ n.dac = IF b.ch = 0 THEN {b.val} ELSE hoped.dac
        /\ n.wiper = IF b.ch \in {2, 3} THEN [hoped.wiper EXCEPT ![b.ch - 2] = {b.val}]
                                        ELSE hoped.wiper
    BY <2>1, BelieveAnalog
  <2> HIDE DEF n
  <2> QED BY <2>2, <2>3 DEF n
<1>5. \/ /\ cmd_errors' = cmd_errors + 1 /\ UNCHANGED <<adf, dac, dac_val, pot>>
         /\ \/ wiper_pos' = wiper_pos
            \/ b.ch \in {2, 3} /\ wiper_pos' = [wiper_pos EXCEPT ![b.ch - 2] = b.val]
      \/ /\ cmd_errors' = cmd_errors /\ b.ch = 0 /\ adf' = FALSE
         /\ dac_val' = b.val /\ dac' = [on |-> TRUE, val |-> b.val]
         /\ UNCHANGED <<pot, wiper_pos>>
      \/ /\ cmd_errors' = cmd_errors /\ b.ch \in {2, 3}
         /\ wiper_pos' = [wiper_pos EXCEPT ![b.ch - 2] = b.val]
         /\ pot' = [pot EXCEPT ![b.ch - 2] = b.val] /\ b.val <= WiperMax
         /\ UNCHANGED <<adf, dac, dac_val>>
  <2>1. CASE b.ch = 0
    <3>1. SetDac /\ UNCHANGED <<pot, wiper_pos>>
      BY <2>1 DEF AnalogWrite
    <3>2. CASE b.unit = 0
      <4>1. /\ Control_TCXO_ADF(FALSE, FALSE) /\ dac_val' = b.val
            /\ Control_TCXO_DAC(TRUE, b.val) /\ cmd_errors' = cmd_errors
        BY <3>1, <3>2 DEF SetDac, NoError
      <4>2. adf' = FALSE /\ dac' = [on |-> TRUE, val |-> b.val]
        BY <4>1 DEF Control_TCXO_ADF, Control_TCXO_DAC
      <4> QED BY <2>1, <3>1, <4>1, <4>2
    <3>3. CASE b.unit = 1
      BY <3>1, <3>3 DEF SetDac, Errors
    <3> QED BY <1>3, <3>2, <3>3
  <2>2. CASE b.ch = 1
    BY <2>2 DEF AnalogWrite, Errors, fwVars
  <2>3. CASE b.ch \in {2, 3}
    BY <1>3, <2>3 DEF AnalogWrite, SetWiper, Errors, NoError
  <2> QED BY <1>3, <2>1, <2>2, <2>3
<1>6. /\ dac \in [on : BOOLEAN, val : Analog] /\ adf \in BOOLEAN /\ dac_val \in Analog
      /\ pot \in [Chips -> Analog] /\ \A i \in Chips : pot[i] <= WiperMax
      /\ wiper_pos \in [Chips -> Analog]
  BY <1>2 DEF DeviceTypes
<1>7. cmd_errors' \in Nat /\ cmd_errors <= cmd_errors' /\ cmd_errors' <= cmd_errors + 3
  BY <1>2, <1>5
<1>8. /\ dac' \in [on : BOOLEAN, val : Analog] /\ adf' \in BOOLEAN /\ dac_val' \in Analog
      /\ ~(dac'.on /\ adf')
  <2>1. CASE UNCHANGED <<adf, dac, dac_val>>
    BY <1>2, <1>6, <2>1
  <2>2. CASE adf' = FALSE /\ dac_val' = b.val /\ dac' = [on |-> TRUE, val |-> b.val]
    BY <1>3, <2>2
  <2> QED BY <1>5, <2>1, <2>2
<1>9. wiper_pos' \in [Chips -> Analog]
  BY <1>3, <1>5, <1>6
<1>10. pot' \in [Chips -> Analog] /\ \A i \in Chips : pot'[i] <= WiperMax
  BY <1>3, <1>5, <1>6
<1>11. DeviceTypes'
  BY <1>1, <1>2, <1>8, <1>9, <1>10 DEF DeviceTypes
<1>12. ASSUME cmd_errors' = 0
       PROVE  Agrees(hoped)'
  <2>1. Agrees(hoped) /\ cmd_errors' # cmd_errors + 1
    BY <1>2, <1>5, <1>7, <1>12
  <2>2. dac_val' \in hoped'.dac
    BY <1>4, <1>5, <2>1 DEF Agrees
  <2>3. \A i \in Chips : pot'[i] \in hoped'.wiper[i] /\ wiper_pos'[i] \in hoped'.wiper[i]
    BY <1>2, <1>4, <1>5, <2>1 DEF Agrees, DeviceTypes, Beliefs, Chips
  <2> QED BY <1>1, <1>4, <2>1, <2>2, <2>3 DEF Agrees
<1>13. Agrees(Unsure(rx, believed))'
  <2>1. Unsure(rx, believed) = [believed EXCEPT !.dac = Analog, !.wiper = [i \in Chips |-> Analog]]
    BY <1>2 DEF Unsure
  <2>2. Unsure(rx, believed)' = Unsure(rx, believed)
    BY <1>1 DEF NextBlock, Unsure
  <2>3. Unsure(rx, believed).dac = Analog /\ Unsure(rx, believed).wiper = [i \in Chips |-> Analog]
    BY <1>2, <2>1 DEF Beliefs
  <2>4. /\ dac_val' \in Unsure(rx, believed).dac
        /\ \A i \in Chips : /\ pot'[i] \in Unsure(rx, believed).wiper[i]
                            /\ wiper_pos'[i] \in Unsure(rx, believed).wiper[i]
    BY <1>8, <1>9, <1>10, <2>3
  <2> HIDE DEF Unsure
  <2> QED BY <1>1, <1>2, <2>2, <2>4 DEF Agrees
<1> QED BY <1>1, <1>2, <1>4, <1>7, <1>8, <1>11, <1>12, <1>13, BlockStep DEF Failing, Reads

\* After an error nothing more is believed of the device that failed.
LEMMA UnsureFacts ==
  ASSUME NEW p, NEW h \in Beliefs
  PROVE  /\ Unsure(p, h) \in Beliefs
         /\ DeviceTypes /\ Agrees(h) => Agrees(Unsure(p, h))
<1>1. CASE p.Command = "SI5351_WR"
  <2>1. Unsure(p, h) = [h EXCEPT !.si5351 = [a \in Addrs |-> Values]]
    BY <1>1 DEF Unsure
  <2>2. [a \in Addrs |-> Values] \in [Addrs -> SUBSET Values]
    OBVIOUS
  <2>3. /\ Unsure(p, h) \in Beliefs
        /\ Unsure(p, h).si5351 = [a \in Addrs |-> Values]
        /\ Unsure(p, h).lms = h.lms /\ Unsure(p, h).brd = h.brd
        /\ Unsure(p, h).mac = h.mac /\ Unsure(p, h).dac = h.dac
        /\ Unsure(p, h).wiper = h.wiper
    BY <2>1, <2>2 DEF Beliefs
  <2> HIDE DEF Unsure
  <2> QED BY <2>3 DEF Agrees, DeviceTypes
<1>2. CASE p.Command = "ANALOG_VAL_WR"
  <2>1. Unsure(p, h) = [h EXCEPT !.dac = Analog, !.wiper = [i \in Chips |-> Analog]]
    BY <1>2 DEF Unsure
  <2>2. [i \in Chips |-> Analog] \in [Chips -> SUBSET Analog]
    OBVIOUS
  <2>3. /\ Unsure(p, h) \in Beliefs
        /\ Unsure(p, h).dac = Analog /\ Unsure(p, h).wiper = [i \in Chips |-> Analog]
        /\ Unsure(p, h).lms = h.lms /\ Unsure(p, h).brd = h.brd
        /\ Unsure(p, h).mac = h.mac /\ Unsure(p, h).si5351 = h.si5351
    BY <2>1, <2>2 DEF Beliefs
  <2> HIDE DEF Unsure
  <2> QED BY <2>3 DEF Agrees, DeviceTypes
<1>3. CASE p.Command \notin {"SI5351_WR", "ANALOG_VAL_WR"}
  BY <1>3 DEF Unsure
<1> QED BY <1>1, <1>2, <1>3

\* The devices, their types and the beliefs before a step.
LEMMA Before ==
  ASSUME IInv
  PROVE  DeviceTypes /\ believed \in Beliefs /\ hoped \in Beliefs
BY DEF IInv, TypeOK, HistoryInv, DeviceTypes

\* What main() has set up.
LEMMA DispatcherInit ==
  ASSUME Init
  PROVE  IInv
<1>1. PICK v \in Values : /\ lms = [c \in Chips |-> [a \in Addrs |-> v]]
                          /\ si5351 = [a \in Addrs |-> v]
  BY DEF Init
<1>2. brd = [k \in Banks |-> BrdDefault] /\ mac = {0}
  BY DEF Init
<1>3. brd \in [Banks -> [BrdAddrs -> SUBSET Bits]] /\ mac \in SUBSET Bits
  <2>1. 0 \in Bits
    BY BanksAssumption DEF Chips
  <2> QED BY <1>2, <2>1, DefaultAssumption
<1>4. /\ dac = [on |-> TRUE, val |-> DefaultDac] /\ adf = FALSE
      /\ pot = [i \in Chips |-> DefaultWiper]
      /\ dac_val = DefaultDac /\ wiper_pos = [i \in Chips |-> DefaultWiper]
      /\ cmd_errors = 0 /\ block = 0 /\ pc = "idle" /\ rx = NoPacket
      /\ status = "COMPLETED" /\ tx = <<>> /\ hoped = believed /\ suite \in Suites
  BY DEF Init
<1>5. believed = [lms    |-> [c \in Chips |-> [a \in Addrs |-> Values]],
                  brd    |-> brd,
                  mac    |-> mac,
                  si5351 |-> [a \in Addrs |-> Values],
                  dac    |-> {DefaultDac},
                  wiper  |-> [i \in Chips |-> {DefaultWiper}]]
  BY DEF Init
<1>6. DefaultDac \in Analog /\ DefaultWiper \in Analog /\ DefaultWiper <= WiperMax
  BY SizesAssumption DEF Analog
<1>7. DeviceTypes
  BY <1>1, <1>3, <1>4, <1>6 DEF DeviceTypes
<1>8. believed \in Beliefs
  BY <1>3, <1>5, <1>6 DEF Beliefs
<1>9. rx.Data_blocks = 0
  BY <1>4 DEF NoPacket
<1>10. TypeOK
  BY <1>4, <1>7, <1>9, SizesAssumption DEF TypeOK, DeviceTypes
<1>11. HistoryInv
  BY <1>4, <1>7, <1>8 DEF HistoryInv, DeviceTypes
<1>12. PacketInv /\ DriverInv /\ StartInv /\ ReadInv
  BY <1>4 DEF PacketInv, DriverInv, OneTcxoDriver, StartInv, RefusedChangesNothing,
              ReadInv, Completing
<1>13. Agrees(believed)
  BY <1>1, <1>4, <1>5 DEF Agrees
<1>14. AgreeInv
  BY <1>4, <1>13 DEF AgreeInv
<1> QED BY <1>10, <1>11, <1>12, <1>14 DEF IInv

\* A command comes.
LEMMA IdleNext ==
  ASSUME IInv, Idle
  PROVE  IInv'
<1>1. PICK c \in suite : rx' \in PacketsOf(c)
  BY DEF Idle
<1>2. /\ pc = "idle" /\ pc' = "check" /\ status' = "BUSY" /\ cmd_errors' = 0 /\ block' = 0
      /\ tx' = <<>> /\ start' = devices /\ hoped' = believed
      /\ UNCHANGED <<suite, devices, fwVars, believed>>
  BY DEF Idle
<1>3. rx'.Command = c /\ rx'.Data_blocks \in Nat
  BY <1>1, PacketFacts
<1>4. TypeOK /\ HistoryInv /\ DriverInv /\ AgreeInv
  BY DEF IInv
<1>5. UNCHANGED <<lms, brd, mac, si5351, dac, adf, pot, dac_val, wiper_pos>>
  BY <1>2 DEF devices, fpga, fwVars
<1>6. TypeOK'
  BY <1>2, <1>3, <1>4, <1>5, SizesAssumption DEF TypeOK
<1>7. HistoryInv'
  BY <1>2, <1>4, <1>5 DEF HistoryInv
<1>8. PacketInv'
  BY <1>1, <1>2, <1>3 DEF PacketInv
<1>9. DriverInv' /\ ReadInv'
  BY <1>2, <1>4, <1>5 DEF DriverInv, OneTcxoDriver, ReadInv, Completing
<1>10. StartInv'
  BY <1>2, <1>5 DEF StartInv, RefusedChangesNothing, devices, fpga
<1>11. AgreeInv'
  BY <1>2, <1>4, <1>5 DEF AgreeInv, Agrees
<1> QED BY <1>6, <1>7, <1>8, <1>9, <1>10, <1>11 DEF IInv

\* The command is refused, answered, or its blocks begin.
LEMMA CheckNext ==
  ASSUME IInv, Check
  PROVE  IInv'
<1>1. /\ pc = "check"
      /\ UNCHANGED <<suite, lms, brd, mac, si5351, adf, pot, dac_val, wiper_pos, rx, tx, start,
                     believed, hoped>>
  BY DEF Check, fpga, fwVars, history
<1>2. /\ TypeOK /\ HistoryInv /\ PacketInv /\ DriverInv /\ StartInv /\ AgreeInv
  BY DEF IInv
<1>3. \/ /\ pc' = "send" /\ status' \in {"INVALID_PERIPH_ID", "BLOCKS_ERROR", "UNKNOWN", "COMPLETED"}
         /\ UNCHANGED <<dac, cmd_errors, block>>
         /\ rx.Command \in Reads => status' # "COMPLETED"
      \/ /\ pc' = "blocks" /\ ~WrongPeriph(rx) /\ ~ManyBlocks(rx)
         /\ dac' = IF rx.Command = "ADF4002_WR" THEN [dac EXCEPT !.on = FALSE] ELSE dac
         /\ UNCHANGED <<status, cmd_errors, block>>
  BY DEF Check, Refuse, Control_TCXO_DAC, Reads
<1>4. /\ status = "BUSY" /\ block = 0 /\ cmd_errors = 0 /\ rx \in PacketsOf(rx.Command)
      /\ Agrees(believed) /\ hoped = believed
  BY <1>1, <1>2 DEF PacketInv, AgreeInv
<1>5. rx.Data_blocks \in Nat /\ rx.Data_blocks \in Counts(rx.Command)
  BY <1>4, PacketFacts
<1>6. dac' \in [on : BOOLEAN, val : Analog] /\ (dac'.on => dac.on)
  BY <1>2, <1>3 DEF TypeOK
<1>7. TypeOK'
  BY <1>1, <1>2, <1>3, <1>4, <1>5, <1>6 DEF TypeOK
<1>8. HistoryInv'
  BY <1>1, <1>2 DEF HistoryInv
<1>9. pc' = "blocks" => rx.Data_blocks <= Capacity(rx.Command)
  BY <1>3, <1>5, CapacityFacts DEF ManyBlocks, Capacity, Counts
<1>10. PacketInv'
  BY <1>1, <1>2, <1>3, <1>4, <1>9 DEF PacketInv
<1>11. DriverInv'
  <2>1. ~(dac'.on /\ adf')
    BY <1>1, <1>2, <1>6 DEF DriverInv, OneTcxoDriver
  <2>2. pc' = "blocks" /\ rx.Command = "ADF4002_WR" => ~dac'.on /\ cmd_errors' = 0
    BY <1>2, <1>3, <1>4 DEF TypeOK
  <2> QED BY <1>1, <2>1, <2>2 DEF DriverInv, OneTcxoDriver
<1>12. StartInv'
  BY <1>1, <1>2, <1>3, <1>4 DEF StartInv, RefusedChangesNothing, devices, fpga
<1>13. Agrees(believed)' /\ Agrees(hoped)' /\ Agrees(Unsure(rx, believed))'
  <2>1. Agrees(Unsure(rx, believed))
    BY <1>4, Before, UnsureFacts
  <2>2. Unsure(rx, believed)' = Unsure(rx, believed)
    BY <1>1 DEF Unsure
  <2> HIDE DEF Unsure
  <2> QED BY <1>1, <1>4, <2>1, <2>2 DEF Agrees
<1>14. AgreeInv'
  BY <1>1, <1>3, <1>4, <1>13 DEF AgreeInv
<1>15. ReadInv'
  <2>1. Len(tx') = 0
    BY <1>1, <1>2, <1>4 DEF PacketInv
  <2> QED BY <2>1 DEF ReadInv
<1> QED BY <1>7, <1>8, <1>10, <1>11, <1>12, <1>14, <1>15 DEF IInv

\* The status of the answer.
LEMMA FinishNext ==
  ASSUME IInv, Finish
  PROVE  IInv'
<1>1. /\ pc = "blocks" /\ pc' = "send"
      /\ UNCHANGED <<suite, lms, brd, mac, si5351, dac, adf, pot, dac_val, wiper_pos, cmd_errors,
                     block, rx, tx, start, believed, hoped>>
  BY DEF Finish, devices, fpga, fwVars, history
<1>2. /\ TypeOK /\ HistoryInv /\ PacketInv /\ DriverInv /\ StartInv /\ AgreeInv /\ ReadInv
  BY DEF IInv
<1>3. \/ /\ status' = "COMPLETED"
         /\ cmd_errors = 0 \/ rx.Command \notin Failing \cup {"SI5351_RD"}
      \/ status' = "ERROR" /\ rx.Command \in Failing \cup {"SI5351_RD"}
  BY <1>1, <1>2 DEF Finish, DriverInv, Failing
<1>4. TypeOK' /\ HistoryInv' /\ DriverInv' /\ StartInv'
  BY <1>1, <1>2, <1>3 DEF TypeOK, HistoryInv, DriverInv, OneTcxoDriver, StartInv,
                          RefusedChangesNothing
<1>5. PacketInv'
  BY <1>1, <1>2, <1>3 DEF PacketInv
<1>6. status' = "COMPLETED" => Agrees(hoped)
  BY <1>1, <1>2, <1>3 DEF AgreeInv
<1>7. status' = "ERROR" => Agrees(Unsure(rx, believed))
  <2>1. CASE rx.Command \in Failing
    BY <1>1, <1>2, <2>1 DEF AgreeInv
  <2>2. CASE rx.Command = "SI5351_RD"
    <3>1. Agrees(believed)
      BY <1>1, <1>2, <2>2 DEF AgreeInv, Failing, Writes
    <3> QED BY <3>1, Before, UnsureFacts
  <2> QED BY <1>3, <2>1, <2>2
<1>8. /\ status' = "COMPLETED" => Agrees(hoped)'
      /\ status' = "ERROR" => Agrees(Unsure(rx, believed))'
  <2>1. Unsure(rx, believed)' = Unsure(rx, believed)
    BY <1>1 DEF Unsure
  <2> HIDE DEF Unsure
  <2> QED BY <1>1, <1>6, <1>7, <2>1 DEF Agrees
<1>9. AgreeInv'
  BY <1>1, <1>3, <1>8 DEF AgreeInv
<1>10. ReadInv'
  <2>1. Completing' => Completing
    BY <1>1, <1>3 DEF Completing
  <2>2. \A i \in 1 .. Len(tx) : Expected(i)' = Expected(i)
    BY <1>1 DEF Expected
  <2> HIDE DEF Expected
  <2> QED BY <1>1, <1>2, <2>1, <2>2 DEF ReadInv
<1> QED BY <1>4, <1>5, <1>9, <1>10 DEF IInv

\* The answer goes out, and the host draws its conclusions.
LEMMA SendNext ==
  ASSUME IInv, Send
  PROVE  IInv'
<1>1. /\ pc = "send" /\ pc' = "idle" /\ hoped' = believed'
      /\ UNCHANGED <<suite, lms, brd, mac, si5351, dac, adf, pot, dac_val, wiper_pos>>
      /\ rx' = NoPacket /\ tx' = <<>> /\ block' = 0 /\ cmd_errors' = 0
      /\ status' = "COMPLETED"
  BY DEF Send, Forget, devices, fpga, fwVars
<1>2. /\ TypeOK /\ HistoryInv /\ PacketInv /\ DriverInv /\ AgreeInv
  BY DEF IInv
<1>3. believed' \in Beliefs /\ Agrees(believed')
  <2>1. CASE status = "COMPLETED"
    BY <1>1, <1>2, <2>1 DEF Send, AgreeInv, HistoryInv
  <2>2. CASE status = "ERROR"
    BY <1>1, <1>2, <2>2, UnsureFacts DEF Send, AgreeInv, HistoryInv
  <2>3. CASE status \notin {"COMPLETED", "ERROR"}
    BY <1>1, <1>2, <2>3 DEF Send, AgreeInv, HistoryInv
  <2> QED BY <2>1, <2>2, <2>3
<1>4. Agrees(believed)'
  BY <1>1, <1>3 DEF Agrees
<1>5. rx'.Data_blocks = 0
  BY <1>1 DEF NoPacket
<1>6. TypeOK'
  BY <1>1, <1>2, <1>5, SizesAssumption DEF TypeOK
<1>7. HistoryInv'
  BY <1>1, <1>2, <1>3 DEF HistoryInv
<1>8. PacketInv' /\ DriverInv' /\ StartInv' /\ ReadInv'
  BY <1>1, <1>2 DEF PacketInv, DriverInv, OneTcxoDriver, StartInv,
                    RefusedChangesNothing, ReadInv, Completing
<1>9. AgreeInv'
  BY <1>1, <1>4 DEF AgreeInv
<1> QED BY <1>6, <1>7, <1>8, <1>9 DEF IInv

\* The invariant is inductive, and a stuttering step keeps it.
LEMMA DispatcherNext ==
  ASSUME IInv, [Next]_vars
  PROVE  IInv'
<1>1. CASE Block
  BY <1>1, LmsResetNext, LmsWriteNext, LmsReadNext, BrdWriteNext, BrdReadNext, AdfWriteNext,
     AnalogReadNext, AnalogWriteNext, Si5351WriteNext, Si5351ReadNext DEF Block
<1>2. CASE UNCHANGED vars
  <2> USE <1>2 DEF vars, devices, fpga, fwVars, history, IInv
  <2>1. TypeOK' /\ PacketInv' /\ HistoryInv'
    BY DEF TypeOK, PacketInv, HistoryInv
  <2>2. DriverInv' /\ StartInv'
    BY DEF DriverInv, OneTcxoDriver, StartInv, RefusedChangesNothing
  <2>3. AgreeInv'
    BY DEF AgreeInv, Agrees, Unsure
  <2>4. ReadInv'
    <3>1. ASSUME NEW i
          PROVE  Expected(i)' = Expected(i)
      BY DEF Expected
    <3>2. Completing' = Completing
      BY DEF Completing
    <3> HIDE DEF Expected, Completing
    <3> QED BY <3>1, <3>2 DEF ReadInv
  <2> QED BY <2>1, <2>2, <2>3, <2>4
<1> QED BY <1>1, <1>2, IdleNext, CheckNext, FinishNext, SendNext DEF Next

-----------------------------------------------------------------------------
\* The devices, the beliefs and the answer are in the states the invariant
\* describes.
THEOREM DispatcherInductive == Spec => []IInv
<1>1. Init => IInv
  BY DispatcherInit
<1>2. IInv /\ [Next]_vars => IInv'
  BY DispatcherNext
<1> QED BY <1>1, <1>2, PTL DEF Spec

\* Between two commands every device of the board is as the answers so far let
\* a host believe, whatever commands failed half way in between.
THEOREM DevicesBelieved == Spec => []DevicesAsBelieved
<1>1. IInv => DevicesAsBelieved
  BY DEF IInv, AgreeInv, Agrees, DevicesAsBelieved
<1> QED BY <1>1, DispatcherInductive, PTL

\* A completed read returns what the completed writes before it left.
THEOREM ReadsBack == Spec => []ReadBack
<1>1. IInv => ReadBack
  BY DEF IInv, ReadInv, Completing, ReadBack
<1> QED BY <1>1, DispatcherInductive, PTL

\* A command that the firmware refuses has not touched a device.
THEOREM RefusalChangesNothing == Spec => []RefusedChangesNothing
<1>1. IInv => RefusedChangesNothing
  BY DEF IInv, StartInv
<1> QED BY <1>1, DispatcherInductive, PTL

\* The DAC and the charge pump never drive the TCXO together.
THEOREM OneDriver == Spec => []OneTcxoDriver
<1>1. IInv => OneTcxoDriver
  BY DEF IInv, DriverInv
<1> QED BY <1>1, DispatcherInductive, PTL
=============================================================================
