----------------------------- MODULE RxPackets -----------------------------
(***************************************************************************)
(* The RX packet path of rx_path_top.vhd: samples leave the sample FIFO in *)
(* bursts (data2packets_fsm), are packed into 64-bit words (bit_pack) and  *)
(* framed into packets of fixed size (data2packets), which go whole or not *)
(* at all into the FIFO towards the host.  A counter numbers the samples,  *)
(* and the number that belongs to the first sample of a packet has to meet *)
(* that sample when the header is formed.                                  *)
(*                                                                         *)
(* Tick is one rising edge of rx_clk.  A sample is its number.  A packed   *)
(* word is named by its last sample: with 12 or 14 bits per component a    *)
(* word spans two consecutive samples.                                     *)
(***************************************************************************)
EXTENDS Naturals, Sequences

CONSTANTS
  Widths,     \* bits per component that sample_width is configured to
  Groups,     \* Groups[w]: packing groups per packet
  BuffWords,  \* 64-bit words of the FIFO to the host
  MaxSmpls    \* bound: samples received in one behaviour

\* bit_pack per width: Takes[w] samples become Gives[w] words, which come out
\* Latency[w] cycles after the sample that completes them came in.
Takes   == [w \in {12, 14, 16} |-> CASE w = 12 -> 4 [] w = 14 -> 8 [] OTHER -> 1]
Gives   == [w \in {12, 14, 16} |-> CASE w = 12 -> 3 [] w = 14 -> 7 [] OTHER -> 1]
Latency == [w \in {12, 14, 16} |-> CASE w = 12 -> 4 [] w = 14 -> 6 [] OTHER -> 1]

ASSUME WidthsAssumption == Widths \subseteq {12, 14, 16}
\* 170 * 4 = 680, 18 * 8 = 144 and 510 samples in the code: a burst is longer
\* than the latency of the packer, and a packet has at least six words.
ASSUME GroupsAssumption ==
  /\ Groups \in [Widths -> Nat]
  /\ \A w \in Widths : /\ Groups[w] * Takes[w] > Latency[w] + 2
                       /\ Groups[w] * Gives[w] >= 4
ASSUME BuffWordsAssumption ==
  BuffWords \in Nat /\ \A w \in Widths : BuffWords >= Groups[w] * Gives[w] + 2
ASSUME MaxSmplsAssumption == MaxSmpls \in Nat

VARIABLES
  sample_width,     \* bits per component
  smpl_used,        \* rdusedw of the sample FIFO
  smpl_cnt,         \* smpl_cnt_inst3: samples read, number of the next one
  smpl_used_reg,    \* registered rdusedw
  smpl_buff_rdy,    \* registered: more than a packet of samples waits
  pct_buff_rdy,     \* registered: the host FIFO has room for a packet
  pct_buff_wr,      \* pct_buff_wr_dis: this packet goes to the host (when 1)
  rd_state,         \* data2packets_fsm
  smpl_rd_cnt,      \* smpl_buff_rd_cnt
  smpl_rd_done,     \* smpl_buff_rd_done
  d2p_done,         \* inst0_data2packets_done
  data_in_valid,    \* a sample comes out of the sample FIFO
  pack_cnt,         \* wr_cnt of the packer: place in its group
  pack_pipe,        \* the register stages of bit_pack
  nr_pipe,          \* cnt_mux and the six registers of delay_chain
  pk_state,         \* data2packets
  pct_data_wr_cnt, pct_end_cnt,
  reg_0, reg_1, reg_2,
  pct_wrreq,        \* pct_wrreq_int
  wr_reg, wrdata_reg, \* registered write request and data of the host FIFO
  wrusedw,          \* words in the host FIFO as its write side sees it
  pct               \* history: the packet the host is getting, word by word

vars == <<sample_width, smpl_used, smpl_cnt, smpl_used_reg, smpl_buff_rdy,
          pct_buff_rdy, pct_buff_wr, rd_state, smpl_rd_cnt, smpl_rd_done,
          d2p_done, data_in_valid, pack_cnt, pack_pipe, nr_pipe, pk_state,
          pct_data_wr_cnt, pct_end_cnt, reg_0, reg_1, reg_2, pct_wrreq,
          wr_reg, wrdata_reg, wrusedw, pct>>

RdSize  == Groups[sample_width] * Takes[sample_width]      \* smpl_rd_size
PctSize == Groups[sample_width] * Gives[sample_width] + 2  \* inst2_pct_size

\* What a 64-bit register can hold: the first header word, the second one
\* with a sample number, a packed word, or the zero of reset.
Hdr0      == <<"hdr_0", 0>>
Hdr1(n)   == <<"hdr_1", n>>
Data(i)   == <<"data", i>>
Zero      == <<"zero", 0>>
Contents  == {Hdr0, Zero} \cup {Hdr1(n) : n \in 0 .. MaxSmpls}
                          \cup {Data(i) : i \in 0 .. MaxSmpls}
NoWord    == MaxSmpls + 1   \* an empty register stage of bit_pack

TypeOK ==
  /\ sample_width \in Widths
  /\ smpl_used \in 0 .. MaxSmpls /\ smpl_cnt \in 0 .. MaxSmpls
  /\ smpl_used_reg \in 0 .. MaxSmpls
  /\ smpl_buff_rdy \in BOOLEAN /\ pct_buff_rdy \in BOOLEAN
  /\ pct_buff_wr \in BOOLEAN
  /\ rd_state \in {"idle", "check_pct_buff", "rd_smpl_buff",
                   "wait_data2packets_done"}
  /\ smpl_rd_cnt \in 0 .. RdSize /\ smpl_rd_done \in BOOLEAN
  /\ d2p_done \in BOOLEAN /\ data_in_valid \in BOOLEAN
  /\ pack_cnt \in 0 .. Takes[sample_width] - 1
  /\ pack_pipe \in [1 .. Latency[sample_width] -> 0 .. NoWord]
  /\ nr_pipe \in [1 .. 7 -> 0 .. MaxSmpls]
  /\ pk_state \in {"idle", "s0", "s1", "s2"}
  /\ pct_data_wr_cnt \in 0 .. PctSize - 3 /\ pct_end_cnt \in 0 .. 255
  /\ reg_0 \in Contents /\ reg_1 \in Contents /\ reg_2 \in Contents
  /\ pct_wrreq \in BOOLEAN /\ wr_reg \in BOOLEAN /\ wrdata_reg \in Contents
  /\ wrusedw \in 0 .. BuffWords
  /\ pct \in Seq(Contents) /\ Len(pct) < PctSize

Init ==
  /\ sample_width \in Widths
  /\ smpl_used = 0 /\ smpl_cnt = 0 /\ smpl_used_reg = 0
  /\ smpl_buff_rdy = FALSE /\ pct_buff_rdy = FALSE /\ pct_buff_wr = FALSE
  /\ rd_state = "idle" /\ smpl_rd_cnt = 0 /\ smpl_rd_done = FALSE
  /\ d2p_done = FALSE /\ data_in_valid = FALSE /\ pack_cnt = 0
  /\ pack_pipe = [i \in 1 .. Latency[sample_width] |-> NoWord]
  /\ nr_pipe = [i \in 1 .. 7 |-> 0]
  /\ pk_state = "idle" /\ pct_data_wr_cnt = 0 /\ pct_end_cnt = 0
  /\ reg_0 = Zero /\ reg_1 = Zero /\ reg_2 = Zero
  /\ pct_wrreq = FALSE /\ wr_reg = FALSE /\ wrdata_reg = Zero
  /\ wrusedw = 0 /\ pct = <<>>

-----------------------------------------------------------------------------
(* data2packets_fsm: when and how long to read samples.                    *)

RdIdle == /\ rd_state = "idle"
          /\ rd_state' = IF smpl_buff_rdy THEN "check_pct_buff" ELSE "idle"

\* Mutant: samples are read only when there is room for their packet.
RdCheckPctBuffWaits ==
  /\ rd_state = "check_pct_buff"
  /\ rd_state' = IF pct_buff_rdy THEN "rd_smpl_buff" ELSE "check_pct_buff"

RdCheckPctBuff == rd_state = "check_pct_buff" /\ rd_state' = "rd_smpl_buff"

RdSmplBuff ==
  /\ rd_state = "rd_smpl_buff"
  /\ rd_state' = IF smpl_rd_done THEN "wait_data2packets_done"
                                 ELSE "rd_smpl_buff"

RdWaitDone ==
  /\ rd_state = "wait_data2packets_done"
  /\ rd_state' = IF d2p_done THEN "idle" ELSE "wait_data2packets_done"

RdFsm == RdIdle \/ RdCheckPctBuff \/ RdSmplBuff \/ RdWaitDone

RdReq == rd_state = "rd_smpl_buff"

\* Mutant: room for the packet is looked at all through the burst.
RdCountersUnlatched ==
  /\ smpl_rd_cnt'  = IF RdReq THEN smpl_rd_cnt + 1 ELSE 0
  /\ smpl_rd_done' = (smpl_rd_cnt >= RdSize - 2)
  /\ pct_buff_wr'  = pct_buff_rdy

RdCounters ==
  /\ smpl_rd_cnt'  = IF RdReq THEN smpl_rd_cnt + 1 ELSE 0
  /\ smpl_rd_done' = (smpl_rd_cnt >= RdSize - 2)
  /\ pct_buff_wr'  = IF rd_state = "check_pct_buff" THEN pct_buff_rdy
                                                    ELSE pct_buff_wr

\* Mutant: room for one word counts as room for a packet.
LevelsNoMargin ==
  /\ smpl_used_reg' = smpl_used
  /\ smpl_buff_rdy' = (smpl_used_reg > RdSize)
  /\ pct_buff_rdy'  = (wrusedw < BuffWords)
  /\ d2p_done'      = (pk_state = "idle")

Levels ==
  /\ smpl_used_reg' = smpl_used
  /\ smpl_buff_rdy' = (smpl_used_reg > RdSize)
  /\ pct_buff_rdy'  = (wrusedw < BuffWords - PctSize)
  /\ d2p_done'      = (pk_state = "idle")

\* The sample FIFO, written and read on the same clock.
Received == smpl_cnt + smpl_used

SmplFifo ==
  \E new \in {0, 1} :
    /\ Received + new <= MaxSmpls
    /\ smpl_used' = smpl_used + new - (IF RdReq /\ smpl_used > 0 THEN 1 ELSE 0)
    /\ smpl_cnt' = IF RdReq /\ smpl_used > 0 THEN smpl_cnt + 1 ELSE smpl_cnt

\* Mutant: two registers of the delay chain are missing.
SampleNrShort ==
  nr_pipe' = [i \in 1 .. 7 |-> IF i <= 3 THEN smpl_cnt ELSE nr_pipe[i - 1]]

SampleNr ==
  nr_pipe' = [i \in 1 .. 7 |-> IF i = 1 THEN smpl_cnt ELSE nr_pipe[i - 1]]

-----------------------------------------------------------------------------
(* bit_pack: the first sample of a group is kept, each later one completes *)
(* a word; 16-bit samples pass as they are.                                *)

NewWord == IF data_in_valid /\ (Takes[sample_width] = 1 \/ pack_cnt > 0)
             THEN smpl_cnt - 1 ELSE NoWord

BitPack ==
  /\ data_in_valid' = RdReq
  /\ pack_cnt' = IF data_in_valid THEN (pack_cnt + 1) % Takes[sample_width]
                                  ELSE pack_cnt
  /\ pack_pipe' = [i \in 1 .. Latency[sample_width] |->
                     IF i = 1 THEN NewWord ELSE pack_pipe[i - 1]]

PackOut  == pack_pipe[Latency[sample_width]]
PctDataWrReq == PackOut # NoWord

-----------------------------------------------------------------------------
(* data2packets: put the two header words in front of the payload.         *)

PkIdle == /\ pk_state = "idle"
          /\ pk_state' = IF PctDataWrReq THEN "s0" ELSE "idle"

PkS0 == /\ pk_state = "s0"
        /\ pk_state' = IF pct_data_wr_cnt = PctSize - 4 /\ PctDataWrReq
                         THEN "s1" ELSE "s0"

PkS1 == /\ pk_state = "s1"
        /\ pk_state' = IF PctDataWrReq THEN "s2" ELSE "s1"

PkS2 == /\ pk_state = "s2"
        /\ pk_state' = IF pct_end_cnt = 0 THEN "idle" ELSE "s2"

PkFsm == PkIdle \/ PkS0 \/ PkS1 \/ PkS2

PkCounters ==
  /\ pct_data_wr_cnt' = CASE pk_state = "s1" -> 0
                          [] pk_state # "s1" /\ PctDataWrReq -> pct_data_wr_cnt + 1
                          [] OTHER -> pct_data_wr_cnt
  /\ pct_end_cnt' = IF pk_state = "s2" THEN (pct_end_cnt + 255) % 256 ELSE 1

HeaderLoad == pk_state = "idle" /\ PctDataWrReq
Shift      == pk_state = "s2" \/ PctDataWrReq

PkRegs ==
  /\ reg_0' = CASE HeaderLoad -> Hdr0
                [] ~HeaderLoad /\ Shift -> reg_1
                [] OTHER -> reg_0
  /\ reg_1' = CASE HeaderLoad -> Hdr1(nr_pipe[7])
                [] ~HeaderLoad /\ Shift -> reg_2
                [] OTHER -> reg_1
  /\ reg_2' = IF PctDataWrReq THEN Data(PackOut) ELSE reg_2
  /\ pct_wrreq' = Shift

\* The output registers, and the host FIFO behind them.
Output ==
  /\ wrdata_reg' = reg_0
  /\ wr_reg' = (pct_wrreq /\ pct_buff_wr)
  /\ wrusedw' = IF wr_reg THEN wrusedw + 1 ELSE wrusedw
  /\ pct' = CASE wr_reg /\ Len(pct) = PctSize - 1 -> <<>>
              [] wr_reg /\ Len(pct) # PctSize - 1 -> Append(pct, wrdata_reg)
              [] OTHER -> pct

Tick ==
  /\ RdFsm /\ RdCounters /\ Levels /\ SmplFifo /\ SampleNr
  /\ BitPack /\ PkFsm /\ PkCounters /\ PkRegs /\ Output
  /\ UNCHANGED sample_width

\* The host reads, and the write side learns of it.
HostReads ==
  /\ wrusedw > 0
  /\ wrusedw' \in 0 .. wrusedw - 1
  /\ UNCHANGED <<sample_width, smpl_used, smpl_cnt, smpl_used_reg,
                 smpl_buff_rdy, pct_buff_rdy, pct_buff_wr, rd_state,
                 smpl_rd_cnt, smpl_rd_done, d2p_done, data_in_valid, pack_cnt,
                 pack_pipe, nr_pipe, pk_state, pct_data_wr_cnt, pct_end_cnt,
                 reg_0, reg_1, reg_2, pct_wrreq, wr_reg, wrdata_reg, pct>>

Next == Tick \/ HostReads

\* rx_clk runs.  Nothing is assumed of the host.
Spec == Init /\ [][Next]_vars /\ WF_vars(Tick)

-----------------------------------------------------------------------------
\* The word of a packet that the j-th payload word of a packet starting with
\* sample n is.
PayloadWord(n, j) ==
  LET t == Takes[sample_width]  g == Gives[sample_width]
  IN Data(n + ((j - 1) \div g) * t + ((j - 1) % g) + (IF t = 1 THEN 0 ELSE 1))

FirstSample(word) == IF Takes[sample_width] = 1 THEN word[2] ELSE word[2] - 1

\* The words the host gets, cut into pieces of PctSize, are packets: two
\* header words and then the samples of one burst, all of them and in order.
\* A packet that found no room is missing as a whole.
PacketIntact ==
  /\ wr_reg /\ Len(pct) = 0 => wrdata_reg = Hdr0
  /\ wr_reg /\ Len(pct) = 1 => wrdata_reg[1] = "hdr_1"
  /\ wr_reg /\ Len(pct) = 2 => wrdata_reg[1] = "data"
  /\ wr_reg /\ Len(pct) > 2 =>
       wrdata_reg = PayloadWord(FirstSample(pct[3]), Len(pct) - 1)

\* The decision to write a packet, taken before its samples are read and on a
\* registered fill level, never overflows the host FIFO; all other variables
\* stay in their types.
NoOverflow == TypeOK /\ (wr_reg => wrusedw < BuffWords)

\* The sample number in the header is the number of the first sample of the
\* packet: rx_path_top.vhd delays smpl_cnt by six cycles to make it so.
SampleNumber ==
  Len(pct) > 2 => pct[2] = Hdr1(FirstSample(pct[3]))

\* The same for the widths whose packer is fast enough for that delay.
SampleNumber12or16 == sample_width # 14 => SampleNumber

\* Samples are taken out of the sample FIFO whatever the host does: a host
\* that stops reading costs packets, it does not stop the stream.
NeverStalls == smpl_used > RdSize ~> smpl_used <= RdSize
=============================================================================
