----------------------------- MODULE TxSignals -----------------------------
(***************************************************************************)
(* The signals and the packet data shared by the two halves of the TX      *)
(* packet path, p2d_wr_fsm (module P2dWriter) and p2d_rd (module           *)
(* P2dReader).  Everything here is in one clock domain: rxtx_top.vhd       *)
(* drives both pct_wrclk and iq_rdclk of tx_path_top with tx_clk.          *)
(*                                                                         *)
(* A packet is a number, in the order in which the host wrote it.  Its     *)
(* header carries a sample number and bit 4, "do not synchronise"; the     *)
(* comparison of the sample number with the running sample counter is all  *)
(* the path ever does with it, so the model keeps the outcome of that      *)
(* comparison (phase) and not the two 64-bit numbers.                      *)
(***************************************************************************)
EXTENDS Naturals, Sequences

CONSTANTS
  NBuff,     \* N_BUFF: packet buffers between writer and reader
  PctWords,  \* PCT_SIZE in 128-bit words of the input FIFO, header included
  RdPerWr,   \* 64-bit words read out of a buffer per 128-bit word written
  RdyWords,  \* 64-bit words that make a buffer ready, from pct_size
  SyncModes, \* values synch_dis of fpgacfg is configured to
  MaxPkts,   \* bound: packets the host sends in one behaviour
  SyncPkts   \* bound: with synchronisation on, later packets have bit 4 set

ASSUME NBuffAssumption    == NBuff \in Nat /\ NBuff > 1
ASSUME PctWordsAssumption == PctWords \in Nat /\ PctWords > 1
ASSUME RdPerWrAssumption  == RdPerWr \in Nat /\ RdPerWr > 0
ASSUME SyncModesAssumption == SyncModes \subseteq BOOLEAN
ASSUME MaxPktsAssumption  == MaxPkts \in Nat /\ SyncPkts \in Nat

Buffers == 0 .. NBuff - 1
Pkts    == 1 .. MaxPkts

NoBuffer == NBuff          \* a one-hot select with no bit set
NoPkt    == 0              \* a header register that is still in reset

\* 64-bit words of payload in one packet: ((PCT_SIZE-PCT_HDR_SIZE)*8)/64.
RdWords == (PctWords - 1) * RdPerWr

\* half_pct_size_only_data, the fill level that marks a buffer as ready: all of
\* the payload with 12 and 16 bits, 126 words of 510 with 14 bits.
ASSUME RdyWordsAssumption == RdyWords \in 1 .. RdWords

\* The fill level of a buffer, as the reader sees it, against RdyWords.
Levels == {"less", "equal", "more"}

\* Word 0 of a packet is its header, words 1 .. PctWords-1 its payload.
Words  == (Pkts \cup {NoPkt}) \X (0 .. PctWords - 1)
Pieces == (Pkts \cup {NoPkt}) \X (0 .. RdWords)

\* The comparison pct_hdr_1 ? sample_nr of a packet that is still to come, is
\* at its sample number, or has missed it.
Phases == {"early", "due", "late"}

VARIABLES
  phase,           \* phase[p]: sample number of packet p against the counter
  nosync,          \* packets with header bit 4 (crnt_pct_sync_dis) set
  pct_sync_dis,    \* synchronisation disabled for all packets (fpgacfg)
  in_pct_rdy,      \* a whole packet waits in the input FIFO (registered)
  in_pct_q,        \* registered output of the input FIFO
  wrempty,         \* wrempty[b]: the writer sees buffer b empty
  pct_hdr,         \* pct_hdr_0_reg/pct_hdr_1_reg: packet whose header it is
  pct_hdr_valid,   \* buffer the header belongs to, for one cycle
  pct_data,        \* payload word for the buffers
  pct_data_wrreq,  \* buffer that takes pct_data in this cycle
  buff_rdy,        \* buff_rdy[b]: registered "buffer b holds one packet"
  buf,             \* buf[b]: the 64-bit words in buffer b
  almost_full      \* the sample FIFO behind the reader is almost full

signalVars == <<phase, nosync, pct_sync_dis, in_pct_rdy, in_pct_q, wrempty,
                pct_hdr, pct_hdr_valid, pct_data, pct_data_wrreq, buff_rdy,
                buf, almost_full>>

\* lpm_compare on a header: a header register in reset holds sample number 0,
\* which every running counter has passed.
Compare(p) == IF p = NoPkt THEN "late" ELSE phase[p]

\* The round-robin buffer counters.
NextBuffer(b) == IF b < NBuff - 1 THEN b + 1 ELSE 0

TypeOKSignals ==
  /\ phase \in [Pkts -> Phases]
  /\ nosync \subseteq Pkts
  /\ pct_sync_dis \in BOOLEAN
  /\ in_pct_rdy \in BOOLEAN
  /\ in_pct_q \in Words
  /\ wrempty \in [Buffers -> BOOLEAN]
  /\ pct_hdr \in Pkts \cup {NoPkt}
  /\ pct_hdr_valid \in Buffers \cup {NoBuffer}
  /\ pct_data \in Words
  /\ pct_data_wrreq \in Buffers \cup {NoBuffer}
  /\ buff_rdy \in [Buffers -> BOOLEAN]
  /\ buf \in [Buffers -> Seq(Pkts \X (1 .. RdWords))]
  /\ almost_full \in BOOLEAN
=============================================================================
