---------------------------- MODULE TxInvariant ----------------------------
(***************************************************************************)
(* The inductive invariant behind the type invariant and the framing of    *)
(* TxPackets.  It ties the place of p2d_wr_fsm in its packet to its read   *)
(* counter, the counter to the words in flight between the input FIFO and  *)
(* the output registers, and those to what is left in the FIFO.            *)
(***************************************************************************)
EXTENDS TxPackets

One(b) == IF b THEN 1 ELSE 0

\* Words of this packet that have left the input FIFO.
Taken == wrreq_cnt + One(in_pct_data_valid)

\* A word asked for in one cycle leaves the FIFO in the next and is counted
\* in the one after: no word is asked for twice or forgotten.
InFlight == w_rd_cnt = Taken + One(in_pct_rdreq)

\* What the read counter is in each state of the FSM.
CountOfState ==
  /\ w_state = "rd_hdr" => w_rd_cnt = 0
  /\ w_state \in {"wait_cmpr_pipe", "check_smpl_nr", "clr_fifo",
                  "switch_next_buff"} => w_rd_cnt = 1
  /\ w_state = "rd_pct" => w_rd_cnt < PctWords
  /\ w_state \in {"rd_pct", "wait_wr_end", "check_next_buf",
                  "switch_current_buff"} => Taken >= 1
  /\ w_state \in {"wait_wr_end", "check_next_buf",
                  "switch_current_buff"} => w_rd_cnt = PctWords

\* Where a word can be in flight at all.  The wait for the comparator is long
\* enough for the header to arrive.
FlightOfState ==
  /\ w_state \in {"idle", "rd_hdr", "check_smpl_nr", "clr_fifo",
                  "switch_next_buff", "switch_current_buff"}
       => ~in_pct_rdreq /\ ~in_pct_data_valid
  /\ w_state = "check_next_buf" => ~in_pct_rdreq
  /\ w_state = "wait_cmpr_pipe" =>
       /\ pipe_cnt < 5
       /\ in_pct_rdreq => pipe_cnt = 0
       /\ in_pct_data_valid => pipe_cnt = 1

\* The input FIFO holds packet sent without its first n words.
Rest(n) ==
  /\ Len(fifo) = PctWords - n
  /\ \A i \in 1 .. Len(fifo) : fifo[i] = <<sent, n + i - 1>>

\* The input FIFO holds the rest of the packet being read, and may hold the
\* next packet, whole, only when nothing of this one is left.
FifoOfState ==
  /\ w_state = "idle" => Rest(PctWords) \/ Rest(0)
  /\ w_state # "idle" => Rest(Taken) \/ (Taken = PctWords /\ Rest(0))

\* in_pct_rdy is a cycle old; it is misleading only while the header is being
\* taken, when nobody looks at it.
ReadyIsTrue ==
  in_pct_rdy => \/ Len(fifo) = PctWords
                \/ (w_state = "wait_cmpr_pipe" /\ pipe_cnt < 2)

\* The word that arrives, and the header register, belong to the packet being
\* read.
WordArriving ==
  /\ in_pct_data_valid =>
       /\ in_pct_q[1] \in Pkts /\ in_pct_q[2] = wrreq_cnt
       /\ in_pct_q[1] = IF wrreq_cnt = 0 THEN sent ELSE pct_hdr
  /\ w_state # "idle" /\ wrreq_cnt >= 1 /\ Taken < PctWords => pct_hdr = sent

\* What goes into a buffer is payload.
PayloadOnly ==
  pct_data_wrreq \in Buffers =>
    pct_data[1] \in Pkts /\ pct_data[2] \in 1 .. PctWords - 1

\* The read FSM asks for at most a packet.
ReadCount == r_state \in {"rd_buff", "rd_hold"} => r_rd_cnt < RdWords

WriterInv == /\ InFlight /\ CountOfState /\ FlightOfState /\ FifoOfState
             /\ ReadyIsTrue /\ WordArriving

IInv == TypeOK /\ WriterInv /\ PayloadOnly /\ ReadCount
=============================================================================
