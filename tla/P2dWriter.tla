----------------------------- MODULE P2dWriter -----------------------------
(***************************************************************************)
(* p2d_wr_fsm.vhd: takes packets out of the input FIFO, drops a packet     *)
(* whose sample number has already passed, and writes the payload of every *)
(* other packet to the next free buffer.                                   *)
(*                                                                         *)
(* WriterStep is one rising edge of the clock: every register of the       *)
(* entity takes its next value at once, each VHDL process being one        *)
(* conjunct.                                                               *)
(***************************************************************************)
EXTENDS TxSignals

VARIABLES
  w_state,             \* current_state
  current_buff_cnt,    \* buffer being written
  next_buff_cnt,       \* buffer to be written next
  current_buff_rdy,    \* registered wrempty of the current buffer
  next_buff_rdy,       \* registered wrempty of the next buffer
  w_rd_cnt,            \* rd_cnt: words requested of this packet
  pipe_cnt,            \* cycles waited for the comparator
  in_pct_rdreq,        \* read request to the input FIFO
  in_pct_data_valid,   \* in_pct_q holds the word asked for a cycle ago
  wrreq_cnt,           \* pct_data_wrreq_cnt: words received of this packet
  in_pct_reset_n_req,  \* low for a cycle: clear the input FIFO
  less_pipe            \* the three stages of lpm_compare

writerVars == <<w_state, current_buff_cnt, next_buff_cnt, current_buff_rdy,
                next_buff_rdy, w_rd_cnt, pipe_cnt, in_pct_rdreq,
                in_pct_data_valid, wrreq_cnt, in_pct_reset_n_req, less_pipe>>

WriterStates ==
  {"idle", "rd_hdr", "wait_cmpr_pipe", "check_smpl_nr", "clr_fifo",
   "switch_next_buff", "rd_pct", "wait_wr_end", "check_next_buf",
   "switch_current_buff"}

TypeOKWriter ==
  /\ w_state \in WriterStates
  /\ current_buff_cnt \in Buffers
  /\ next_buff_cnt \in Buffers
  /\ current_buff_rdy \in BOOLEAN
  /\ next_buff_rdy \in BOOLEAN
  /\ w_rd_cnt \in 0 .. PctWords
  /\ pipe_cnt \in 0 .. 5
  /\ in_pct_rdreq \in BOOLEAN
  /\ in_pct_data_valid \in BOOLEAN
  /\ wrreq_cnt \in 0 .. PctWords
  /\ in_pct_reset_n_req \in BOOLEAN
  /\ less_pipe \in [1 .. 3 -> BOOLEAN]

InitWriter ==
  /\ w_state = "idle"
  /\ current_buff_cnt = 0 /\ next_buff_cnt = 0
  /\ current_buff_rdy = FALSE /\ next_buff_rdy = FALSE
  /\ w_rd_cnt = 0 /\ pipe_cnt = 0
  /\ in_pct_rdreq = FALSE /\ in_pct_data_valid = FALSE
  /\ wrreq_cnt = 0
  /\ in_pct_reset_n_req = TRUE
  /\ less_pipe = [i \in 1 .. 3 |-> FALSE]
  /\ pct_hdr = NoPkt /\ pct_hdr_valid = NoBuffer
  /\ pct_data = <<NoPkt, 0>> /\ pct_data_wrreq = NoBuffer

-----------------------------------------------------------------------------
(* The state machine, one action per state.                                *)

Goto(s) == w_state' = s

Idle == /\ w_state = "idle"
        /\ Goto(IF in_pct_rdy THEN "rd_hdr" ELSE "idle")

RdHdr == w_state = "rd_hdr" /\ Goto("wait_cmpr_pipe")

\* Mutant: one cycle is thought to be enough for the comparator.
WaitCmprPipeShort ==
  /\ w_state = "wait_cmpr_pipe"
  /\ Goto(IF pipe_cnt > 0 THEN "check_smpl_nr" ELSE "wait_cmpr_pipe")

WaitCmprPipe ==
  /\ w_state = "wait_cmpr_pipe"
  /\ Goto(IF pipe_cnt > 3 THEN "check_smpl_nr" ELSE "wait_cmpr_pipe")

\* The header is late and neither its own bit nor the configuration turns
\* synchronisation off.
MissedSample ==
  /\ less_pipe[3]
  /\ pct_hdr \notin nosync
  /\ ~pct_sync_dis

CheckSmplNr ==
  /\ w_state = "check_smpl_nr"
  /\ \/ MissedSample /\ Goto("clr_fifo")
     \/ ~MissedSample /\ current_buff_rdy /\ Goto("switch_next_buff")
     \/ ~MissedSample /\ ~current_buff_rdy /\ Goto("check_smpl_nr")

ClrFifo == w_state = "clr_fifo" /\ Goto("idle")

SwitchNextBuff == w_state = "switch_next_buff" /\ Goto("rd_pct")

\* Mutant: the read counter is compared with the wrong end.
RdPctTooFar ==
  /\ w_state = "rd_pct"
  /\ Goto(IF w_rd_cnt < PctWords THEN "rd_pct" ELSE "wait_wr_end")

RdPct ==
  /\ w_state = "rd_pct"
  /\ Goto(IF w_rd_cnt < PctWords - 1 THEN "rd_pct" ELSE "wait_wr_end")

WaitWrEnd ==
  /\ w_state = "wait_wr_end"
  /\ Goto(IF in_pct_data_valid THEN "wait_wr_end" ELSE "check_next_buf")

\* Mutant: the next buffer is taken without waiting until it is empty.
CheckNextBufUnasked ==
  w_state = "check_next_buf" /\ Goto("switch_current_buff")

CheckNextBuf ==
  /\ w_state = "check_next_buf"
  /\ Goto(IF next_buff_rdy THEN "switch_current_buff" ELSE "check_next_buf")

SwitchCurrentBuff == w_state = "switch_current_buff" /\ Goto("idle")

WriterFsm ==
  \/ Idle \/ RdHdr \/ WaitCmprPipe \/ CheckSmplNr \/ ClrFifo
  \/ SwitchNextBuff \/ RdPct \/ WaitWrEnd \/ CheckNextBuf \/ SwitchCurrentBuff

-----------------------------------------------------------------------------
(* The registered processes.                                               *)

NextBuffSel ==
  /\ next_buff_cnt' = IF w_state = "switch_next_buff"
                        THEN NextBuffer(next_buff_cnt) ELSE next_buff_cnt
  /\ next_buff_rdy' = wrempty[next_buff_cnt]

CurrentBuffSel ==
  /\ current_buff_cnt' = IF w_state = "check_next_buf"
                           THEN next_buff_cnt ELSE current_buff_cnt
  /\ current_buff_rdy' = wrempty[current_buff_cnt]

ReadCounters ==
  /\ w_rd_cnt' = CASE w_state \in {"rd_pct", "rd_hdr"} -> w_rd_cnt + 1
                   [] w_state = "idle" -> 0
                   [] OTHER -> w_rd_cnt
  /\ pipe_cnt' = IF w_state = "wait_cmpr_pipe" THEN pipe_cnt + 1 ELSE 0

\* Mutant: the word counter is not reset between packets.
WriteCounterNoReset ==
  /\ in_pct_data_valid' = in_pct_rdreq
  /\ wrreq_cnt' = IF in_pct_data_valid THEN wrreq_cnt + 1 ELSE wrreq_cnt

WriteCounter ==
  /\ in_pct_data_valid' = in_pct_rdreq
  /\ wrreq_cnt' = CASE in_pct_data_valid -> wrreq_cnt + 1
                    [] ~in_pct_data_valid /\ w_state = "idle" -> 0
                    [] OTHER -> wrreq_cnt

HeaderArrives  == in_pct_data_valid /\ wrreq_cnt = 0
PayloadArrives == in_pct_data_valid /\ wrreq_cnt > 0

OutReg ==
  /\ in_pct_rdreq' = (w_state \in {"rd_pct", "rd_hdr"})
  /\ in_pct_reset_n_req' = (w_state # "clr_fifo")
  /\ pct_hdr' = IF HeaderArrives THEN in_pct_q[1] ELSE pct_hdr
  /\ pct_hdr_valid' = IF HeaderArrives THEN current_buff_cnt ELSE NoBuffer
  /\ pct_data' = IF PayloadArrives THEN in_pct_q ELSE pct_data
  /\ pct_data_wrreq' = IF PayloadArrives THEN current_buff_cnt ELSE NoBuffer

\* lpm_compare with lpm_pipeline => 3: the verdict on pct_hdr comes out three
\* cycles later.
ComparePipe ==
  less_pipe' = [i \in 1 .. 3 |-> IF i = 1 THEN Compare(pct_hdr) = "late"
                                          ELSE less_pipe[i - 1]]

WriterStep ==
  /\ WriterFsm
  /\ NextBuffSel /\ CurrentBuffSel
  /\ ReadCounters /\ WriteCounter
  /\ OutReg /\ ComparePipe
=============================================================================
