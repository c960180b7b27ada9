----------------------------- MODULE P2dReader -----------------------------
(***************************************************************************)
(* p2d_rd.vhd: visits the buffers round-robin, waits until the packet in   *)
(* the current buffer is due, reads it out to the sample FIFO, or clears   *)
(* the buffer when its sample number has been missed.                      *)
(*                                                                         *)
(* ReaderStep is one rising edge of the clock.                             *)
(***************************************************************************)
EXTENDS TxSignals

VARIABLES
  r_state,                  \* current_state
  crnt_buff_cnt,            \* the buffer being read
  crnt_buff_rdy,            \* buff_rdy of that buffer, registered
  crnt_buff_pct_synch_dis,  \* bit 4 of that buffer's header, registered
  crnt_buff_cmp,            \* crnt_buff_pct_smpl_nr_equal / _less, registered
  r_rd_cnt,                 \* rd_cnt: words read of this packet
  hdr_array,                \* pct_hdr_0_array/pct_hdr_1_array
  cmp_pipe                  \* the comparator pipeline of every buffer

readerVars == <<r_state, crnt_buff_cnt, crnt_buff_rdy,
                crnt_buff_pct_synch_dis, crnt_buff_cmp, r_rd_cnt, hdr_array,
                cmp_pipe>>

ReaderStates == {"idle", "switch_next_buff", "check_next_buf", "rd_buff",
                 "rd_hold", "clr_buff"}

TypeOKReader ==
  /\ r_state \in ReaderStates
  /\ crnt_buff_cnt \in Buffers
  /\ crnt_buff_rdy \in BOOLEAN
  /\ crnt_buff_pct_synch_dis \in BOOLEAN
  /\ crnt_buff_cmp \in Phases
  /\ r_rd_cnt \in 0 .. RdWords
  /\ hdr_array \in [Buffers -> Pkts \cup {NoPkt}]
  /\ cmp_pipe \in [Buffers -> [1 .. 3 -> Phases]]

\* Reset clears the registers; the comparator pipelines start out comparing
\* sample number 0 with sample number 0.
InitReader ==
  /\ r_state = "idle"
  /\ crnt_buff_cnt = 0
  /\ crnt_buff_rdy = FALSE
  /\ crnt_buff_pct_synch_dis = FALSE
  /\ crnt_buff_cmp = "early"
  /\ r_rd_cnt = 0
  /\ hdr_array = [b \in Buffers |-> NoPkt]
  /\ cmp_pipe = [b \in Buffers |-> [i \in 1 .. 3 |-> "due"]]

-----------------------------------------------------------------------------
GotoR(s) == r_state' = s

Unsynchronised == pct_sync_dis \/ crnt_buff_pct_synch_dis

\* Mutant: a packet is read as soon as it is not late.
ReadNowNotLate ==
  crnt_buff_rdy /\ (Unsynchronised \/ crnt_buff_cmp # "late")

ReadNow  == crnt_buff_rdy /\ (Unsynchronised \/ crnt_buff_cmp = "due")
ClearNow == crnt_buff_rdy /\ ~Unsynchronised /\ crnt_buff_cmp = "late"

IdleR ==
  /\ r_state = "idle"
  /\ \/ ReadNow /\ GotoR("rd_buff")
     \/ ClearNow /\ GotoR("clr_buff")
     \/ ~ReadNow /\ ~ClearNow /\ GotoR("idle")

ClrBuff == r_state = "clr_buff" /\ GotoR("switch_next_buff")

\* Mutant: the last word of the packet is left in the buffer.
RdBuffTooShort ==
  /\ r_state = "rd_buff"
  /\ \/ almost_full /\ GotoR("rd_hold")
     \/ ~almost_full /\ r_rd_cnt + 2 < RdWords /\ GotoR("rd_buff")
     \/ ~almost_full /\ r_rd_cnt + 2 >= RdWords /\ GotoR("switch_next_buff")

RdBuff ==
  /\ r_state = "rd_buff"
  /\ \/ almost_full /\ GotoR("rd_hold")
     \/ ~almost_full /\ r_rd_cnt < RdWords - 1 /\ GotoR("rd_buff")
     \/ ~almost_full /\ r_rd_cnt >= RdWords - 1 /\ GotoR("switch_next_buff")

\* Mutant: the hold state is left in the wrong direction.
RdHoldStays ==
  /\ r_state = "rd_hold"
  /\ GotoR(IF almost_full THEN "rd_buff" ELSE "rd_hold")

RdHold ==
  /\ r_state = "rd_hold"
  /\ GotoR(IF almost_full THEN "rd_hold" ELSE "rd_buff")

SwitchNextBuffR == r_state = "switch_next_buff" /\ GotoR("check_next_buf")

CheckNextBufR == r_state = "check_next_buf" /\ GotoR("idle")

ReaderFsm == \/ IdleR \/ ClrBuff \/ RdBuff \/ RdHold
             \/ SwitchNextBuffR \/ CheckNextBufR

-----------------------------------------------------------------------------
\* rd_req_int, the read request to the current buffer.
RdReq == r_state = "rd_buff" /\ ~almost_full

\* pct_buff_rdreq and pct_buff_clr_n are combinational.
BuffRdReq(b) == RdReq /\ crnt_buff_cnt = b
BuffClr(b)   == r_state = "clr_buff" /\ crnt_buff_cnt = b

CrntBuffSel ==
  /\ crnt_buff_cnt' = IF r_state = "switch_next_buff"
                        THEN NextBuffer(crnt_buff_cnt) ELSE crnt_buff_cnt
  /\ crnt_buff_rdy' = buff_rdy[crnt_buff_cnt]
  /\ crnt_buff_pct_synch_dis' = (hdr_array[crnt_buff_cnt] \in nosync)
  /\ crnt_buff_cmp' = cmp_pipe[crnt_buff_cnt][3]

RdCnt == r_rd_cnt' = CASE r_state = "idle" -> 0
                       [] r_state # "idle" /\ RdReq -> r_rd_cnt + 1
                       [] OTHER -> r_rd_cnt

HdrCapture ==
  hdr_array' = [b \in Buffers |-> IF pct_hdr_valid = b THEN pct_hdr
                                                       ELSE hdr_array[b]]

Comparators ==
  cmp_pipe' = [b \in Buffers |->
                [i \in 1 .. 3 |-> IF i = 1 THEN Compare(hdr_array[b])
                                           ELSE cmp_pipe[b][i - 1]]]

ReaderStep == ReaderFsm /\ CrntBuffSel /\ RdCnt /\ HdrCapture /\ Comparators
=============================================================================
