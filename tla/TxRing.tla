------------------------------- MODULE TxRing -------------------------------
(***************************************************************************)
(* The inductive invariant behind the safety of the packet buffers, with   *)
(* 12 and 16 bits: the full buffers are a section of the ring that begins  *)
(* at the buffer of the reader and ends before next_buff_cnt, their        *)
(* packets follow one another up to those that were thrown away, and the   *)
(* words on their way to the sample FIFO come before them.  It adds to     *)
(* TxInvariant what p2d_wr_fsm, p2d_rd and the comparators know of each    *)
(* other.                                                                  *)
(***************************************************************************)
EXTENDS TxInvariant

\* 12 and 16 bits: half_pct_size_only_data is all of the payload.  A packet
\* (256 words) is also longer than the latency of the input FIFO, which
\* wait_wr_end relies on.
WholePackets == RdyWords = RdWords /\ PctWords > 2

\* p2d_wr_fsm has a buffer for a packet to come, is filling it, or has filled
\* it and waits for the next.
Filling == w_state \in {"rd_pct", "wait_wr_end"}
Filled  == w_state = "check_next_buf"
Ready   == ~Filling /\ ~Filled

BeingFilled(b) == Filling /\ b = current_buff_cnt
BeingRead(b)   == r_state \in {"rd_buff", "rd_hold"} /\ b = crnt_buff_cnt

\* The buffers that hold a packet, and those that hold a whole one.
Occupied == {b \in Buffers : buf[b] # <<>> \/ BeingFilled(b)}
Full(b)  == Len(buf[b]) = RdWords /\ ~BeingFilled(b)

\* The buffer whose packet leaves next.
Oldest == IF r_state \in {"clr_buff", "switch_next_buff"}
            THEN NextBuffer(crnt_buff_cnt) ELSE crnt_buff_cnt

\* The last packet that got a buffer or lost its chance of one.
Passed == IF fifo = <<>> \/ (Filling /\ Taken < PctWords) THEN sent ELSE sent - 1

-----------------------------------------------------------------------------
(* The ring.  Its parameters are the occupied buffers O, their packets h,  *)
(* the next buffer nx, the oldest one t, the packets thrown away dr, the   *)
(* last packet m and the last one that was sent, v.                        *)

\* q comes after p, and the packets between them were thrown away.
Gap(p, q, dr) == p < q /\ p + 1 .. q - 1 \subseteq dr

Ring(O, h, nx, t, dr, m) ==
  /\ \A b \in O : h[b] \in (1 .. m) \ dr
  /\ \A a, b \in O : h[a] = h[b] => a = b
  /\ \A b \in O : IF NextBuffer(b) = nx
                    THEN h[b] + 1 .. m \subseteq dr
                    ELSE NextBuffer(b) \in O /\ Gap(h[b], h[NextBuffer(b)], dr)
  /\ O = {} => t = nx
  /\ O # {} => t \in O /\ \A b \in O : h[t] <= h[b]

\* What is in the ring comes after v.
After(O, h, t, dr, m, v) ==
  IF O = {} THEN v <= m /\ v + 1 .. m \subseteq dr ELSE Gap(v, h[t], dr)

-----------------------------------------------------------------------------
(* The writer.                                                             *)

\* Which buffer the writer has, and that the next one is free when it takes it.
WriterPlace ==
  /\ Ready => /\ current_buff_cnt = next_buff_cnt /\ wrempty[current_buff_cnt]
              /\ pct_data_wrreq = NoBuffer
  /\ Filling => /\ next_buff_cnt = NextBuffer(current_buff_cnt)
                /\ pct_data_wrreq \in {current_buff_cnt, NoBuffer}
                /\ wrreq_cnt >= 1
                /\ pct_hdr = Passed /\ hdr_array[current_buff_cnt] = Passed
                /\ pct_data_wrreq = current_buff_cnt =>
                     wrreq_cnt >= 2 /\ pct_data = <<Passed, wrreq_cnt - 1>>
                /\ pct_data_wrreq = NoBuffer => wrreq_cnt < PctWords
  /\ Filled => ~in_pct_data_valid /\ pct_data_wrreq = NoBuffer
  /\ w_state = "rd_pct" /\ w_rd_cnt > 1 => in_pct_rdreq
  /\ w_state = "wait_wr_end" /\ in_pct_rdreq => in_pct_data_valid
  /\ w_state \in {"wait_wr_end", "check_next_buf"} /\ next_buff_rdy =>
       wrempty[next_buff_cnt]
  /\ \A b \in Buffers : wrempty[b] => buf[b] = <<>>

\* Edges since the header was asked for; the comparators take what is left of
\* wait_cmpr_pipe and two states more.
HeaderAge ==
  CASE w_state = "wait_cmpr_pipe"   -> pipe_cnt
    [] w_state = "check_smpl_nr"    -> 5
    [] w_state = "switch_next_buff" -> 6
    [] OTHER                        -> 0

\* A verdict of a comparator on packet p: it may be old, but time only goes on.
Verdict(c, p) ==
  /\ c = "due"  => phase[p] # "early"
  /\ c = "late" => phase[p] = "late"

\* The header of the packet on its way through the registers.
HeaderPlace ==
  /\ w_state = "wait_cmpr_pipe" =>
       /\ pipe_cnt = 0 => in_pct_rdreq
       /\ pipe_cnt = 1 => in_pct_data_valid
       /\ pipe_cnt = 2 => pct_hdr_valid = current_buff_cnt
  /\ pct_hdr_valid # NoBuffer => w_state = "wait_cmpr_pipe" /\ pipe_cnt = 2
  /\ HeaderAge >= 3 => hdr_array[current_buff_cnt] = sent
  /\ \A i \in 1 .. 3 :
       /\ HeaderAge >= i + 2 /\ less_pipe[i] => phase[sent] = "late"
       /\ HeaderAge >= i + 3 => Verdict(cmp_pipe[current_buff_cnt][i], sent)

-----------------------------------------------------------------------------
(* The buffers and the reader.                                             *)

\* 64-bit words the writer has put into the buffer it fills.
Stored == wrreq_cnt - 1 - One(pct_data_wrreq = current_buff_cnt)

Contents ==
  \A b \in Buffers :
    IF BeingFilled(b)
      THEN /\ Len(buf[b]) = Stored * RdPerWr
           /\ \A i \in 1 .. Len(buf[b]) : buf[b][i] = <<hdr_array[b], i>>
      ELSE buf[b] # <<>> =>
             LET gone == IF BeingRead(b) THEN r_rd_cnt ELSE 0
             IN  /\ Len(buf[b]) = RdWords - gone
                 /\ \A i \in 1 .. Len(buf[b]) : buf[b][i] = <<hdr_array[b], gone + i>>

\* The verdicts on the packet of a buffer have settled.
Verdicts ==
  \A b \in Occupied : \A i \in 1 .. 3 : Verdict(cmp_pipe[b][i], hdr_array[b])

\* A buffer that looks full is.
LevelsTrue ==
  /\ \A b \in Buffers : level[b] # "less" => level[b] = "equal" /\ Full(b)
  /\ \A b \in Buffers : buff_rdy[b] =>
       Full(b) \/ (b = crnt_buff_cnt /\ r_state \notin {"idle", "check_next_buf"})
  /\ r_state = "idle" /\ crnt_buff_rdy =>
       /\ Full(crnt_buff_cnt)
       /\ Verdict(crnt_buff_cmp, hdr_array[crnt_buff_cnt])
       /\ crnt_buff_pct_synch_dis = (hdr_array[crnt_buff_cnt] \in nosync)

\* What the reader has, it has alone; what it leaves, the writer does not have
\* before the reader has gone.
ReaderPlace ==
  /\ r_state \in {"rd_buff", "rd_hold"} =>
       buf[crnt_buff_cnt] # <<>> /\ ~BeingFilled(crnt_buff_cnt)
  /\ r_state \in {"clr_buff", "switch_next_buff"} =>
       buf[crnt_buff_cnt] = <<>> /\ (crnt_buff_cnt = current_buff_cnt => Filled)
  /\ r_state = "clr_buff" /\ Filled /\ crnt_buff_cnt = next_buff_cnt =>
       ~next_buff_rdy

\* What leaves next, and what left last.
BeforeQ  == IF smpl_buff_valid THEN smpl_buff_q ELSE last_out
LastWord == IF smpl_buff_valid_int THEN buf_q[crnt_buff_cnt] ELSE BeforeQ

\* The packet before the ring.
InPacket == r_state \in {"rd_buff", "rd_hold"} /\ r_rd_cnt > 0

Stream ==
  /\ smpl_buff_valid => Follows(last_out, smpl_buff_q)
  /\ smpl_buff_valid_int => /\ Follows(BeforeQ, buf_q[crnt_buff_cnt])
                            /\ r_state \in {"rd_buff", "rd_hold", "switch_next_buff"}
  /\ InPacket => LastWord = <<hdr_array[crnt_buff_cnt], r_rd_cnt>>
  /\ ~InPacket => /\ LastWord[2] = RdWords
                  /\ After(Occupied, hdr_array, Oldest, dropped, Passed, LastWord[1])

\* What was thrown away.
Drops ==
  /\ dropped \subseteq 1 .. sent
  /\ w_state = "clr_fifo" => sent \in dropped
  /\ w_state # "clr_fifo" => dropped \subseteq 1 .. Passed
  /\ DropOnlyLate

RingInv ==
  /\ WriterPlace /\ HeaderPlace
  /\ Ring(Occupied, hdr_array, next_buff_cnt, Oldest, dropped, Passed)
  /\ Contents /\ Verdicts /\ LevelsTrue /\ ReaderPlace
  /\ Stream /\ Drops
=============================================================================
