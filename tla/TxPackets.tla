----------------------------- MODULE TxPackets -----------------------------
(***************************************************************************)
(* The TX packet path of rxtx_top.vhd between the PCIe input FIFO and the  *)
(* sample FIFO: packets2data.vhd, which composes the write FSM, N_BUFF     *)
(* packet buffers (dual-clock FIFOs) and the read FSM, and raises          *)
(* in_pct_clr_flag when it throws a packet away.                           *)
(*                                                                         *)
(* Tick is one rising edge of tx_clk.  The other actions are what may      *)
(* happen between two edges: the input FIFO completes a packet, a fill     *)
(* level crosses the synchroniser of a buffer, the sample counter reaches  *)
(* or passes the sample number of a packet, the sample FIFO fills up or    *)
(* drains.                                                                 *)
(***************************************************************************)
EXTENDS P2dWriter, P2dReader

VARIABLES
  fifo,                 \* words in the input FIFO (one packet at a time)
  sent,                 \* packets the input FIFO has received so far
  level,                \* rdusedw of buffer b against half_pct_size_only_data
  buf_q,                \* registered output of buffer b
  smpl_buff_valid_int,  \* a word was asked for a cycle ago
  smpl_buff_valid,      \* smpl_buff_q is a word for the sample FIFO
  smpl_buff_q,          \* registered output multiplexer
  pct_data_clr,         \* inst1_pct_data_clr: a buffer was cleared
  in_pct_clr_flag,      \* a packet was thrown away
  last_out,             \* history: the last word that left
  dropped               \* history: the packets thrown away

pathVars == <<fifo, sent, level, buf_q, smpl_buff_valid_int,
              smpl_buff_valid, smpl_buff_q, pct_data_clr, in_pct_clr_flag,
              last_out, dropped>>
vars == <<signalVars, writerVars, readerVars, pathVars>>

TypeOK ==
  /\ TypeOKSignals /\ TypeOKWriter /\ TypeOKReader
  /\ fifo \in Seq(Pkts \X (0 .. PctWords - 1))
  /\ sent \in 0 .. MaxPkts
  /\ level \in [Buffers -> Levels]
  /\ buf_q \in [Buffers -> Pieces]
  /\ smpl_buff_valid_int \in BOOLEAN
  /\ smpl_buff_valid \in BOOLEAN
  /\ smpl_buff_q \in Pieces
  /\ pct_data_clr \in BOOLEAN
  /\ in_pct_clr_flag \in BOOLEAN
  /\ last_out \in Pieces
  /\ dropped \subseteq Pkts

Init ==
  /\ InitWriter /\ InitReader
  /\ phase = [p \in Pkts |-> "early"] /\ nosync = {}
  /\ pct_sync_dis \in SyncModes
  /\ in_pct_rdy = FALSE /\ in_pct_q = <<NoPkt, 0>>
  /\ wrempty = [b \in Buffers |-> TRUE]
  /\ buff_rdy = [b \in Buffers |-> FALSE]
  /\ buf = [b \in Buffers |-> <<>>]
  /\ almost_full = FALSE
  /\ fifo = <<>> /\ sent = 0
  /\ level = [b \in Buffers |-> "less"]
  /\ buf_q = [b \in Buffers |-> <<NoPkt, 0>>]
  /\ smpl_buff_valid_int = FALSE /\ smpl_buff_valid = FALSE
  /\ smpl_buff_q = <<NoPkt, 0>>
  /\ pct_data_clr = FALSE /\ in_pct_clr_flag = FALSE
  /\ last_out = <<NoPkt, RdWords>> /\ dropped = {}

-----------------------------------------------------------------------------
(* The clock edge outside the two state machines.                          *)

\* rxtx_top.vhd: in_pct_rdy is a register behind the comparison of rdusedw.
InPctRdy == in_pct_rdy' = (Len(fifo) >= PctWords)

\* The input FIFO: an underflowing read leaves the output alone, and
\* in_pct_reset_n_req empties it as soon as it goes low.
InFifo ==
  /\ in_pct_q' = IF in_pct_rdreq /\ fifo # <<>> THEN Head(fifo) ELSE in_pct_q
  /\ fifo' = CASE ~in_pct_reset_n_req' -> <<>>
               [] in_pct_reset_n_req' /\ in_pct_rdreq /\ fifo # <<>> -> Tail(fifo)
               [] OTHER -> fifo

\* The 64-bit words a 128-bit payload word is read back as.
Split(w) == [i \in 1 .. RdPerWr |-> <<w[1], (w[2] - 1) * RdPerWr + i>>]

\* aclr of a buffer follows the state of the reader without a clock.
Clearing(b) == BuffClr(b) \/ BuffClr(b)'

AfterRead(b) == IF BuffRdReq(b) /\ buf[b] # <<>> THEN Tail(buf[b]) ELSE buf[b]

\* rdusedw follows the reads of its own side at once; a level above RdyWords
\* may come down to it.
LevelAfter(b) ==
  CASE Clearing(b) -> {"less"}
    [] ~Clearing(b) /\ BuffRdReq(b) ->
         IF level[b] # "more" THEN {"less"}
           ELSE {"equal"} \cup {l \in {"more"} : Len(buf[b]) > RdyWords + 1}
    [] OTHER -> {level[b]}

Fifos ==
  /\ buf' = [b \in Buffers |->
       CASE Clearing(b) -> <<>>
         [] ~Clearing(b) /\ pct_data_wrreq = b -> AfterRead(b) \o Split(pct_data)
         [] OTHER -> AfterRead(b)]
  /\ buf_q' = [b \in Buffers |->
       IF BuffRdReq(b) /\ buf[b] # <<>> THEN Head(buf[b]) ELSE buf_q[b]]
  /\ wrempty' = [b \in Buffers |->
       CASE Clearing(b) -> TRUE
         [] ~Clearing(b) /\ pct_data_wrreq = b -> FALSE
         [] OTHER -> wrempty[b]]
  /\ level' \in [Buffers -> Levels]
  /\ \A b \in Buffers : level'[b] \in LevelAfter(b)

PctBuffRdy == buff_rdy' = [b \in Buffers |-> level[b] = "equal"]

OutPipe ==
  /\ smpl_buff_valid_int' = RdReq
  /\ smpl_buff_valid' = smpl_buff_valid_int
  /\ smpl_buff_q' = buf_q[crnt_buff_cnt]
  /\ last_out' = IF smpl_buff_valid THEN smpl_buff_q ELSE last_out

ClrFlag ==
  /\ pct_data_clr' = (r_state = "clr_buff")
  /\ in_pct_clr_flag' = (pct_data_clr \/ ~in_pct_reset_n_req)

WriterDrop == IF w_state' = "clr_fifo" THEN {pct_hdr} ELSE {}
ReaderDrop == IF r_state' = "clr_buff" /\ buf[crnt_buff_cnt] # <<>>
                THEN {Head(buf[crnt_buff_cnt])[1]} ELSE {}

Tick ==
  /\ WriterStep /\ ReaderStep
  /\ InPctRdy /\ InFifo /\ Fifos /\ PctBuffRdy /\ OutPipe /\ ClrFlag
  /\ dropped' = dropped \cup WriterDrop \cup ReaderDrop
  /\ UNCHANGED <<phase, nosync, pct_sync_dis, almost_full, sent>>

-----------------------------------------------------------------------------
(* Between two edges.                                                      *)

\* two_fifo_inst.vhd hands over a packet only when the previous one is gone.
\* A synchronised packet is sent ahead of its time (Advance may make it late
\* at once); one with bit 4 set carries sample number 0.
Load ==
  /\ fifo = <<>> /\ in_pct_reset_n_req
  /\ sent < MaxPkts
  /\ fifo' = [i \in 1 .. PctWords |-> <<sent + 1, i - 1>>]
  /\ sent' = sent + 1
  /\ \/ /\ pct_sync_dis \/ sent < SyncPkts
        /\ nosync' = nosync /\ phase' = phase
     \/ /\ ~pct_sync_dis
        /\ nosync' = nosync \cup {sent + 1}
        /\ phase' = [phase EXCEPT ![sent + 1] = "late"]
  /\ UNCHANGED <<pct_sync_dis, in_pct_rdy, in_pct_q, wrempty, pct_hdr,
                 pct_hdr_valid, pct_data, pct_data_wrreq, buff_rdy, buf,
                 almost_full, writerVars, readerVars, level, buf_q,
                 smpl_buff_valid_int, smpl_buff_valid, smpl_buff_q,
                 pct_data_clr, in_pct_clr_flag, last_out, dropped>>

\* The write pointer of a buffer reaches the read side.  Both sides run on
\* tx_clk, so a level that is passed shows for one edge at least.
SeeWords(b) ==
  /\ \/ /\ level[b] = "less" /\ Len(buf[b]) >= RdyWords
        /\ level' = [level EXCEPT ![b] = "equal"]
     \/ /\ level[b] = "equal" /\ Len(buf[b]) > RdyWords /\ buff_rdy[b]
        /\ level' = [level EXCEPT ![b] = "more"]
  /\ UNCHANGED <<signalVars, writerVars, readerVars, fifo, sent, buf_q,
                 smpl_buff_valid_int, smpl_buff_valid, smpl_buff_q,
                 pct_data_clr, in_pct_clr_flag, last_out, dropped>>

\* Mutant: a buffer with one word left counts as empty.
SeeAlmostEmpty(b) ==
  /\ Len(buf[b]) <= 1 /\ ~wrempty[b]
  /\ wrempty' = [wrempty EXCEPT ![b] = TRUE]
  /\ UNCHANGED <<phase, nosync, pct_sync_dis, in_pct_rdy, in_pct_q, pct_hdr,
                 pct_hdr_valid, pct_data, pct_data_wrreq, buff_rdy, buf,
                 almost_full, writerVars, readerVars, pathVars>>

\* The read pointer of an emptied buffer reaches the write side.
SeeEmpty(b) ==
  /\ buf[b] = <<>> /\ ~wrempty[b]
  /\ wrempty' = [wrempty EXCEPT ![b] = TRUE]
  /\ UNCHANGED <<phase, nosync, pct_sync_dis, in_pct_rdy, in_pct_q, pct_hdr,
                 pct_hdr_valid, pct_data, pct_data_wrreq, buff_rdy, buf,
                 almost_full, writerVars, readerVars, pathVars>>

\* A packet whose fate is open: still ahead of the output.
Open(p) == p \in 1 .. sent /\ p > smpl_buff_q[1] /\ p \notin dropped

\* The sample counter reaches, passes or jumps over a sample number (of a
\* packet whose sample number matters).
Advance(p) ==
  /\ Open(p) /\ p \notin nosync /\ ~pct_sync_dis
  /\ \/ phase[p] = "early" /\ \E f \in {"due", "late"} :
          phase' = [phase EXCEPT ![p] = f]
     \/ phase[p] = "due" /\ phase' = [phase EXCEPT ![p] = "late"]
  /\ UNCHANGED <<nosync, pct_sync_dis, in_pct_rdy, in_pct_q, wrempty, pct_hdr,
                 pct_hdr_valid, pct_data, pct_data_wrreq, buff_rdy, buf,
                 almost_full, writerVars, readerVars, pathVars>>

\* The sample FIFO can only cross its limit while it is being written.
FillUp ==
  /\ ~almost_full /\ smpl_buff_valid
  /\ almost_full' = TRUE
  /\ UNCHANGED <<phase, nosync, pct_sync_dis, in_pct_rdy, in_pct_q, wrempty,
                 pct_hdr, pct_hdr_valid, pct_data, pct_data_wrreq, buff_rdy,
                 buf, writerVars, readerVars, pathVars>>

Drain ==
  /\ almost_full /\ almost_full' = FALSE
  /\ UNCHANGED <<phase, nosync, pct_sync_dis, in_pct_rdy, in_pct_q, wrempty,
                 pct_hdr, pct_hdr_valid, pct_data, pct_data_wrreq, buff_rdy,
                 buf, writerVars, readerVars, pathVars>>

Next ==
  \/ Tick \/ Load \/ FillUp \/ Drain
  \/ \E b \in Buffers : SeeWords(b) \/ SeeEmpty(b)
  \/ \E p \in Pkts : Advance(p)

Spec == Init /\ [][Next]_vars

\* tx_clk runs, the synchronisers settle, the receiver keeps counting samples
\* and the DAC side keeps emptying the sample FIFO.
Fairness ==
  /\ WF_vars(Tick) /\ WF_vars(Drain)
  /\ \A b \in Buffers : WF_vars(SeeWords(b)) /\ WF_vars(SeeEmpty(b))
  /\ \A p \in Pkts : WF_vars(Advance(p))

FairSpec == Spec /\ Fairness

-----------------------------------------------------------------------------
(* Safety.                                                                 *)

\* The writer never touches a buffer the reader is taking a packet from or
\* clearing: p2d_wr_fsm waits for wrempty, p2d_rd for a complete packet.
Ownership ==
  \A b \in Buffers :
    pct_data_wrreq = b =>
      ~(crnt_buff_cnt = b /\ r_state \in {"rd_buff", "rd_hold", "clr_buff"})

\* The write FSM stays in step with the packets of the input FIFO: what it
\* latches as a header is word 0 of a packet and what it stores as payload is
\* the next word of the packet whose header it holds.
Framing ==
  /\ HeaderArrives => in_pct_q[2] = 0
  /\ PayloadArrives => in_pct_q = <<pct_hdr, wrreq_cnt>>

\* When the read FSM decides on the current buffer, the header it compares is
\* the header of the packet stored there: a header of a later packet has not
\* overwritten it and the registered multiplexers have settled.
HeaderOfBuffer ==
  r_state = "idle" /\ crnt_buff_rdy =>
    /\ Len(buf[crnt_buff_cnt]) = RdWords
    /\ LET p == Head(buf[crnt_buff_cnt])[1]
       IN /\ hdr_array[crnt_buff_cnt] = p
          /\ crnt_buff_pct_synch_dis = (p \in nosync)

\* Word w may leave right after word v: the next word of the same packet, or
\* the first word of a later one when v ended its packet and every packet
\* skipped in between was thrown away.
Follows(v, w) ==
  \/ w = <<v[1], v[2] + 1>>
  \/ /\ v[2] = RdWords /\ w[2] = 1 /\ w[1] > v[1]
     /\ v[1] + 1 .. w[1] - 1 \subseteq dropped

\* What reaches the sample FIFO is whole packets in the order in which the
\* host sent them, no word lost, repeated or taken from another buffer, and
\* no packet missing that was not thrown away.
StreamIntact == smpl_buff_valid => Follows(last_out, smpl_buff_q)

\* Only a packet that is synchronised and has missed its sample number is
\* thrown away, by the writer or by the reader: the verdict of the pipelined
\* comparators is never about another packet.
DropOnlyLate ==
  \A p \in dropped : phase[p] = "late" /\ p \notin nosync /\ ~pct_sync_dis

\* Reading a synchronised packet never starts ahead of its sample number.
NeverEarly ==
  [][r_state = "idle" /\ r_state' = "rd_buff" =>
       LET p == Head(buf[crnt_buff_cnt])[1]
       IN pct_sync_dis \/ p \in nosync \/ phase[p] # "early"]_vars

-----------------------------------------------------------------------------
(* Liveness, under Fairness.                                               *)

Left(p) ==
  p \in dropped \/ last_out[1] > p \/ last_out = <<p, RdWords>>

\* Every packet the input FIFO has received is read out to its end or thrown
\* away: the two FSMs cannot wait for each other for ever.
EveryPacketLeaves == \A p \in Pkts : sent >= p ~> Left(p)
=============================================================================
