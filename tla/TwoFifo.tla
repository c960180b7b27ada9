------------------------------ MODULE TwoFifo ------------------------------
(***************************************************************************)
(* two_fifo_inst.vhd, the input of a TX stream behind PCIe.  The host      *)
(* writes into a small first FIFO; a state machine moves one packet, chunk *)
(* by chunk, into a second FIFO and waits until that packet is gone.  The  *)
(* second FIFO is read in the tx_clk domain by p2d_wr_fsm, which may also  *)
(* reset it (tx_in_pct_reset_n_req) to throw the packet away.              *)
(*                                                                         *)
(* BusTick is a rising edge of bus_clk (wrclk).  The reader is abstracted  *)
(* to what P2dWriter does to this side, one action per edge of tx_clk that *)
(* matters here: rxtx_top registers that a whole packet is visible,        *)
(* p2d_wr_fsm sees the register in idle, sets its registered read request  *)
(* in rd_hdr, and the word arrives while it waits for its comparator; then *)
(* it takes every other word or resets the FIFO.  The clocks are           *)
(* unrelated, so its steps fall anywhere between two edges of bus_clk, and *)
(* the stream may be closed between any two of them.                       *)
(***************************************************************************)
EXTENDS Naturals, Sequences

CONSTANTS
  Chunk,      \* TRNSF_SIZE in words: one transfer from first to second FIFO
  TrnsfN,     \* TRNSF_N: transfers per packet
  Fifo0Depth, \* words of the first FIFO
  MaxPkts     \* bound: packets the host writes

ASSUME ChunkAssumption  == Chunk \in Nat /\ Chunk > 1
ASSUME TrnsfNAssumption == TrnsfN \in Nat /\ TrnsfN > 0
ASSUME DepthAssumption  == Fifo0Depth \in Nat /\ Fifo0Depth >= Chunk
ASSUME BoundAssumption  == MaxPkts \in Nat

\* 512 B * 8 in the top level: a packet is a whole number of chunks.
PctWords == Chunk * TrnsfN

Words  == ((1 .. MaxPkts) \X (0 .. PctWords - 1))
NoWord == <<0, 0>>

VARIABLES
  stream_open,   \* user_w_stream0_write_32_open, the reset of both FIFOs
  host_pos,      \* the next word the host writes
  fifo0,         \* first FIFO
  inst0_q,       \* its registered output
  inst0_used,    \* inst0_rdusedw, lagging behind the writes
  state,         \* current_state
  trnsf_cnt,     \* chunks started
  rd_cnt,        \* words of this chunk
  inst0_rdreq,   \* registered read request to the first FIFO
  inst1_wrreq,   \* and, a cycle later, write request to the second
  fifo1,         \* second FIFO
  inst1_wrempty, \* the second FIFO empty, as bus_clk sees it
  rd_seen,       \* rdusedw of the second FIFO, as tx_clk sees it
  rst_pipe,      \* sync_reg that stretches the reset request
  in_pct_rdy,    \* a whole packet is visible, registered by rxtx_top
  reader,        \* what p2d_wr_fsm is doing
  reader_cnt,    \* words it has asked for
  got,           \* last word the reader took
  torn           \* history: the stream was closed under this packet

vars == <<stream_open, host_pos, fifo0, inst0_q, inst0_used, state, trnsf_cnt,
          rd_cnt, inst0_rdreq, inst1_wrreq, fifo1, inst1_wrempty, rd_seen,
          rst_pipe, in_pct_rdy, reader, reader_cnt, got, torn>>

busVars  == <<state, trnsf_cnt, rd_cnt, inst0_rdreq, inst1_wrreq>>
hostVars == <<stream_open, host_pos>>
readerVars == <<in_pct_rdy, reader, reader_cnt, got, torn>>

TypeOK ==
  /\ stream_open \in BOOLEAN
  /\ host_pos \in (1 .. MaxPkts + 1) \X (0 .. PctWords - 1)
  /\ fifo0 \in Seq(Words) /\ Len(fifo0) <= Fifo0Depth
  /\ inst0_q \in Words \cup {NoWord}
  /\ inst0_used \in 0 .. Len(fifo0)
  /\ state \in {"idle", "check_fifo_0", "check_trnsf", "trnsf_fifo",
                "check_fifo_1"}
  /\ trnsf_cnt \in 0 .. TrnsfN + 1
  /\ rd_cnt \in 0 .. Chunk
  /\ inst0_rdreq \in BOOLEAN /\ inst1_wrreq \in BOOLEAN
  /\ fifo1 \in Seq(Words \cup {NoWord}) /\ Len(fifo1) <= PctWords
  /\ inst1_wrempty \in BOOLEAN
  /\ rd_seen \in 0 .. Len(fifo1)
  /\ rst_pipe \in [1 .. 2 -> BOOLEAN]
  /\ in_pct_rdy \in BOOLEAN
  /\ reader \in {"idle", "rd_hdr", "wait_cmpr_pipe", "check_smpl_nr",
                 "clr_fifo", "rd_pct", "check_next_buf"}
  /\ reader_cnt \in 0 .. PctWords
  /\ got \in Words \cup {NoWord}
  /\ torn \in BOOLEAN

Init ==
  /\ stream_open = FALSE
  /\ host_pos = <<1, 0>>
  /\ fifo0 = <<>> /\ inst0_q = NoWord /\ inst0_used = 0
  /\ state = "idle" /\ trnsf_cnt = 0 /\ rd_cnt = 0
  /\ inst0_rdreq = FALSE /\ inst1_wrreq = FALSE
  /\ fifo1 = <<>> /\ inst1_wrempty = TRUE /\ rd_seen = 0
  /\ rst_pipe = [i \in 1 .. 2 |-> TRUE]
  /\ in_pct_rdy = FALSE
  /\ reader = "idle" /\ reader_cnt = 0 /\ got = NoWord /\ torn = FALSE

\* reset_n of the second FIFO and of the state machine.
Running == stream_open /\ rst_pipe[2]

-----------------------------------------------------------------------------
(* The host.                                                               *)

NextPos(w) == IF w[2] < PctWords - 1 THEN <<w[1], w[2] + 1>> ELSE <<w[1] + 1, 0>>

HostWrite ==
  /\ stream_open
  /\ host_pos[1] <= MaxPkts
  /\ Len(fifo0) < Fifo0Depth
  /\ fifo0' = Append(fifo0, host_pos)
  /\ host_pos' = NextPos(host_pos)
  /\ UNCHANGED <<stream_open, inst0_q, inst0_used, busVars, fifo1,
                 inst1_wrempty, rd_seen, rst_pipe, readerVars>>

\* The write pointer of the first FIFO becomes visible on its read side.
SeeWritten ==
  /\ inst0_used < Len(fifo0)
  /\ inst0_used' \in inst0_used + 1 .. Len(fifo0)
  /\ UNCHANGED <<hostVars, fifo0, inst0_q, busVars, fifo1, inst1_wrempty,
                 rd_seen, rst_pipe, readerVars>>

\* p2d_wr_fsm is on a packet: from the edge at which it would act on
\* in_pct_rdy to the last word.
OnPacket == \/ reader = "idle" /\ in_pct_rdy
            \/ reader \notin {"idle", "check_next_buf"}

\* The host takes longer to open the device file again than p2d_wr_fsm takes
\* to see the level fall or to count to the end of a packet.
Open ==
  /\ ~stream_open /\ ~OnPacket
  /\ stream_open' = TRUE
  /\ UNCHANGED <<host_pos, fifo0, inst0_q, inst0_used, busVars, fifo1,
                 inst1_wrempty, rd_seen, rst_pipe, readerVars>>

\* Mutant: closing the file does not reset the second FIFO.
CloseFirstOnly ==
  /\ stream_open
  /\ stream_open' = FALSE
  /\ host_pos' = IF host_pos[2] = 0 THEN host_pos ELSE <<host_pos[1] + 1, 0>>
  /\ fifo0' = <<>> /\ inst0_used' = 0
  /\ state' = "idle" /\ trnsf_cnt' = 0 /\ rd_cnt' = 0
  /\ inst0_rdreq' = FALSE /\ inst1_wrreq' = FALSE
  /\ torn' = (torn \/ OnPacket)
  /\ UNCHANGED <<inst0_q, fifo1, inst1_wrempty, rd_seen, rst_pipe, in_pct_rdy,
                 reader, reader_cnt, got>>

\* Closing the device file drops whatever is on its way, and the host starts
\* the next packet afresh.  Nothing tells p2d_wr_fsm that its input went away:
\* once it has seen in_pct_rdy it goes on, header or no header, and reads the
\* word that the empty FIFO still shows.
Close ==
  /\ stream_open
  /\ stream_open' = FALSE
  /\ host_pos' = IF host_pos[2] = 0 THEN host_pos ELSE <<host_pos[1] + 1, 0>>
  /\ fifo0' = <<>> /\ inst0_used' = 0
  /\ fifo1' = <<>> /\ inst1_wrempty' = TRUE /\ rd_seen' = 0
  /\ state' = "idle" /\ trnsf_cnt' = 0 /\ rd_cnt' = 0
  /\ inst0_rdreq' = FALSE /\ inst1_wrreq' = FALSE
  /\ torn' = (torn \/ OnPacket)
  /\ UNCHANGED <<inst0_q, rst_pipe, in_pct_rdy, reader, reader_cnt, got>>

-----------------------------------------------------------------------------
(* The state machine, one action per state.                                *)

\* Mutant: more than a chunk is asked for.
MoreThanChunkReady == inst0_used > Chunk

ChunkReady == inst0_used > Chunk - 1

Idle ==
  /\ state = "idle"
  /\ state' = IF ChunkReady /\ inst1_wrempty THEN "check_trnsf" ELSE "idle"

CheckTrnsf ==
  /\ state = "check_trnsf"
  /\ state' = IF trnsf_cnt < TrnsfN THEN "check_fifo_0" ELSE "check_fifo_1"

CheckFifo0 ==
  /\ state = "check_fifo_0"
  /\ state' = IF ChunkReady THEN "trnsf_fifo" ELSE "check_fifo_0"

TrnsfFifo ==
  /\ state = "trnsf_fifo"
  /\ state' = IF rd_cnt < Chunk - 1 THEN "trnsf_fifo" ELSE "check_trnsf"

CheckFifo1 ==
  /\ state = "check_fifo_1"
  /\ state' = IF inst1_wrempty THEN "idle" ELSE "check_fifo_1"

Fsm == Idle \/ CheckTrnsf \/ CheckFifo0 \/ TrnsfFifo \/ CheckFifo1

Counters ==
  /\ trnsf_cnt' = CASE state = "check_trnsf" -> trnsf_cnt + 1
                    [] state = "idle" -> 0
                    [] OTHER -> trnsf_cnt
  /\ rd_cnt' = IF state = "trnsf_fifo" THEN rd_cnt + 1 ELSE 0

IntRegs ==
  /\ inst0_rdreq' = (state = "trnsf_fifo")
  /\ inst1_wrreq' = inst0_rdreq

\* The first FIFO answers a read request; reading it while it is empty leaves
\* the output register as it was.
ReadFifo0 ==
  IF inst0_rdreq /\ fifo0 # <<>>
    THEN /\ inst0_q' = Head(fifo0) /\ fifo0' = Tail(fifo0)
         /\ inst0_used' = IF inst0_used > 0 THEN inst0_used - 1 ELSE 0
    ELSE UNCHANGED <<inst0_q, fifo0, inst0_used>>

WriteFifo1 ==
  IF inst1_wrreq
    THEN fifo1' = Append(fifo1, inst0_q) /\ inst1_wrempty' = FALSE
    ELSE UNCHANGED <<fifo1, inst1_wrempty>>

\* Mutant: the synchroniser shifts in the wrong constant.
ReleaseResetNever == rst_pipe' = [i \in 1 .. 2 |-> i = 2 /\ rst_pipe[i]]

\* sync_reg: cleared at once by the request, released two edges after it.
ReleaseReset ==
  rst_pipe' = IF reader = "clr_fifo" THEN rst_pipe
                                     ELSE [i \in 1 .. 2 |-> i = 1 \/ rst_pipe[1]]

BusTick ==
  /\ Running
  /\ Fsm /\ Counters /\ IntRegs /\ ReadFifo0 /\ WriteFifo1 /\ ReleaseReset
  /\ UNCHANGED <<hostVars, rd_seen, readerVars>>

\* An edge while the state machine is held in reset: the first FIFO only
\* holds its contents.
BusTickReset ==
  /\ ~Running /\ ReleaseReset
  /\ UNCHANGED <<hostVars, fifo0, inst0_q, inst0_used, busVars, fifo1,
                 inst1_wrempty, rd_seen, readerVars>>

-----------------------------------------------------------------------------
(* The read side, p2d_wr_fsm in the tx_clk domain.                         *)

SeeFilled ==
  /\ rd_seen < Len(fifo1)
  /\ rd_seen' \in rd_seen + 1 .. Len(fifo1)
  /\ UNCHANGED <<hostVars, fifo0, inst0_q, inst0_used, busVars, fifo1,
                 inst1_wrempty, rst_pipe, readerVars>>

\* Mutant: one word left counts as empty.
SeeAlmostEmptied ==
  /\ Len(fifo1) <= 1 /\ ~inst1_wrempty /\ ~inst1_wrreq
  /\ inst1_wrempty' = TRUE
  /\ UNCHANGED <<hostVars, fifo0, inst0_q, inst0_used, busVars, fifo1,
                 rd_seen, rst_pipe, readerVars>>

\* The write side learns that the second FIFO has been read empty.
SeeEmptied ==
  /\ fifo1 = <<>> /\ ~inst1_wrempty /\ ~inst1_wrreq
  /\ inst1_wrempty' = TRUE
  /\ UNCHANGED <<hostVars, fifo0, inst0_q, inst0_used, busVars, fifo1,
                 rd_seen, rst_pipe, readerVars>>

TakeWord == /\ got' = IF fifo1 = <<>> THEN got ELSE Head(fifo1)
            /\ fifo1' = IF fifo1 = <<>> THEN fifo1 ELSE Tail(fifo1)
            /\ rd_seen' = IF rd_seen > 0 THEN rd_seen - 1 ELSE 0

\* At every edge of tx_clk.
RegisterReady == in_pct_rdy' = (rd_seen >= PctWords)

\* The state is left on the register, which is a clock old.
IdleEdge ==
  /\ reader = "idle"
  /\ reader' = IF in_pct_rdy THEN "rd_hdr" ELSE "idle"
  /\ RegisterReady
  /\ UNCHANGED <<hostVars, fifo0, inst0_q, inst0_used, busVars, fifo1,
                 inst1_wrempty, rd_seen, rst_pipe, reader_cnt, got, torn>>

\* in_pct_rdreq is a register too.
RequestHeader ==
  /\ reader = "rd_hdr"
  /\ reader' = "wait_cmpr_pipe"
  /\ reader_cnt' = 1
  /\ RegisterReady
  /\ UNCHANGED <<hostVars, fifo0, inst0_q, inst0_used, busVars, fifo1,
                 inst1_wrempty, rd_seen, rst_pipe, got, torn>>

\* The request takes the header, or what the output shows if the FIFO has been
\* emptied since; the rest of the wait for the comparator changes nothing here.
ReadHeader ==
  /\ reader = "wait_cmpr_pipe"
  /\ reader' = "check_smpl_nr"
  /\ TakeWord /\ RegisterReady
  /\ UNCHANGED <<hostVars, fifo0, inst0_q, inst0_used, busVars, inst1_wrempty,
                 rst_pipe, reader_cnt, torn>>

\* The packet is late: reset the second FIFO and the state machine.
DropPacket ==
  /\ reader = "check_smpl_nr"
  /\ reader' = "clr_fifo"
  /\ fifo1' = <<>> /\ inst1_wrempty' = TRUE /\ rd_seen' = 0
  /\ state' = "idle" /\ trnsf_cnt' = 0 /\ rd_cnt' = 0
  /\ inst0_rdreq' = FALSE /\ inst1_wrreq' = FALSE
  /\ rst_pipe' = [i \in 1 .. 2 |-> FALSE]
  /\ RegisterReady
  /\ UNCHANGED <<hostVars, fifo0, inst0_q, inst0_used, reader_cnt, got, torn>>

\* The registered request for the reset is taken back.
EndDrop ==
  /\ reader = "clr_fifo"
  /\ reader' = "idle"
  /\ torn' = FALSE
  /\ RegisterReady
  /\ UNCHANGED <<hostVars, fifo0, inst0_q, inst0_used, busVars, fifo1,
                 inst1_wrempty, rd_seen, rst_pipe, reader_cnt, got>>

AcceptPacket ==
  /\ reader = "check_smpl_nr"
  /\ reader' = "rd_pct"
  /\ RegisterReady
  /\ UNCHANGED <<hostVars, fifo0, inst0_q, inst0_used, busVars, fifo1,
                 inst1_wrempty, rd_seen, rst_pipe, reader_cnt, got, torn>>

\* One read per clock without looking at the FIFO again, to the last word.
ReadWord ==
  /\ reader = "rd_pct"
  /\ TakeWord /\ RegisterReady
  /\ reader_cnt' = reader_cnt + 1
  /\ reader' = IF reader_cnt < PctWords - 1 THEN "rd_pct" ELSE "check_next_buf"
  /\ UNCHANGED <<hostVars, fifo0, inst0_q, inst0_used, busVars, inst1_wrempty,
                 rst_pipe, torn>>

\* The next buffer is ready, after any number of clocks.
NextBuffer ==
  /\ reader = "check_next_buf"
  /\ reader' = "idle"
  /\ torn' = FALSE
  /\ RegisterReady
  /\ UNCHANGED <<hostVars, fifo0, inst0_q, inst0_used, busVars, fifo1,
                 inst1_wrempty, rd_seen, rst_pipe, reader_cnt, got>>

Next ==
  \/ HostWrite \/ SeeWritten \/ Open \/ Close
  \/ BusTick \/ BusTickReset
  \/ SeeFilled \/ SeeEmptied
  \/ IdleEdge \/ RequestHeader \/ ReadHeader
  \/ DropPacket \/ EndDrop
  \/ AcceptPacket \/ ReadWord \/ NextBuffer

Spec == Init /\ [][Next]_vars

\* Both clocks run, the synchronisers settle, and the reader, which is a
\* clocked state machine, does not stop half way.
Fairness ==
  /\ WF_vars(BusTick) /\ WF_vars(BusTickReset)
  /\ WF_vars(SeeWritten) /\ WF_vars(SeeFilled) /\ WF_vars(SeeEmptied)
  /\ WF_vars(IdleEdge) /\ WF_vars(RequestHeader) /\ WF_vars(ReadHeader)
  /\ WF_vars(DropPacket \/ AcceptPacket) /\ WF_vars(EndDrop)
  /\ WF_vars(ReadWord) /\ WF_vars(NextBuffer)

FairSpec == Spec /\ Fairness

-----------------------------------------------------------------------------
\* The FIFOs are never over full, nor any variable out of its type, and the
\* second FIFO never holds words of two packets and holds its words in order:
\* the reader finds a packet boundary by counting alone.
OnePacket ==
  /\ TypeOK
  /\ \A i \in 1 .. Len(fifo1) - 1 :
       fifo1[i + 1] = <<fifo1[i][1], fifo1[i][2] + 1>>

\* The reader gets a header when it expects one and then the words of that
\* packet one after the other, whatever it dropped and however often the host
\* closed the stream before.  A stream closed under a packet, from the edge at
\* which p2d_wr_fsm acts on in_pct_rdy to the last word, spoils what is left of
\* that packet, its header included: each word is then the one read last, and
\* p2d_wr_fsm passes or drops the packet as it would any other.  No other
\* packet is touched.
InOrder ==
  [][/\ reader = "wait_cmpr_pipe" /\ reader' = "check_smpl_nr" =>
          IF torn THEN got' = got ELSE got'[2] = 0 /\ got'[1] > got[1]
     /\ reader = "rd_pct" /\ reader_cnt' # reader_cnt =>
          got' = IF torn THEN got ELSE <<got[1], got[2] + 1>>]_vars

\* A packet whose last word the host has written reaches the reader unless the
\* stream is closed: no part of the machinery waits for a level that never
\* comes.
PacketArrives ==
  \A p \in 1 .. MaxPkts :
    (\E i \in 1 .. Len(fifo0) : fifo0[i] = <<p, PctWords - 1>>)
      ~> got[1] >= p \/ ~stream_open

\* A host that waits for room in the first FIFO gets it, also after p2d_wr_fsm
\* has thrown away the packet before and reset this side.
HostNeverStuck == Len(fifo0) = Fifo0Depth ~> Len(fifo0) < Fifo0Depth
=============================================================================
