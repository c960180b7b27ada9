----------------------------- MODULE TxProofs -----------------------------
(***************************************************************************)
(* The TX packet path, for every number and size of packets and buffers.   *)
(*                                                                         *)
(* First, at every width: IInv (module TxInvariant) is an inductive        *)
(* invariant of TxPackets and gives the type invariant and the framing of  *)
(* the stream.  The work is in the clock edge, where every register moves  *)
(* at once: one lemma per conjunct of IInv, after the lemmas that say what *)
(* an edge does to the counters (TickCounters, TickTaken), to the state of *)
(* p2d_wr_fsm (TickState) and to the input FIFO (TickFifo).                *)
(*                                                                         *)
(* Then, with 12 and 16 bits: the writer and the reader never have the     *)
(* same buffer, the reader decides on the header of the packet in its      *)
(* buffer, what leaves are the packets of the host in their order and      *)
(* whole, and only late packets are thrown away.  RingInv (module TxRing)  *)
(* is shown to be inductive on top of IInv.  The first lemmas are about    *)
(* the ring alone: what it is after the oldest packet has left, a packet   *)
(* has been put behind the youngest one, or a packet has been thrown away. *)
(* Then come the clock edge, seen from the writer, the buffers and the     *)
(* reader, and the steps between two edges.                                *)
(***************************************************************************)
EXTENDS TxRing, SequenceTheorems, TLAPS

-----------------------------------------------------------------------------
(* Framing.                                                                *)

\* The generics of packets2data as numbers: a packet and a read of it are never
\* empty.
LEMMA Sizes ==
  /\ PctWords \in Nat /\ PctWords > 1
  /\ NBuff \in Nat /\ NBuff > 1
  /\ MaxPkts \in Nat
  /\ RdPerWr \in Nat /\ RdPerWr > 0
  /\ RdWords \in Nat /\ RdWords > 0
<1>1. (PctWords - 1) * RdPerWr \in Nat /\ (PctWords - 1) * RdPerWr > 0
  BY PctWordsAssumption, RdPerWrAssumption
<1> QED BY <1>1, NBuffAssumption, PctWordsAssumption, RdPerWrAssumption,
           MaxPktsAssumption DEF RdWords

\* The pieces of payload word w, read as 64-bit words, are numbered inside the
\* packet.
LEMMA PieceBound ==
  ASSUME NEW w \in 1 .. PctWords - 1, NEW i \in 1 .. RdPerWr
  PROVE  (w - 1) * RdPerWr + i \in 1 .. RdWords
<1>1. w * RdPerWr <= (PctWords - 1) * RdPerWr
  BY PctWordsAssumption, RdPerWrAssumption
<1>2. (w - 1) * RdPerWr + RdPerWr = w * RdPerWr
  BY RdPerWrAssumption
<1>3. (w - 1) * RdPerWr \in Nat
  BY RdPerWrAssumption
<1> QED BY <1>1, <1>2, <1>3, PctWordsAssumption, RdPerWrAssumption DEF RdWords

\* The types of the counters of p2d_wr_fsm.
LEMMA WriterTypes ==
  ASSUME IInv
  PROVE  /\ w_rd_cnt \in 0 .. PctWords /\ wrreq_cnt \in 0 .. PctWords
         /\ pipe_cnt \in 0 .. 5 /\ sent \in 0 .. MaxPkts
         /\ in_pct_rdreq \in BOOLEAN /\ in_pct_data_valid \in BOOLEAN
         /\ Taken \in Nat
<1> QED BY DEF IInv, TypeOK, TypeOKWriter, Taken, One

\* What an edge does to the read and write counters.
LEMMA TickCounters ==
  ASSUME IInv, Tick
  PROVE  /\ w_state \in {"rd_pct", "rd_hdr"} => in_pct_rdreq'
         /\ w_state \notin {"rd_pct", "rd_hdr"} => ~in_pct_rdreq'
         /\ (in_pct_data_valid' <=> in_pct_rdreq)
         /\ w_state \in {"rd_pct", "rd_hdr"} => w_rd_cnt' = w_rd_cnt + 1
         /\ w_state = "idle" => w_rd_cnt' = 0 /\ wrreq_cnt' = 0
         /\ w_state \notin {"rd_pct", "rd_hdr", "idle"} => w_rd_cnt' = w_rd_cnt
         /\ w_state # "idle" => wrreq_cnt' = Taken
         /\ w_state = "wait_cmpr_pipe" => pipe_cnt' = pipe_cnt + 1
         /\ w_state # "wait_cmpr_pipe" => pipe_cnt' = 0
<1>1. /\ w_state \in {"rd_pct", "rd_hdr"} => in_pct_rdreq'
      /\ w_state \notin {"rd_pct", "rd_hdr"} => ~in_pct_rdreq'
      /\ (in_pct_data_valid' <=> in_pct_rdreq)
  BY DEF Tick, WriterStep, OutReg, WriteCounter
<1>2. /\ w_state \in {"rd_pct", "rd_hdr"} => w_rd_cnt' = w_rd_cnt + 1
      /\ w_state = "idle" => w_rd_cnt' = 0
      /\ w_state \notin {"rd_pct", "rd_hdr", "idle"} => w_rd_cnt' = w_rd_cnt
      /\ w_state = "wait_cmpr_pipe" => pipe_cnt' = pipe_cnt + 1
      /\ w_state # "wait_cmpr_pipe" => pipe_cnt' = 0
  BY DEF Tick, WriterStep, ReadCounters
<1>3. w_state = "idle" => wrreq_cnt' = 0
  <2>1. w_state = "idle" => ~in_pct_data_valid
    BY DEF IInv, WriterInv, FlightOfState
  <2> QED BY <2>1 DEF Tick, WriterStep, WriteCounter
<1>4. w_state # "idle" => wrreq_cnt' = Taken
  <2>1. CASE in_pct_data_valid
    BY <2>1 DEF Tick, WriterStep, WriteCounter, Taken, One
  <2>2. CASE ~in_pct_data_valid
    BY <2>2, WriterTypes DEF Tick, WriterStep, WriteCounter, Taken, One
  <2> QED BY <2>1, <2>2
<1> QED BY <1>1, <1>2, <1>3, <1>4

\* An edge keeps the read counter equal to the words taken and in flight.
LEMMA TickInFlight ==
  ASSUME IInv, Tick PROVE InFlight'
<1>1. CASE w_state = "idle"
  <2>1. ~in_pct_rdreq
    BY <1>1 DEF IInv, WriterInv, FlightOfState
  <2>2. /\ w_rd_cnt' = 0 /\ wrreq_cnt' = 0
        /\ (in_pct_data_valid' <=> in_pct_rdreq) /\ ~in_pct_rdreq'
    BY <1>1, TickCounters
  <2> QED BY <2>1, <2>2 DEF InFlight, Taken, One
<1>2. CASE w_state # "idle"
  <2>1. wrreq_cnt' = Taken /\ (in_pct_data_valid' <=> in_pct_rdreq)
    BY <1>2, TickCounters
  <2>2. w_rd_cnt' = w_rd_cnt + One(in_pct_rdreq')
    <3>1. CASE w_state \in {"rd_pct", "rd_hdr"}
      BY <3>1, TickCounters DEF One
    <3>2. CASE w_state \notin {"rd_pct", "rd_hdr"}
      BY <1>2, <3>2, TickCounters, WriterTypes DEF One
    <3> QED BY <3>1, <3>2
  <2>3. w_rd_cnt = Taken + One(in_pct_rdreq)
    BY DEF IInv, WriterInv, InFlight
  <2> QED BY <2>1, <2>2, <2>3 DEF InFlight, Taken
<1> QED BY <1>1, <1>2

\* An edge of p2d_wr_fsm keeps the read counter and the words in flight where
\* the new state wants them: six cycles of wait_cmpr_pipe let the header arrive.
LEMMA TickCountOfState ==
  ASSUME IInv, Tick PROVE CountOfState' /\ FlightOfState' /\ w_rd_cnt' \in 0 .. PctWords
<1> USE TickCounters, WriterTypes, Sizes
<1> USE DEF IInv, WriterInv, CountOfState, FlightOfState, InFlight, Taken, One, Goto
<1>1. CASE Idle BY <1>1 DEF Idle
<1>2. CASE RdHdr BY <1>2 DEF RdHdr
<1>3. CASE WaitCmprPipe BY <1>3 DEF WaitCmprPipe
<1>4. CASE CheckSmplNr BY <1>4 DEF CheckSmplNr
<1>5. CASE ClrFifo BY <1>5 DEF ClrFifo
<1>6. CASE SwitchNextBuff BY <1>6 DEF SwitchNextBuff
<1>7. CASE RdPct BY <1>7 DEF RdPct
<1>8. CASE WaitWrEnd BY <1>8 DEF WaitWrEnd
<1>9. CASE CheckNextBuf BY <1>9 DEF CheckNextBuf
<1>10. CASE SwitchCurrentBuff BY <1>10 DEF SwitchCurrentBuff
<1> QED BY <1>1, <1>2, <1>3, <1>4, <1>5, <1>6, <1>7, <1>8, <1>9, <1>10
        DEF Tick, WriterStep, WriterFsm

\* A read of the input FIFO finds a word of the packet being read.
LEMMA ReadFindsWord ==
  ASSUME IInv, in_pct_rdreq
  PROVE  /\ w_state # "idle" /\ Taken < PctWords /\ Rest(Taken)
         /\ Len(fifo) \in Nat /\ Len(fifo) > 0
         /\ fifo[1] = <<sent, Taken>> /\ sent \in Pkts
<1>1. w_state # "idle"
  BY DEF IInv, WriterInv, FlightOfState
<1>2. Taken < PctWords
  BY WriterTypes, Sizes DEF IInv, WriterInv, InFlight, One
<1>3. Rest(Taken)
  BY <1>1, <1>2, WriterTypes, Sizes DEF IInv, WriterInv, FifoOfState
<1>4. Len(fifo) \in Nat /\ Len(fifo) > 0
  BY <1>2, <1>3, WriterTypes, Sizes DEF Rest
<1>5. fifo[1] = <<sent, Taken>>
  BY <1>3, <1>4, WriterTypes DEF Rest
<1>6. fifo[1] \in Pkts \X (0 .. PctWords - 1)
  BY <1>4, ElementOfSeq DEF IInv, TypeOK
<1> QED BY <1>1, <1>2, <1>3, <1>4, <1>5, <1>6

\* What an edge does to the input FIFO.
LEMMA TickFifo ==
  ASSUME IInv, Tick
  PROVE  /\ fifo' \in Seq(Pkts \X (0 .. PctWords - 1))
         /\ w_state = "clr_fifo" => Len(fifo') = 0
         /\ w_state # "clr_fifo" /\ ~in_pct_rdreq => fifo' = fifo
         /\ w_state # "clr_fifo" /\ in_pct_rdreq =>
              /\ Len(fifo') = Len(fifo) - 1
              /\ \A i \in 1 .. Len(fifo') : fifo'[i] = fifo[i + 1]
         /\ in_pct_rdreq => in_pct_q' = <<sent, Taken>>
         /\ ~in_pct_rdreq => in_pct_q' = in_pct_q
<1> DEFINE W == Pkts \X (0 .. PctWords - 1)
<1>1. fifo \in Seq(W)
  BY DEF IInv, TypeOK
<1>2. in_pct_reset_n_req' <=> w_state # "clr_fifo"
  BY DEF Tick, WriterStep, OutReg
<1>3. CASE w_state = "clr_fifo"
  <2>1. ~in_pct_rdreq
    BY <1>3 DEF IInv, WriterInv, FlightOfState
  <2>2. fifo' = <<>> /\ in_pct_q' = in_pct_q
    BY <1>2, <1>3, <2>1 DEF Tick, InFifo
  <2> QED BY <1>3, <2>1, <2>2, EmptySeq
<1>4. CASE w_state # "clr_fifo" /\ ~in_pct_rdreq
  BY <1>1, <1>2, <1>4 DEF Tick, InFifo
<1>5. CASE w_state # "clr_fifo" /\ in_pct_rdreq
  <2>1. fifo # <<>> /\ fifo[1] = <<sent, Taken>>
    BY <1>5, <1>1, ReadFindsWord, EmptySeq
  <2>2. fifo' = Tail(fifo) /\ in_pct_q' = Head(fifo)
    BY <1>2, <1>5, <2>1 DEF Tick, InFifo
  <2>3. /\ Tail(fifo) \in Seq(W)
        /\ Len(Tail(fifo)) = Len(fifo) - 1
        /\ \A i \in 1 .. Len(Tail(fifo)) : Tail(fifo)[i] = fifo[i + 1]
    BY <1>1, <2>1, HeadTailProperties
  <2> QED BY <1>5, <2>1, <2>2, <2>3
<1> QED BY <1>3, <1>4, <1>5

\* The edges of the state machine that the rest of the proof looks at.
LEMMA TickState ==
  ASSUME Tick
  PROVE  /\ w_state' \in WriterStates
         /\ w_state = "idle" =>
              w_state' = "idle" \/ (w_state' = "rd_hdr" /\ in_pct_rdy)
         /\ w_state \in {"clr_fifo", "switch_current_buff"} => w_state' = "idle"
         /\ w_state \notin {"idle", "clr_fifo", "switch_current_buff"} =>
              w_state' # "idle"
         /\ w_state = "wait_cmpr_pipe" /\ pipe_cnt = 0 =>
              w_state' = "wait_cmpr_pipe"
         /\ w_state' = "clr_fifo" => w_state = "check_smpl_nr"
<1> USE DEF Goto, WriterStates
<1>1. CASE Idle
  <2>1. CASE in_pct_rdy BY <1>1, <2>1 DEF Idle
  <2>2. CASE ~in_pct_rdy BY <1>1, <2>2 DEF Idle
  <2> QED BY <2>1, <2>2
<1>2. CASE RdHdr BY <1>2 DEF RdHdr
<1>3. CASE WaitCmprPipe BY <1>3 DEF WaitCmprPipe
<1>4. CASE CheckSmplNr BY <1>4 DEF CheckSmplNr
<1>5. CASE ClrFifo BY <1>5 DEF ClrFifo
<1>6. CASE SwitchNextBuff BY <1>6 DEF SwitchNextBuff
<1>7. CASE RdPct BY <1>7 DEF RdPct
<1>8. CASE WaitWrEnd BY <1>8 DEF WaitWrEnd
<1>9. CASE CheckNextBuf BY <1>9 DEF CheckNextBuf
<1>10. CASE SwitchCurrentBuff BY <1>10 DEF SwitchCurrentBuff
<1> QED BY <1>1, <1>2, <1>3, <1>4, <1>5, <1>6, <1>7, <1>8, <1>9, <1>10
        DEF Tick, WriterStep, WriterFsm

\* How many words have been taken after an edge.
LEMMA TickTaken ==
  ASSUME IInv, Tick
  PROVE  /\ w_state = "idle" => Taken' = 0 /\ wrreq_cnt' = 0
         /\ w_state # "idle" => wrreq_cnt' = Taken
         /\ w_state # "idle" /\ in_pct_rdreq => Taken' = Taken + 1
         /\ w_state # "idle" /\ ~in_pct_rdreq => Taken' = Taken
<1>1. w_state = "idle" => ~in_pct_rdreq
  BY DEF IInv, WriterInv, FlightOfState
<1> QED BY <1>1, TickCounters, WriterTypes DEF Taken, One

\* After an edge the input FIFO still holds what is left of the packet being
\* read, and a whole packet whenever p2d_wr_fsm starts on one.
LEMMA TickFifoOfState ==
  ASSUME IInv, Tick PROVE FifoOfState'
<1>1. sent' = sent /\ sent \in Nat
  BY WriterTypes, Sizes DEF Tick
<1>2. CASE w_state = "clr_fifo"
  <2>1. w_state' = "idle" /\ Len(fifo') = 0
    BY <1>2, TickState, TickFifo
  <2>2. Rest(PctWords)'
    BY <2>1, Sizes DEF Rest
  <2> QED BY <2>1, <2>2 DEF FifoOfState
<1>3. CASE w_state = "idle"
  <2>1. fifo' = fifo /\ Taken' = 0
    BY <1>3, TickFifo, TickTaken DEF IInv, WriterInv, FlightOfState
  <2>2. Rest(PctWords) \/ Rest(0)
    BY <1>3 DEF IInv, WriterInv, FifoOfState
  <2>3. CASE w_state' = "idle"
    BY <1>1, <2>1, <2>2, <2>3, Sizes DEF FifoOfState, Rest
  <2>4. CASE w_state' = "rd_hdr" /\ in_pct_rdy
    <3>1. Len(fifo) = PctWords
      BY <1>3, <2>4 DEF IInv, WriterInv, ReadyIsTrue
    <3>2. Rest(0)
      BY <2>2, <3>1, Sizes DEF Rest
    <3>3. Rest(Taken)'
      BY <1>1, <2>1, <3>2 DEF Rest
    <3> QED BY <2>4, <3>3 DEF FifoOfState, Rest
  <2> QED BY <1>3, <2>3, <2>4, TickState
<1>4. CASE w_state \notin {"clr_fifo", "idle"} /\ in_pct_rdreq
  <2>1. Taken' = Taken + 1 /\ Rest(Taken)
    BY <1>4, TickTaken, ReadFindsWord
  <2>2. Rest(Taken)'
    <3>1. /\ Len(fifo') = Len(fifo) - 1
          /\ \A i \in 1 .. Len(fifo') : fifo'[i] = fifo[i + 1]
      BY <1>4, TickFifo
    <3>2. /\ Len(fifo) = PctWords - Taken
          /\ \A i \in 1 .. Len(fifo) : fifo[i] = <<sent, Taken + i - 1>>
      BY <2>1 DEF Rest
    <3>3. Len(fifo') = PctWords - Taken'
      BY <2>1, <3>1, <3>2, WriterTypes, Sizes
    <3>4. \A i \in 1 .. Len(fifo') : fifo'[i] = <<sent', Taken' + i - 1>>
      <4> TAKE i \in 1 .. Len(fifo')
      <4>1. i \in Int /\ i + 1 \in 1 .. Len(fifo)
        BY <2>1, <3>2, <3>3, WriterTypes, Sizes
      <4>2. fifo'[i] = <<sent, Taken + (i + 1) - 1>>
        BY <3>1, <3>2, <4>1
      <4>3. Taken' + i - 1 = Taken + (i + 1) - 1
        BY <2>1, <4>1, WriterTypes
      <4> QED BY <1>1, <4>2, <4>3
    <3> QED BY <3>3, <3>4 DEF Rest
  <2>3. w_state' # "idle"
    BY <1>4, TickState DEF IInv, WriterInv, FlightOfState
  <2> QED BY <2>2, <2>3 DEF FifoOfState, Rest
<1>5. CASE w_state \notin {"clr_fifo", "idle"} /\ ~in_pct_rdreq
  <2>1. fifo' = fifo /\ Taken' = Taken
    BY <1>5, TickFifo, TickTaken
  <2>2. Rest(Taken) \/ (Taken = PctWords /\ Rest(0))
    BY <1>5 DEF IInv, WriterInv, FifoOfState
  <2>3. Rest(Taken)' \/ (Taken' = PctWords /\ Rest(0)')
    BY <1>1, <2>1, <2>2 DEF Rest
  <2>4. w_state' = "idle" => w_state = "switch_current_buff"
    BY <1>5, TickState
  <2>5. w_state' = "idle" => Taken' = PctWords
    BY <2>1, <2>4, <1>5, WriterTypes
       DEF IInv, WriterInv, InFlight, CountOfState, One
  <2> QED BY <2>3, <2>4, <2>5 DEF FifoOfState
<1> QED BY <1>2, <1>3, <1>4, <1>5

\* in_pct_rdy, a cycle old, is wrong only while the header is being taken.
LEMMA TickReadyIsTrue ==
  ASSUME IInv, Tick PROVE ReadyIsTrue'
<1> SUFFICES ASSUME in_pct_rdy'
             PROVE  \/ Len(fifo') = PctWords
                    \/ (w_state' = "wait_cmpr_pipe" /\ pipe_cnt' < 2)
  BY DEF ReadyIsTrue
<1>1. Len(fifo) >= PctWords
  BY DEF Tick, InPctRdy
<1>2. w_state # "clr_fifo"
  <2> SUFFICES ASSUME w_state = "clr_fifo" PROVE FALSE
    OBVIOUS
  <2>1. Taken = 1
    BY WriterTypes DEF IInv, WriterInv, CountOfState, FlightOfState, InFlight, One
  <2>2. Rest(Taken)
    BY <2>1, Sizes DEF IInv, WriterInv, FifoOfState
  <2> QED BY <1>1, <2>1, <2>2, Sizes DEF Rest
<1>3. CASE in_pct_rdreq
  <2>1. Taken = 0
    BY <1>1, <1>3, ReadFindsWord, WriterTypes, Sizes DEF Rest
  <2>2. w_state = "wait_cmpr_pipe" /\ pipe_cnt = 0
    BY <1>3, <2>1 DEF IInv, TypeOK, TypeOKWriter, WriterStates, WriterInv,
       CountOfState, FlightOfState
  <2> QED BY <2>2, TickState, TickCounters
<1>4. CASE ~in_pct_rdreq
  <2>1. fifo' = fifo
    BY <1>2, <1>4, TickFifo
  <2>2. \E n \in Nat : Rest(n)
    BY WriterTypes, Sizes DEF IInv, WriterInv, FifoOfState
  <2>3. PICK n \in Nat : Rest(n)
    BY <2>2
  <2>4. Len(fifo) \in {0, PctWords - n}
    BY <2>3 DEF Rest
  <2>5. Len(fifo) = PctWords
    BY <1>1, <2>4, Sizes
  <2> QED BY <2>1, <2>5
<1> QED BY <1>3, <1>4

\* The next word to arrive is the next word of the packet being read, and the
\* header register names that packet.
LEMMA TickWordArriving ==
  ASSUME IInv, Tick PROVE WordArriving'
<1>1. sent' = sent
  BY DEF Tick
<1>2. w_state # "idle" /\ Taken >= 1 /\ Taken < PctWords => pct_hdr' = sent
  <2> SUFFICES ASSUME w_state # "idle", Taken >= 1, Taken < PctWords
               PROVE  pct_hdr' = sent
    OBVIOUS
  <2>1. CASE in_pct_data_valid /\ wrreq_cnt = 0
    BY <2>1 DEF Tick, WriterStep, OutReg, HeaderArrives, IInv, WriterInv,
       WordArriving
  <2>2. CASE ~(in_pct_data_valid /\ wrreq_cnt = 0)
    <3>1. pct_hdr' = pct_hdr
      BY <2>2 DEF Tick, WriterStep, OutReg, HeaderArrives
    <3>2. wrreq_cnt >= 1
      BY <2>2, WriterTypes DEF Taken, One
    <3> QED BY <3>1, <3>2 DEF IInv, WriterInv, WordArriving
  <2> QED BY <2>1, <2>2
<1>3. in_pct_data_valid' =>
        /\ in_pct_q'[1] \in Pkts /\ in_pct_q'[2] = wrreq_cnt'
        /\ in_pct_q'[1] = IF wrreq_cnt' = 0 THEN sent' ELSE pct_hdr'
  <2> SUFFICES ASSUME in_pct_rdreq
               PROVE  /\ in_pct_q'[1] \in Pkts /\ in_pct_q'[2] = wrreq_cnt'
                      /\ in_pct_q'[1] = IF wrreq_cnt' = 0 THEN sent' ELSE pct_hdr'
    BY TickCounters
  <2>1. in_pct_q' = <<sent, Taken>> /\ sent \in Pkts
    BY TickFifo, ReadFindsWord
  <2>2. wrreq_cnt' = Taken /\ w_state # "idle" /\ Taken < PctWords
    BY TickTaken, ReadFindsWord
  <2> QED BY <1>1, <1>2, <2>1, <2>2, WriterTypes
<1>4. w_state' # "idle" /\ wrreq_cnt' >= 1 /\ Taken' < PctWords
        => pct_hdr' = sent'
  <2>1. w_state = "idle" => wrreq_cnt' = 0
    BY TickTaken
  <2>2. w_state # "idle" => wrreq_cnt' = Taken /\ Taken' >= Taken
    BY TickTaken, WriterTypes
  <2>3. CASE w_state = "idle"
    BY <2>1, <2>3
  <2>4. CASE w_state # "idle"
    <3> SUFFICES ASSUME wrreq_cnt' >= 1, Taken' < PctWords
                 PROVE  pct_hdr' = sent
      BY <1>1
    <3> QED BY <1>2, <2>2, <2>4, TickTaken, WriterTypes, Sizes
  <2> QED BY <2>3, <2>4
<1> QED BY <1>3, <1>4 DEF WordArriving

\* What p2d_wr_fsm puts on pct_data for a buffer is a payload word.
LEMMA TickPayloadOnly ==
  ASSUME IInv, Tick PROVE PayloadOnly'
<1> SUFFICES ASSUME pct_data_wrreq' \in Buffers
             PROVE  pct_data'[1] \in Pkts /\ pct_data'[2] \in 1 .. PctWords - 1
  BY DEF PayloadOnly, Buffers
<1>1. NoBuffer \notin Buffers
  BY Sizes DEF NoBuffer, Buffers
<1>2. in_pct_data_valid /\ wrreq_cnt > 0
  BY <1>1 DEF Tick, WriterStep, OutReg, PayloadArrives
<1>3. pct_data' = in_pct_q
  BY <1>2 DEF Tick, WriterStep, OutReg, PayloadArrives
<1>4. in_pct_q[1] \in Pkts /\ in_pct_q[2] = wrreq_cnt
  BY <1>2 DEF IInv, WriterInv, WordArriving
<1>5. wrreq_cnt + 1 <= w_rd_cnt
  BY <1>2, WriterTypes DEF IInv, WriterInv, InFlight, Taken, One
<1> QED BY <1>2, <1>3, <1>4, <1>5, WriterTypes, Sizes

\* The read FSM stops after RdWords reads, held up by almost_full or not.
LEMMA TickReadCount ==
  ASSUME IInv, Tick PROVE ReadCount' /\ r_rd_cnt' \in 0 .. RdWords
<1>0. r_rd_cnt \in 0 .. RdWords /\ (r_state = "rd_buff" => r_rd_cnt < RdWords)
      /\ (r_state = "rd_hold" => r_rd_cnt < RdWords)
  BY DEF IInv, TypeOK, TypeOKReader, ReadCount
<1> USE <1>0, Sizes DEF GotoR, ReadCount, RdCnt, RdReq
<1>1. CASE IdleR BY <1>1 DEF IdleR, Tick, ReaderStep
<1>2. CASE ClrBuff BY <1>2 DEF ClrBuff, Tick, ReaderStep
<1>3. CASE RdBuff
  <2>1. CASE almost_full BY <1>3, <2>1 DEF RdBuff, Tick, ReaderStep
  <2>2. CASE ~almost_full BY <1>3, <2>2 DEF RdBuff, Tick, ReaderStep
  <2> QED BY <2>1, <2>2
<1>4. CASE RdHold BY <1>4 DEF RdHold, Tick, ReaderStep
<1>5. CASE SwitchNextBuffR BY <1>5 DEF SwitchNextBuffR, Tick, ReaderStep
<1>6. CASE CheckNextBufR BY <1>6 DEF CheckNextBufR, Tick, ReaderStep
<1> QED BY <1>1, <1>2, <1>3, <1>4, <1>5, <1>6 DEF Tick, ReaderStep, ReaderFsm

\* An edge keeps the types of the registers of p2d_wr_fsm.
LEMMA TickTypeOKWriter ==
  ASSUME IInv, Tick PROVE TypeOKWriter'
<1>1. w_state' \in WriterStates /\ w_rd_cnt' \in 0 .. PctWords
  BY TickState, TickCountOfState
<1>2. /\ current_buff_cnt' \in Buffers /\ next_buff_cnt' \in Buffers
  BY Sizes DEF IInv, TypeOK, TypeOKWriter, Tick, WriterStep, NextBuffSel,
     CurrentBuffSel, NextBuffer, Buffers
<1>3. /\ current_buff_rdy' \in BOOLEAN /\ next_buff_rdy' \in BOOLEAN
  BY DEF IInv, TypeOK, TypeOKSignals, TypeOKWriter, Tick, WriterStep,
     NextBuffSel, CurrentBuffSel
<1>4. pipe_cnt' \in 0 .. 5
  BY TickCounters, WriterTypes DEF IInv, WriterInv, FlightOfState
<1>5. wrreq_cnt' \in 0 .. PctWords
  BY TickTaken, WriterTypes, Sizes DEF IInv, WriterInv, InFlight, One
<1>6. in_pct_data_valid' \in BOOLEAN
  BY WriterTypes DEF Tick, WriterStep, WriteCounter
<1>7. in_pct_rdreq' \in BOOLEAN /\ in_pct_reset_n_req' \in BOOLEAN
  BY DEF Tick, WriterStep, OutReg
<1>8. less_pipe' \in [1 .. 3 -> BOOLEAN]
  BY DEF IInv, TypeOK, TypeOKWriter, Tick, WriterStep, ComparePipe
<1> QED BY <1>1, <1>2, <1>3, <1>4, <1>5, <1>6, <1>7, <1>8 DEF TypeOKWriter

\* An edge keeps the types of the registers of p2d_rd.
LEMMA TickTypeOKReader ==
  ASSUME IInv, Tick PROVE TypeOKReader'
<1>1. r_state' \in ReaderStates
  BY DEF Tick, ReaderStep, ReaderFsm, IdleR, ClrBuff, RdBuff, RdHold,
     SwitchNextBuffR, CheckNextBufR, GotoR, ReaderStates
<1>2. crnt_buff_cnt' \in Buffers
  BY Sizes DEF IInv, TypeOK, TypeOKReader, Tick, ReaderStep, CrntBuffSel,
     NextBuffer, Buffers
<1>3. crnt_buff_rdy' \in BOOLEAN
  BY DEF IInv, TypeOK, TypeOKReader, TypeOKSignals, Tick, ReaderStep, CrntBuffSel
<1>4. crnt_buff_pct_synch_dis' \in BOOLEAN
  BY DEF Tick, ReaderStep, CrntBuffSel
<1>5. crnt_buff_cmp' \in Phases
  BY DEF IInv, TypeOK, TypeOKReader, Tick, ReaderStep, CrntBuffSel
<1>6. hdr_array' \in [Buffers -> Pkts \cup {NoPkt}]
  BY DEF IInv, TypeOK, TypeOKReader, TypeOKSignals, Tick, ReaderStep, HdrCapture
<1>7. cmp_pipe' \in [Buffers -> [1 .. 3 -> Phases]]
  <2>1. \A b \in Buffers : Compare(hdr_array[b]) \in Phases
    BY DEF IInv, TypeOK, TypeOKReader, TypeOKSignals, Compare, Phases
  <2> QED BY <2>1 DEF IInv, TypeOK, TypeOKReader, Tick, ReaderStep, Comparators
<1> QED BY <1>1, <1>2, <1>3, <1>4, <1>5, <1>6, <1>7, TickReadCount
        DEF TypeOKReader

\* The 64-bit words of a payload word are words a buffer may hold.
LEMMA SplitType ==
  ASSUME NEW w, w[1] \in Pkts, w[2] \in 1 .. PctWords - 1
  PROVE  Split(w) \in Seq(Pkts \X (1 .. RdWords))
<1> DEFINE piece(i) == <<w[1], (w[2] - 1) * RdPerWr + i>>
<1>1. \A i \in 1 .. RdPerWr : piece(i) \in Pkts \X (1 .. RdWords)
  BY PieceBound
<1>2. Split(w) = [i \in 1 .. RdPerWr |-> piece(i)]
  BY DEF Split
<1> HIDE DEF piece
<1> QED BY <1>1, <1>2, Sizes

\* An edge leaves nothing but payload words of the host in the buffers.
LEMMA TickBuffers ==
  ASSUME IInv, Tick
  PROVE  /\ buf' \in [Buffers -> Seq(Pkts \X (1 .. RdWords))]
         /\ buf_q' \in [Buffers -> Pieces]
<1> DEFINE P == Pkts \X (1 .. RdWords)
<1>1. buf \in [Buffers -> Seq(P)] /\ buf_q \in [Buffers -> Pieces]
  BY DEF IInv, TypeOK, TypeOKSignals
<1>2. \A b \in Buffers : buf[b] # <<>> =>
        Head(buf[b]) \in P /\ Tail(buf[b]) \in Seq(P)
  BY <1>1, HeadTailProperties
<1>3. P \subseteq Pieces
  BY Sizes DEF Pieces
<1>4. \A b \in Buffers : AfterRead(b) \in Seq(P)
  BY <1>1, <1>2 DEF AfterRead
<1>5. \A b \in Buffers : pct_data_wrreq = b =>
        AfterRead(b) \o Split(pct_data) \in Seq(P)
  <2> SUFFICES ASSUME NEW b \in Buffers, pct_data_wrreq = b
               PROVE  AfterRead(b) \o Split(pct_data) \in Seq(P)
    OBVIOUS
  <2>1. Split(pct_data) \in Seq(P)
    BY SplitType DEF IInv, PayloadOnly
  <2> QED BY <1>4, <2>1, ConcatProperties
<1>6. <<>> \in Seq(P)
  BY EmptySeq
<1>7. buf' \in [Buffers -> Seq(P)]
  BY <1>4, <1>5, <1>6 DEF Tick, Fifos
<1>8. buf_q' \in [Buffers -> Pieces]
  BY <1>1, <1>2, <1>3 DEF Tick, Fifos
<1> QED BY <1>7, <1>8

\* An edge keeps the types of the signals between the two FSMs.
LEMMA TickTypeOKSignals ==
  ASSUME IInv, Tick PROVE TypeOKSignals'
<1>1. /\ phase' \in [Pkts -> Phases] /\ nosync' \subseteq Pkts
      /\ pct_sync_dis' \in BOOLEAN /\ almost_full' \in BOOLEAN
  BY DEF IInv, TypeOK, TypeOKSignals, Tick
<1>2. in_pct_rdy' \in BOOLEAN
  BY DEF Tick, InPctRdy
<1>3. in_pct_q' \in Words
  <2>1. CASE in_pct_rdreq
    <3>1. in_pct_q' = <<sent, Taken>> /\ sent \in Pkts /\ Taken \in 0 .. PctWords - 1
      BY <2>1, TickFifo, ReadFindsWord, WriterTypes, Sizes
    <3> QED BY <3>1 DEF Words
  <2>2. CASE ~in_pct_rdreq
    BY <2>2, TickFifo DEF IInv, TypeOK, TypeOKSignals
  <2> QED BY <2>1, <2>2
<1>4. wrempty' \in [Buffers -> BOOLEAN]
  BY DEF IInv, TypeOK, TypeOKSignals, Tick, Fifos
<1>5. pct_hdr' \in Pkts \cup {NoPkt}
  BY DEF IInv, TypeOK, TypeOKSignals, Words, Tick, WriterStep, OutReg
<1>6. pct_hdr_valid' \in Buffers \cup {NoBuffer}
  BY DEF IInv, TypeOK, TypeOKWriter, Tick, WriterStep, OutReg
<1>7. pct_data' \in Words
  BY DEF IInv, TypeOK, TypeOKSignals, Tick, WriterStep, OutReg
<1>8. pct_data_wrreq' \in Buffers \cup {NoBuffer}
  BY DEF IInv, TypeOK, TypeOKWriter, Tick, WriterStep, OutReg
<1>9. buff_rdy' \in [Buffers -> BOOLEAN]
  BY DEF IInv, TypeOK, Tick, PctBuffRdy
<1> QED BY <1>1, <1>2, <1>3, <1>4, <1>5, <1>6, <1>7, <1>8, <1>9, TickBuffers
        DEF TypeOKSignals

\* A packet the writer throws away is one the host sent.
LEMMA WriterDropType ==
  ASSUME IInv, Tick PROVE WriterDrop \subseteq Pkts
<1> SUFFICES ASSUME w_state' = "clr_fifo" PROVE pct_hdr \in Pkts
  BY DEF WriterDrop
<1>1. w_state = "check_smpl_nr"
  BY TickState
<1>2. Taken = 1 /\ wrreq_cnt = 1
  BY <1>1, WriterTypes
     DEF IInv, WriterInv, CountOfState, FlightOfState, InFlight, Taken, One
<1>3. pct_hdr = sent
  BY <1>1, <1>2, Sizes DEF IInv, WriterInv, WordArriving
<1>4. Rest(1)
  BY <1>1, <1>2, Sizes DEF IInv, WriterInv, FifoOfState
<1>5. Len(fifo) \in Nat /\ 1 \in 1 .. Len(fifo)
  BY <1>4, Sizes DEF Rest
<1>6. fifo[1][1] = sent
  BY <1>4, <1>5 DEF Rest
<1>7. fifo[1] \in Pkts \X (0 .. PctWords - 1)
  BY <1>5, ElementOfSeq DEF IInv, TypeOK
<1> QED BY <1>3, <1>6, <1>7

\* A packet the reader throws away is one the host sent.
LEMMA ReaderDropType ==
  ASSUME IInv PROVE ReaderDrop \subseteq Pkts
<1> SUFFICES ASSUME buf[crnt_buff_cnt] # <<>>
             PROVE  Head(buf[crnt_buff_cnt])[1] \in Pkts
  BY DEF ReaderDrop
<1>1. buf[crnt_buff_cnt] \in Seq(Pkts \X (1 .. RdWords))
  BY DEF IInv, TypeOK, TypeOKSignals, TypeOKReader
<1>2. Head(buf[crnt_buff_cnt]) \in Pkts \X (1 .. RdWords)
  BY <1>1, HeadTailProperties
<1> QED BY <1>2

\* An edge keeps the type invariant.
LEMMA TickTypeOK ==
  ASSUME IInv, Tick PROVE TypeOK'
<1>1. fifo' \in Seq(Pkts \X (0 .. PctWords - 1)) /\ sent' \in 0 .. MaxPkts
  BY TickFifo DEF IInv, TypeOK, Tick
<1>2. level' \in [Buffers -> Levels]
  BY DEF IInv, TypeOK, Tick, Fifos
<1>3. /\ smpl_buff_valid_int' \in BOOLEAN /\ smpl_buff_valid' \in BOOLEAN
      /\ smpl_buff_q' \in Pieces /\ last_out' \in Pieces
  BY DEF IInv, TypeOK, TypeOKReader, Tick, OutPipe, RdReq
<1>4. pct_data_clr' \in BOOLEAN /\ in_pct_clr_flag' \in BOOLEAN
  BY DEF IInv, TypeOK, TypeOKWriter, Tick, ClrFlag
<1>5. dropped' \subseteq Pkts
  BY WriterDropType, ReaderDropType DEF IInv, TypeOK, Tick
<1> QED BY <1>1, <1>2, <1>3, <1>4, <1>5, TickBuffers, TickTypeOKSignals,
           TickTypeOKWriter, TickTypeOKReader DEF TypeOK

\* A rising edge of tx_clk preserves the invariant.
LEMMA TickStep ==
  ASSUME IInv, Tick PROVE IInv'
<1> QED BY TickTypeOK, TickInFlight, TickCountOfState, TickFifoOfState,
           TickReadyIsTrue, TickWordArriving, TickPayloadOnly, TickReadCount
        DEF IInv, WriterInv

-----------------------------------------------------------------------------
\* What happens between two edges.

\* Everything the invariant says beyond the types is about these variables.
LEMMA BetweenEdges ==
  ASSUME IInv,
         UNCHANGED <<fifo, sent, in_pct_rdy, in_pct_q, pct_hdr, pct_data,
                     pct_data_wrreq, r_state, r_rd_cnt, writerVars>>
  PROVE  WriterInv' /\ PayloadOnly' /\ ReadCount'
<1> USE DEF writerVars
<1>1. Taken' = Taken
  BY DEF Taken
<1>2. InFlight' /\ CountOfState' /\ FlightOfState'
  BY <1>1 DEF IInv, WriterInv, InFlight, CountOfState, FlightOfState
<1>3. Rest(Taken)' = Rest(Taken) /\ Rest(0)' = Rest(0)
      /\ Rest(PctWords)' = Rest(PctWords)
  BY <1>1 DEF Rest
<1>4. FifoOfState'
  BY <1>1, <1>3 DEF IInv, WriterInv, FifoOfState
<1>5. ReadyIsTrue' /\ WordArriving'
  BY <1>1 DEF IInv, WriterInv, ReadyIsTrue, WordArriving
<1>6. PayloadOnly' /\ ReadCount'
  BY DEF IInv, PayloadOnly, ReadCount
<1> QED BY <1>2, <1>4, <1>5, <1>6 DEF WriterInv

\* The host's next packet arrives only when nothing of the last one is left.
LEMMA LoadStep ==
  ASSUME IInv, Load PROVE IInv'
<1> USE DEF writerVars, readerVars
<1>1. /\ fifo = <<>> /\ sent < MaxPkts /\ sent' = sent + 1
      /\ fifo' = [i \in 1 .. PctWords |-> <<sent + 1, i - 1>>]
  BY DEF Load
<1>2. Len(fifo) = 0
  BY <1>1
<1>3. sent + 1 \in Pkts
  BY <1>1, WriterTypes, Sizes DEF Pkts
<1>4. fifo' \in Seq(Pkts \X (0 .. PctWords - 1)) /\ Len(fifo') = PctWords
  <2>1. \A i \in 1 .. PctWords : <<sent + 1, i - 1>> \in Pkts \X (0 .. PctWords - 1)
    BY <1>3, Sizes
  <2> QED BY <1>1, <2>1, Sizes
<1>5. w_state # "idle" => Taken = PctWords
  BY <1>2, WriterTypes, Sizes DEF IInv, WriterInv, FifoOfState, Rest
<1>6. Taken' = Taken
  BY DEF Load, Taken
<1>7. Rest(0)'
  <2>1. \A i \in 1 .. Len(fifo') : fifo'[i] = <<sent', 0 + i - 1>>
    <3> TAKE i \in 1 .. Len(fifo')
    <3>1. i \in 1 .. PctWords /\ 0 + i - 1 = i - 1
      BY <1>4, Sizes
    <3> QED BY <1>1, <3>1
  <2> QED BY <1>4, <2>1, Sizes DEF Rest
<1>8. FifoOfState'
  BY <1>5, <1>6, <1>7 DEF Load, FifoOfState
<1>9. ReadyIsTrue'
  BY <1>4 DEF ReadyIsTrue
<1>10. InFlight' /\ CountOfState' /\ FlightOfState'
  BY <1>6 DEF Load, IInv, WriterInv, InFlight, CountOfState, FlightOfState
<1>11. WordArriving'
  <2>1. in_pct_data_valid => w_state # "idle"
    BY DEF IInv, WriterInv, FlightOfState
  <2>2. in_pct_data_valid => wrreq_cnt # 0
    BY <1>5, <2>1, WriterTypes, Sizes DEF Taken, One
  <2>3. in_pct_data_valid =>
          /\ in_pct_q[1] \in Pkts /\ in_pct_q[2] = wrreq_cnt
          /\ in_pct_q[1] = pct_hdr
    BY <2>2 DEF IInv, WriterInv, WordArriving
  <2>4. w_state # "idle" => ~(Taken < PctWords)
    BY <1>5, Sizes
  <2>5. UNCHANGED <<w_state, in_pct_data_valid, in_pct_q, wrreq_cnt, pct_hdr>>
    BY DEF Load
  <2> QED BY <1>6, <2>2, <2>3, <2>4, <2>5 DEF WordArriving
<1>12. PayloadOnly' /\ ReadCount'
  BY DEF Load, IInv, PayloadOnly, ReadCount
<1>13. TypeOKSignals'
  BY <1>3 DEF Load, IInv, TypeOK, TypeOKSignals, Phases
<1>14. TypeOKWriter' /\ TypeOKReader'
  BY DEF Load, IInv, TypeOK, TypeOKWriter, TypeOKReader
<1>15. TypeOK'
  BY <1>1, <1>3, <1>4, <1>13, <1>14 DEF Load, IInv, TypeOK, Pkts
<1> QED BY <1>8, <1>9, <1>10, <1>11, <1>12, <1>15 DEF IInv, WriterInv

\* A fill level becomes visible.
LEMMA SeeStep ==
  ASSUME IInv, NEW b \in Buffers, SeeWords(b) \/ SeeEmpty(b) PROVE IInv'
<1>1. WriterInv' /\ PayloadOnly' /\ ReadCount'
  BY BetweenEdges
     DEF SeeWords, SeeEmpty, signalVars, writerVars, readerVars, pathVars
<1>2. CASE SeeWords(b)
  <2>1. TypeOKSignals' /\ TypeOKWriter' /\ TypeOKReader'
    BY <1>2 DEF SeeWords, signalVars, writerVars, readerVars, IInv, TypeOK,
                TypeOKSignals, TypeOKWriter, TypeOKReader
  <2>2. level' \in [Buffers -> Levels]
    BY <1>2 DEF SeeWords, IInv, TypeOK, Levels
  <2> QED BY <1>1, <1>2, <2>1, <2>2 DEF SeeWords, IInv, TypeOK
<1>3. CASE SeeEmpty(b)
  <2>1. TypeOKSignals'
    BY <1>3 DEF SeeEmpty, IInv, TypeOK, TypeOKSignals
  <2>2. TypeOKWriter' /\ TypeOKReader'
    BY <1>3 DEF SeeEmpty, writerVars, readerVars, IInv, TypeOK, TypeOKWriter,
                TypeOKReader
  <2> QED BY <1>1, <1>3, <2>1, <2>2 DEF SeeEmpty, pathVars, IInv, TypeOK
<1> QED BY <1>2, <1>3

\* The sample counter and the sample FIFO move.
LEMMA OutsideStep ==
  ASSUME IInv, FillUp \/ Drain \/ \E p \in Pkts : Advance(p)
  PROVE  IInv'
<1>1. UNCHANGED <<nosync, pct_sync_dis, in_pct_rdy, in_pct_q, wrempty, pct_hdr,
                  pct_hdr_valid, pct_data, pct_data_wrreq, buff_rdy, buf,
                  writerVars, readerVars, pathVars>>
  BY DEF FillUp, Drain, Advance
<1>2. WriterInv' /\ PayloadOnly' /\ ReadCount'
  BY <1>1, BetweenEdges DEF readerVars, pathVars
<1>3. phase' \in [Pkts -> Phases] /\ almost_full' \in BOOLEAN
  BY DEF FillUp, Drain, Advance, IInv, TypeOK, TypeOKSignals, Phases
<1>4. TypeOKSignals'
  BY <1>1, <1>3 DEF IInv, TypeOK, TypeOKSignals
<1>5. TypeOKWriter' /\ TypeOKReader'
  BY <1>1 DEF writerVars, readerVars, IInv, TypeOK, TypeOKWriter, TypeOKReader
<1>6. TypeOK'
  BY <1>1, <1>4, <1>5 DEF pathVars, IInv, TypeOK
<1> QED BY <1>2, <1>6 DEF IInv

\* A step of something else preserves the invariant.
LEMMA StutterStep ==
  ASSUME IInv, UNCHANGED vars PROVE IInv'
<1>1. WriterInv' /\ PayloadOnly' /\ ReadCount'
  BY BetweenEdges DEF vars, signalVars, writerVars, readerVars, pathVars
<1>2. TypeOKSignals' /\ TypeOKWriter' /\ TypeOKReader'
  BY SMTT(30) DEF vars, signalVars, writerVars, readerVars, IInv, TypeOK,
         TypeOKSignals, TypeOKWriter, TypeOKReader
<1> QED BY <1>1, <1>2 DEF vars, pathVars, IInv, TypeOK

-----------------------------------------------------------------------------
\* After reset the shared signals have their types.
LEMMA InitTypeOKSignals ==
  ASSUME Init PROVE TypeOKSignals
<1>1. <<NoPkt, 0>> \in Words /\ <<>> \in Seq(Pkts \X (1 .. RdWords))
  BY Sizes, EmptySeq DEF Words
<1>2. pct_sync_dis \in BOOLEAN
  BY SyncModesAssumption DEF Init
<1> QED BY <1>1, <1>2 DEF Init, InitWriter, TypeOKSignals, Phases

\* After reset the registers of p2d_wr_fsm have their types.
LEMMA InitTypeOKWriter ==
  ASSUME Init PROVE TypeOKWriter
<1>1. 0 \in Buffers /\ 0 \in 0 .. PctWords /\ 0 \in 0 .. 5
  BY Sizes DEF Buffers
<1>2. InitWriter
  BY DEF Init
<1>3. less_pipe \in [1 .. 3 -> BOOLEAN]
  BY <1>2 DEF InitWriter
<1> QED BY <1>1, <1>2, <1>3 DEF InitWriter, TypeOKWriter, WriterStates

\* After reset the registers of p2d_rd have their types.
LEMMA InitTypeOKReader ==
  ASSUME Init PROVE TypeOKReader
<1>1. 0 \in Buffers /\ 0 \in 0 .. RdWords
  BY Sizes DEF Buffers
<1>2. InitReader
  BY DEF Init
<1>3. cmp_pipe \in [Buffers -> [1 .. 3 -> Phases]]
  BY <1>2 DEF InitReader, Phases
<1>4. hdr_array \in [Buffers -> Pkts \cup {NoPkt}]
  BY <1>2 DEF InitReader
<1> QED BY <1>1, <1>2, <1>3, <1>4 DEF InitReader, TypeOKReader, ReaderStates, Phases

\* The invariant holds after reset.
LEMMA InitIInv ==
  ASSUME Init PROVE IInv
<1>1. TypeOK
  <2>1. <<>> \in Seq(Pkts \X (0 .. PctWords - 1)) /\ 0 \in 0 .. MaxPkts
    BY EmptySeq, Sizes
  <2>2. <<NoPkt, 0>> \in Pieces /\ <<NoPkt, RdWords>> \in Pieces
    BY Sizes DEF Pieces
  <2>3. level \in [Buffers -> Levels] /\ buf_q \in [Buffers -> Pieces]
    BY <2>2 DEF Init, Levels
  <2> QED BY <2>1, <2>2, <2>3, InitTypeOKSignals, InitTypeOKWriter,
             InitTypeOKReader DEF Init, TypeOK
<1>2. /\ w_state = "idle" /\ w_rd_cnt = 0 /\ wrreq_cnt = 0
      /\ ~in_pct_rdreq /\ ~in_pct_data_valid /\ ~in_pct_rdy
      /\ pct_data_wrreq = NoBuffer /\ r_state = "idle" /\ fifo = <<>>
  BY DEF Init, InitWriter, InitReader
<1>3. Rest(PctWords)
  BY <1>2, Sizes DEF Rest
<1>4. WriterInv
  BY <1>2, <1>3 DEF WriterInv, InFlight, CountOfState, FlightOfState,
     FifoOfState, ReadyIsTrue, WordArriving, Taken, One
<1>5. PayloadOnly /\ ReadCount
  BY <1>2, Sizes DEF PayloadOnly, ReadCount, NoBuffer, Buffers
<1> QED BY <1>1, <1>4, <1>5 DEF IInv

\* IInv is an invariant: every reachable state of the TX packet path, for any
\* number of buffers, any packet size, any read ratio and any number of
\* packets, satisfies it.
THEOREM InvariantHolds == Spec => []IInv
<1>1. Init => IInv
  BY InitIInv
<1>2. IInv /\ [Next]_vars => IInv'
  BY TickStep, LoadStep, SeeStep, OutsideStep, StutterStep DEF Next
<1> QED BY <1>1, <1>2, PTL DEF Spec

\* Every register of the path keeps its type: no counter of packets2data,
\* p2d_wr_fsm or p2d_rd leaves its range and nothing but whole payload words
\* of packets the host sent is ever in a buffer.
THEOREM TypeCorrect == Spec => []TypeOK
<1>1. IInv => TypeOK
  BY DEF IInv
<1> QED BY <1>1, InvariantHolds, PTL

\* p2d_wr_fsm never loses its place in the packet stream: the word it latches
\* as a header is word 0 of a packet and every word it stores as payload is
\* the next word of the packet whose header it holds, whatever the reader,
\* the sample counter and the input FIFO do.
THEOREM FramingHolds == Spec => []Framing
<1>1. IInv => Framing
  <2> SUFFICES ASSUME IInv PROVE Framing
    OBVIOUS
  <2>1. HeaderArrives => in_pct_q[2] = 0
    BY DEF HeaderArrives, IInv, WriterInv, WordArriving
  <2>2. PayloadArrives => in_pct_q = <<pct_hdr, wrreq_cnt>>
    BY DEF PayloadArrives, IInv, TypeOK, TypeOKSignals, Words, WriterInv,
           WordArriving
  <2> QED BY <2>1, <2>2 DEF Framing
<1> QED BY <1>1, InvariantHolds, PTL

-----------------------------------------------------------------------------
(* The ring.                                                               *)

\* The buffer counters go round without leaving a buffer out.
LEMMA NextBufferFacts ==
  /\ \A b \in Buffers : NextBuffer(b) \in Buffers /\ NextBuffer(b) # b
  /\ \A a, b \in Buffers : NextBuffer(a) = NextBuffer(b) => a = b
  /\ NoBuffer \notin Buffers
BY NBuffAssumption DEF NextBuffer, Buffers, NoBuffer

\* The oldest packet leaves the ring, read out or thrown away.
LEMMA RingTake ==
  ASSUME NEW O \in SUBSET Buffers, NEW h \in [Buffers -> Nat], NEW nx \in Buffers,
         NEW t \in O, NEW dr, NEW dr2, NEW m \in Nat,
         Ring(O, h, nx, t, dr, m),
         dr \subseteq dr2, dr2 \subseteq dr \cup {h[t]}
  PROVE  /\ Ring(O \ {t}, h, nx, NextBuffer(t), dr2, m)
         /\ After(O \ {t}, h, NextBuffer(t), dr2, m, h[t])
         /\ \A v \in Nat : After(O, h, t, dr, m, v) /\ h[t] \in dr2 =>
              After(O \ {t}, h, NextBuffer(t), dr2, m, v)
<1> DEFINE s == NextBuffer(t)
<1>1. /\ t \in Buffers /\ s \in Buffers /\ s # t /\ h[t] \in Nat
      /\ \A b \in O : b \in Buffers /\ h[b] \in Nat
      /\ h[t] \in 1 .. m
  BY NextBufferFacts DEF Ring
<1>2. \A b \in O \ {t} : h[b] # h[t] /\ h[b] >= h[t] /\ h[b] > h[t]
  BY <1>1 DEF Ring
<1>3. \A b \in O \ {t} : h[b] \in (1 .. m) \ dr2
  BY <1>2 DEF Ring
<1>4. CASE s = nx
  <2>1. h[t] + 1 .. m \subseteq dr
    BY <1>4 DEF Ring
  <2>2. O \ {t} = {}
    <3> SUFFICES ASSUME NEW b \in O \ {t} PROVE FALSE
      OBVIOUS
    <3>1. h[b] \in h[t] + 1 .. m /\ h[b] \notin dr
      BY <1>1, <1>2 DEF Ring
    <3> QED BY <2>1, <3>1
  <2>3. After(O \ {t}, h, s, dr2, m, h[t])
    BY <1>1, <2>1, <2>2 DEF After
  <2>4. ASSUME NEW v \in Nat, After(O, h, t, dr, m, v), h[t] \in dr2
        PROVE  After(O \ {t}, h, s, dr2, m, v)
    <3>1. v < h[t] /\ v + 1 .. h[t] - 1 \subseteq dr
      BY <2>4 DEF After, Gap
    <3>2. v + 1 .. m \subseteq dr2
      <4> SUFFICES ASSUME NEW i \in v + 1 .. m PROVE i \in dr2
        OBVIOUS
      <4>1. i \in v + 1 .. h[t] - 1 \/ i = h[t] \/ i \in h[t] + 1 .. m
        BY <1>1
      <4> QED BY <2>1, <2>4, <3>1, <4>1
    <3> QED BY <1>1, <2>2, <3>1, <3>2 DEF After
  <2>5. Ring(O \ {t}, h, nx, s, dr2, m)
    BY <1>4, <2>2 DEF Ring
  <2> QED BY <2>3, <2>4, <2>5
<1>5. CASE s # nx
  <2>1. s \in O \ {t} /\ h[t] < h[s] /\ h[t] + 1 .. h[s] - 1 \subseteq dr
    BY <1>1, <1>5 DEF Ring, Gap
  <2>2. \A b \in O \ {t} : h[s] <= h[b]
    <3> SUFFICES ASSUME NEW b \in O \ {t}, h[b] < h[s] PROVE FALSE
      BY <1>1, <2>1
    <3>1. h[b] \in h[t] + 1 .. h[s] - 1 /\ h[b] \notin dr
      BY <1>1, <1>2, <2>1 DEF Ring
    <3> QED BY <2>1, <3>1
  <2>3. After(O \ {t}, h, s, dr2, m, h[t])
    BY <2>1 DEF After, Gap
  <2>4. ASSUME NEW v \in Nat, After(O, h, t, dr, m, v), h[t] \in dr2
        PROVE  After(O \ {t}, h, s, dr2, m, v)
    <3>1. v < h[t] /\ v + 1 .. h[t] - 1 \subseteq dr
      BY <2>4 DEF After, Gap
    <3>2. v + 1 .. h[s] - 1 \subseteq dr2
      <4> SUFFICES ASSUME NEW i \in v + 1 .. h[s] - 1 PROVE i \in dr2
        OBVIOUS
      <4>1. i \in v + 1 .. h[t] - 1 \/ i = h[t] \/ i \in h[t] + 1 .. h[s] - 1
        BY <1>1, <2>1
      <4> QED BY <2>1, <2>4, <3>1, <4>1
    <3>3. v < h[s]
      BY <1>1, <2>1, <3>1
    <3> QED BY <2>1, <3>2, <3>3 DEF After, Gap
  <2>5. ASSUME NEW b \in O \ {t}
        PROVE  IF NextBuffer(b) = nx THEN h[b] + 1 .. m \subseteq dr2
               ELSE NextBuffer(b) \in O \ {t} /\ Gap(h[b], h[NextBuffer(b)], dr2)
    <3>1. CASE NextBuffer(b) = nx
      BY <3>1 DEF Ring
    <3>2. CASE NextBuffer(b) # nx
      <4>1. NextBuffer(b) \in O /\ Gap(h[b], h[NextBuffer(b)], dr)
        BY <3>2 DEF Ring
      <4>2. NextBuffer(b) # t
        BY <1>1, <1>2, <4>1 DEF Gap
      <4> QED BY <3>2, <4>1, <4>2 DEF Gap
    <3> QED BY <3>1, <3>2
  <2>6. \A a, b \in O \ {t} : h[a] = h[b] => a = b
    BY DEF Ring
  <2>7. Ring(O \ {t}, h, nx, s, dr2, m)
    BY <1>3, <2>1, <2>2, <2>5, <2>6 DEF Ring
  <2> QED BY <2>3, <2>4, <2>7
<1> QED BY <1>4, <1>5

\* A packet is put behind the youngest one.
LEMMA RingPut ==
  ASSUME NEW O \in SUBSET Buffers, NEW h \in [Buffers -> Nat], NEW h2 \in [Buffers -> Nat],
         NEW nx \in Buffers, NEW t \in Buffers, NEW dr, NEW m \in Nat,
         Ring(O, h, nx, t, dr, m), nx \notin O, m + 1 \notin dr,
         h2[nx] = m + 1, \A b \in O : h2[b] = h[b]
  PROVE  /\ Ring(O \cup {nx}, h2, NextBuffer(nx), t, dr, m + 1)
         /\ \A v \in Nat : After(O, h, t, dr, m, v) =>
              After(O \cup {nx}, h2, t, dr, m + 1, v)
<1> DEFINE P == O \cup {nx}
<1>1. /\ \A b \in O : b \in Buffers /\ h[b] \in Nat /\ h[b] \in (1 .. m) \ dr /\ h[b] < m + 1
      /\ NextBuffer(nx) # nx
      /\ \A b \in O : NextBuffer(b) # NextBuffer(nx)
  BY NextBufferFacts DEF Ring
<1>2. \A b \in P : h2[b] \in (1 .. m + 1) \ dr
  BY <1>1
<1>3. \A a, b \in P : h2[a] = h2[b] => a = b
  BY <1>1 DEF Ring
<1>4. ASSUME NEW b \in P
      PROVE  IF NextBuffer(b) = NextBuffer(nx) THEN h2[b] + 1 .. m + 1 \subseteq dr
             ELSE NextBuffer(b) \in P /\ Gap(h2[b], h2[NextBuffer(b)], dr)
  <2>1. CASE b = nx
    <3>1. h2[b] + 1 .. m + 1 = {}
      BY <2>1
    <3> QED BY <2>1, <3>1
  <2>2. CASE b \in O /\ NextBuffer(b) = nx
    <3>1. h[b] + 1 .. m \subseteq dr /\ (m + 1) - 1 = m
      BY <2>2 DEF Ring
    <3>2. Gap(h2[b], h2[nx], dr)
      BY <1>1, <2>2, <3>1 DEF Gap
    <3> QED BY <1>1, <2>2, <3>2
  <2>3. CASE b \in O /\ NextBuffer(b) # nx
    <3>1. NextBuffer(b) \in O /\ Gap(h[b], h[NextBuffer(b)], dr)
      BY <2>3 DEF Ring
    <3> QED BY <1>1, <2>3, <3>1
  <2> QED BY <2>1, <2>2, <2>3
<1>5. t \in P /\ \A b \in P : h2[t] <= h2[b]
  BY <1>1 DEF Ring
<1>6. ASSUME NEW v \in Nat, After(O, h, t, dr, m, v)
      PROVE  After(P, h2, t, dr, m + 1, v)
  <2>1. CASE O = {}
    <3>1. t = nx /\ v <= m /\ v + 1 .. m \subseteq dr /\ (m + 1) - 1 = m /\ v < m + 1
      BY <1>6, <2>1 DEF After, Ring
    <3> QED BY <3>1 DEF After, Gap
  <2>2. CASE O # {}
    BY <1>6, <2>2 DEF After, Ring
  <2> QED BY <2>1, <2>2
<1> QED BY <1>2, <1>3, <1>4, <1>5, <1>6 DEF Ring

\* More packets are thrown away, none of those in the ring.
LEMMA RingDrop ==
  ASSUME NEW O \in SUBSET Buffers, NEW h, NEW nx, NEW t, NEW dr, NEW dr2, NEW m,
         Ring(O, h, nx, t, dr, m), dr \subseteq dr2, \A b \in O : h[b] \notin dr2
  PROVE  /\ Ring(O, h, nx, t, dr2, m)
         /\ \A v \in Nat : After(O, h, t, dr, m, v) => After(O, h, t, dr2, m, v)
BY DEF Ring, After, Gap

\* The packet behind the youngest one is counted, when it was thrown away.
LEMMA RingPass ==
  ASSUME NEW O \in SUBSET Buffers, NEW h \in [Buffers -> Nat], NEW nx, NEW t, NEW dr,
         NEW m \in Nat, Ring(O, h, nx, t, dr, m), m + 1 \in dr
  PROVE  /\ Ring(O, h, nx, t, dr, m + 1)
         /\ \A v \in Nat : After(O, h, t, dr, m, v) => After(O, h, t, dr, m + 1, v)
<1>1. \A v \in Nat : v + 1 .. m \subseteq dr => v + 1 .. m + 1 \subseteq dr
  <2> SUFFICES ASSUME NEW v \in Nat, v + 1 .. m \subseteq dr, NEW i \in v + 1 .. m + 1
               PROVE  i \in dr
    OBVIOUS
  <2>1. i \in v + 1 .. m \/ i = m + 1
    OBVIOUS
  <2> QED BY <2>1
<1>2. \A b \in O : h[b] \in Nat /\ h[b] \in (1 .. m + 1) \ dr
  BY DEF Ring
<1>3. Ring(O, h, nx, t, dr, m + 1)
  BY <1>1, <1>2 DEF Ring
<1>4. \A v \in Nat : After(O, h, t, dr, m, v) => After(O, h, t, dr, m + 1, v)
  BY <1>1 DEF After
<1> QED BY <1>3, <1>4

\* The header registers of the other buffers do not matter.
LEMMA RingHeaders ==
  ASSUME NEW O, NEW h, NEW h2, NEW nx, NEW t, NEW dr, NEW m, NEW v,
         \A b \in O : h2[b] = h[b], Ring(O, h, nx, t, dr, m)
  PROVE  /\ Ring(O, h2, nx, t, dr, m)
         /\ After(O, h, t, dr, m, v) => After(O, h2, t, dr, m, v)
BY DEF Ring, After

-----------------------------------------------------------------------------
(* A clock edge, from the writer.                                          *)

\* The edges of p2d_wr_fsm between having a buffer, filling it and having
\* filled it.
LEMMA WriterEdges ==
  ASSUME IInv, Tick
  PROVE  /\ Filling' <=> \/ w_state = "switch_next_buff" \/ w_state = "rd_pct"
                         \/ w_state = "wait_wr_end" /\ in_pct_data_valid
         /\ Filled' <=> \/ w_state = "wait_wr_end" /\ ~in_pct_data_valid
                        \/ w_state = "check_next_buf" /\ ~next_buff_rdy
         /\ w_state' = "rd_pct" => w_state \in {"rd_pct", "switch_next_buff"}
         /\ w_state' = "wait_wr_end" =>
              \/ w_state = "rd_pct" /\ w_rd_cnt >= PctWords - 1
              \/ w_state = "wait_wr_end" /\ in_pct_data_valid
         /\ w_state' = "wait_cmpr_pipe" =>
              w_state = "rd_hdr" \/ (w_state = "wait_cmpr_pipe" /\ pipe_cnt <= 3)
         /\ w_state = "wait_cmpr_pipe" /\ pipe_cnt <= 3 => w_state' = "wait_cmpr_pipe"
         /\ w_state' = "check_smpl_nr" =>
              \/ w_state = "wait_cmpr_pipe" /\ pipe_cnt = 4
              \/ w_state = "check_smpl_nr"
         /\ w_state' = "switch_next_buff" => w_state = "check_smpl_nr"
         /\ w_state' = "clr_fifo" => w_state = "check_smpl_nr" /\ MissedSample
<1> USE WriterTypes, Sizes DEF Filling, Filled, Goto
<1>1. CASE Idle
  <2>1. CASE in_pct_rdy BY <1>1, <2>1 DEF Idle
  <2>2. CASE ~in_pct_rdy BY <1>1, <2>2 DEF Idle
  <2> QED BY <2>1, <2>2
<1>2. CASE RdHdr
  <2>1. w_state = "rd_hdr" /\ w_state' = "wait_cmpr_pipe"
    BY <1>2 DEF RdHdr
  <2> QED BY <2>1
<1>3. CASE WaitCmprPipe
  <2>1. w_state = "wait_cmpr_pipe" => pipe_cnt < 5
    BY DEF IInv, WriterInv, FlightOfState
  <2>2. CASE pipe_cnt > 3 BY <1>3, <2>1, <2>2 DEF WaitCmprPipe
  <2>3. CASE ~(pipe_cnt > 3) BY <1>3, <2>3 DEF WaitCmprPipe
  <2> QED BY <2>2, <2>3
<1>4. CASE CheckSmplNr BY <1>4 DEF CheckSmplNr
<1>5. CASE ClrFifo BY <1>5 DEF ClrFifo
<1>6. CASE SwitchNextBuff BY <1>6 DEF SwitchNextBuff
<1>7. CASE RdPct
  <2>1. CASE w_rd_cnt < PctWords - 1 BY <1>7, <2>1 DEF RdPct
  <2>2. CASE ~(w_rd_cnt < PctWords - 1) BY <1>7, <2>2 DEF RdPct
  <2> QED BY <2>1, <2>2
<1>8. CASE WaitWrEnd
  <2>1. CASE in_pct_data_valid BY <1>8, <2>1 DEF WaitWrEnd
  <2>2. CASE ~in_pct_data_valid BY <1>8, <2>2 DEF WaitWrEnd
  <2> QED BY <2>1, <2>2
<1>9. CASE CheckNextBuf
  <2>1. CASE next_buff_rdy BY <1>9, <2>1 DEF CheckNextBuf
  <2>2. CASE ~next_buff_rdy BY <1>9, <2>2 DEF CheckNextBuf
  <2> QED BY <2>1, <2>2
<1>10. CASE SwitchCurrentBuff BY <1>10 DEF SwitchCurrentBuff
<1> QED BY <1>1, <1>2, <1>3, <1>4, <1>5, <1>6, <1>7, <1>8, <1>9, <1>10
        DEF Tick, WriterStep, WriterFsm

\* What is left in the input FIFO says which packet the writer has.
LEMMA PassedFacts ==
  ASSUME IInv
  PROVE  /\ sent \in Nat
         /\ w_state \in {"wait_cmpr_pipe", "check_smpl_nr", "clr_fifo", "switch_next_buff"} =>
              Taken <= 1 /\ fifo # <<>> /\ sent \in Pkts /\ Passed = sent - 1
         /\ w_state \in {"check_smpl_nr", "clr_fifo", "switch_next_buff"} => Taken = 1
         /\ w_state = "wait_wr_end" => Taken = PctWords \/ (in_pct_rdreq /\ Taken = PctWords - 1)
         /\ w_state = "rd_pct" => Taken < PctWords /\ Passed = sent
         /\ Passed = sent \/ (fifo # <<>> /\ Passed = sent - 1 /\ sent \in Pkts)
<1>1. sent \in Nat /\ Taken \in Nat
  BY WriterTypes
<1>2. /\ w_state \in {"wait_cmpr_pipe", "check_smpl_nr", "clr_fifo", "switch_next_buff"} =>
           w_rd_cnt = 1
      /\ w_rd_cnt = Taken + One(in_pct_rdreq)
  BY DEF IInv, WriterInv, CountOfState, InFlight
<1>3. w_state \in {"wait_cmpr_pipe", "check_smpl_nr", "clr_fifo", "switch_next_buff"} =>
        Taken <= 1
  BY <1>1, <1>2 DEF One
<1>4. w_state \in {"check_smpl_nr", "clr_fifo", "switch_next_buff"} => Taken = 1
  <2>1. w_state \in {"check_smpl_nr", "clr_fifo", "switch_next_buff"} => ~in_pct_rdreq
    BY DEF IInv, WriterInv, FlightOfState
  <2> QED BY <1>1, <1>2, <2>1 DEF One
<1>5. fifo # <<>> => sent \in Pkts
  <2> SUFFICES ASSUME fifo # <<>> PROVE sent \in Pkts
    OBVIOUS
  <2>1. fifo \in Seq(Pkts \X (0 .. PctWords - 1))
    BY DEF IInv, TypeOK
  <2>2. Len(fifo) \in Nat /\ 1 \in 1 .. Len(fifo)
    BY <2>1, EmptySeq, LenProperties
  <2>3. fifo[1] \in Pkts \X (0 .. PctWords - 1)
    BY <2>1, <2>2, ElementOfSeq
  <2>4. fifo[1][1] = sent
    BY <2>2 DEF IInv, WriterInv, FifoOfState, Rest
  <2> QED BY <2>3, <2>4
<1>6. w_state \in {"wait_cmpr_pipe", "check_smpl_nr", "clr_fifo", "switch_next_buff"} =>
        fifo # <<>> /\ ~Filling
  <2> SUFFICES ASSUME w_state \in {"wait_cmpr_pipe", "check_smpl_nr", "clr_fifo",
                                   "switch_next_buff"}
               PROVE  fifo # <<>> /\ ~Filling
    OBVIOUS
  <2>1. Len(fifo) = PctWords - Taken /\ Taken < PctWords
    BY <1>1, <1>3, Sizes DEF IInv, WriterInv, FifoOfState, Rest
  <2>2. Len(fifo) # 0
    BY <1>1, <2>1, Sizes
  <2> QED BY <2>2 DEF Filling
<1>7. w_state = "wait_wr_end" => Taken = PctWords \/ (in_pct_rdreq /\ Taken = PctWords - 1)
  <2>1. w_state = "wait_wr_end" => w_rd_cnt = PctWords
    BY DEF IInv, WriterInv, CountOfState
  <2> QED BY <1>1, <1>2, <2>1, Sizes DEF One
<1>8. w_state = "rd_pct" => Taken < PctWords
  <2>1. w_state = "rd_pct" => w_rd_cnt < PctWords
    BY DEF IInv, WriterInv, CountOfState
  <2> QED BY <1>1, <1>2, <2>1, Sizes DEF One
<1> QED BY <1>1, <1>3, <1>4, <1>5, <1>6, <1>7, <1>8 DEF Passed, Filling

\* An edge counts a packet when it gets its buffer or when the input FIFO is
\* cleared of it.
LEMMA PassedTick ==
  ASSUME IInv, Tick
  PROVE  Passed' = IF w_state \in {"clr_fifo", "switch_next_buff"} THEN Passed + 1 ELSE Passed
<1>1. sent' = sent /\ sent \in Nat /\ Taken \in Nat
  BY WriterTypes DEF Tick
<1>2. w_state # "clr_fifo" /\ ~in_pct_rdreq => fifo' = fifo
  BY TickFifo
<1>3. fifo' # <<>> <=> Len(fifo') # 0
  BY TickFifo, EmptySeq
<1>4. CASE w_state = "clr_fifo"
  <2>1. fifo' = <<>>
    BY <1>3, <1>4, TickFifo
  <2> QED BY <1>1, <1>4, <2>1, PassedFacts DEF Passed
<1>5. CASE w_state = "switch_next_buff"
  <2>1. Taken = 1 /\ ~in_pct_rdreq /\ Passed = sent - 1
    BY <1>5, PassedFacts DEF IInv, WriterInv, FlightOfState
  <2>2. Taken' = 1 /\ Filling'
    BY <1>5, <2>1, TickTaken, WriterEdges
  <2>3. Passed' = sent
    BY <1>1, <2>2, Sizes DEF Passed
  <2> QED BY <1>1, <1>5, <2>1, <2>3
<1>6. CASE w_state = "wait_cmpr_pipe"
  <2>1. w_rd_cnt = 1 /\ w_rd_cnt = Taken + One(in_pct_rdreq)
    BY <1>6 DEF IInv, WriterInv, CountOfState, InFlight
  <2>2. Taken' <= 1 /\ Taken' \in Nat
    BY <1>1, <1>6, <2>1, TickTaken DEF One
  <2>3. w_state' \in {"wait_cmpr_pipe", "check_smpl_nr"}
    BY <1>6 DEF Tick, WriterStep, WriterFsm, Idle, RdHdr, WaitCmprPipe, CheckSmplNr,
                ClrFifo, SwitchNextBuff, RdPct, WaitWrEnd, CheckNextBuf, SwitchCurrentBuff, Goto
  <2>4. FifoOfState'
    BY TickFifoOfState
  <2>5. Len(fifo') = PctWords - Taken'
    <3>1. Taken' # PctWords
      <4> DEFINE n == Taken'
      <4>1. n \in Nat /\ n <= 1
        BY <2>2
      <4> HIDE DEF n
      <4>2. n # PctWords
        BY <4>1, Sizes
      <4> QED BY <4>2 DEF n
    <3> QED BY <2>3, <2>4, <3>1 DEF FifoOfState, Rest
  <2>6. fifo' # <<>>
    <3> DEFINE n == Taken'
    <3>1. n \in Nat /\ n <= 1 /\ Len(fifo') = PctWords - n
      BY <2>2, <2>5
    <3> HIDE DEF n
    <3>2. PctWords - n # 0
      BY <3>1, Sizes
    <3> QED BY <1>3, <3>1, <3>2
  <2>7. ~Filling'
    BY <2>3 DEF Filling
  <2> QED BY <1>1, <1>6, <2>6, <2>7, PassedFacts DEF Passed
<1>7. CASE w_state = "rd_pct"
  <2>1. Taken < PctWords /\ Passed = sent /\ Filling'
    BY <1>7, PassedFacts, WriterEdges
  <2>2. CASE ~in_pct_rdreq
    <3>1. Taken' = Taken
      BY <1>7, <2>2, TickTaken
    <3> QED BY <1>1, <1>7, <2>1, <3>1 DEF Passed
  <2>3. CASE in_pct_rdreq
    <3>1. Taken' = Taken + 1 /\ Len(fifo') = Len(fifo) - 1 /\ Len(fifo) = PctWords - Taken
      BY <1>7, <2>3, TickTaken, TickFifo, ReadFindsWord DEF Rest
    <3>2. Taken' < PctWords \/ Len(fifo') = 0
      BY <1>1, <2>1, <3>1, Sizes
    <3>3. Taken' < PctWords \/ fifo' = <<>>
      BY <1>3, <3>2
    <3> QED BY <1>1, <1>7, <2>1, <3>3 DEF Passed
  <2> QED BY <2>2, <2>3
<1>8. CASE w_state = "wait_wr_end"
  <2>1. CASE in_pct_rdreq
    <3>1. Taken < PctWords /\ Rest(Taken)
      BY <2>1, ReadFindsWord
    <3>2. Taken = PctWords - 1
      BY <1>1, <1>8, <3>1, PassedFacts, Sizes
    <3>3. Len(fifo') = Len(fifo) - 1 /\ Len(fifo) = PctWords - Taken
      BY <1>8, <2>1, <3>1, TickFifo DEF Rest
    <3>4. Len(fifo') = 0
      BY <3>2, <3>3, Sizes
    <3>5. fifo' = <<>>
      BY <1>3, <3>4
    <3> QED BY <1>1, <1>8, <3>1, <3>5 DEF Passed, Filling
  <2>2. CASE ~in_pct_rdreq
    <3>1. Taken = PctWords /\ Taken' = PctWords /\ fifo' = fifo
      BY <1>2, <1>8, <2>2, PassedFacts, TickTaken
    <3> QED BY <1>1, <1>8, <3>1, Sizes DEF Passed
  <2> QED BY <2>1, <2>2
<1>9. CASE w_state \in {"idle", "rd_hdr", "check_smpl_nr", "check_next_buf",
                        "switch_current_buff"}
  <2>1. ~in_pct_rdreq
    BY <1>9 DEF IInv, WriterInv, FlightOfState
  <2>2. ~Filling /\ ~Filling'
    BY <1>9, WriterEdges DEF Filling
  <2> QED BY <1>1, <1>2, <1>9, <2>1, <2>2 DEF Passed
<1> QED BY <1>4, <1>5, <1>6, <1>7, <1>8, <1>9 DEF IInv, TypeOK, TypeOKWriter, WriterStates

\* The edges of p2d_rd.
LEMMA ReaderEdges ==
  ASSUME IInv, Tick
  PROVE  /\ r_state = "idle" =>
              \/ r_state' = "rd_buff" /\ ReadNow
              \/ r_state' = "clr_buff" /\ ClearNow
              \/ r_state' = "idle"
         /\ r_state = "clr_buff" => r_state' = "switch_next_buff"
         /\ r_state = "rd_buff" =>
              \/ r_state' = "rd_hold" /\ almost_full
              \/ r_state' = "rd_buff" /\ ~almost_full /\ r_rd_cnt < RdWords - 1
              \/ r_state' = "switch_next_buff" /\ ~almost_full /\ r_rd_cnt = RdWords - 1
         /\ r_state = "rd_hold" => r_state' \in {"rd_hold", "rd_buff"}
         /\ r_state = "switch_next_buff" => r_state' = "check_next_buf"
         /\ r_state = "check_next_buf" => r_state' = "idle"
         /\ crnt_buff_cnt' = IF r_state = "switch_next_buff" THEN NextBuffer(crnt_buff_cnt)
                                                             ELSE crnt_buff_cnt
         /\ r_rd_cnt' = IF r_state = "idle" THEN 0
                        ELSE IF RdReq THEN r_rd_cnt + 1 ELSE r_rd_cnt
         /\ r_state \in ReaderStates /\ r_state' \in ReaderStates
<1>1. /\ crnt_buff_cnt' = IF r_state = "switch_next_buff" THEN NextBuffer(crnt_buff_cnt)
                                                          ELSE crnt_buff_cnt
      /\ r_rd_cnt' = IF r_state = "idle" THEN 0
                     ELSE IF RdReq THEN r_rd_cnt + 1 ELSE r_rd_cnt
  BY DEF Tick, ReaderStep, CrntBuffSel, RdCnt
<1>2. /\ r_rd_cnt \in Nat /\ (r_state = "rd_buff" => r_rd_cnt < RdWords)
      /\ r_state \in ReaderStates /\ r_state' \in ReaderStates
  BY TickTypeOKReader DEF IInv, TypeOK, TypeOKReader, ReadCount
<1>3. \/ IdleR \/ ClrBuff \/ RdBuff \/ RdHold \/ SwitchNextBuffR \/ CheckNextBufR
  BY DEF Tick, ReaderStep, ReaderFsm
<1>4. CASE r_state = "rd_buff"
  <2>1. RdBuff
    BY <1>3, <1>4 DEF IdleR, ClrBuff, RdHold, SwitchNextBuffR, CheckNextBufR
  <2>2. r_rd_cnt >= RdWords - 1 => r_rd_cnt = RdWords - 1
    BY <1>2, <1>4, Sizes
  <2> QED BY <1>1, <1>2, <1>4, <2>1, <2>2 DEF RdBuff, GotoR
<1>5. CASE r_state = "idle"
  <2>1. IdleR
    BY <1>3, <1>5 DEF RdBuff, ClrBuff, RdHold, SwitchNextBuffR, CheckNextBufR
  <2> QED BY <1>1, <1>2, <1>5, <2>1 DEF IdleR, GotoR
<1>6. CASE r_state = "rd_hold"
  <2>1. RdHold
    BY <1>3, <1>6 DEF RdBuff, ClrBuff, IdleR, SwitchNextBuffR, CheckNextBufR
  <2>2. r_state' \in {"rd_hold", "rd_buff"}
    BY <2>1 DEF RdHold, GotoR
  <2> QED BY <1>1, <1>2, <1>6, <2>2
<1>7. CASE r_state \notin {"idle", "rd_buff", "rd_hold"}
  BY <1>1, <1>2, <1>3, <1>7
     DEF RdBuff, ClrBuff, IdleR, RdHold, SwitchNextBuffR, CheckNextBufR, GotoR
<1> QED BY <1>4, <1>5, <1>6, <1>7

\* A buffer is cleared when the reader enters clr_buff and while it is there.
LEMMA ClearingFacts ==
  ASSUME IInv, Tick, NEW b \in Buffers
  PROVE  Clearing(b) <=> /\ b = crnt_buff_cnt
                         /\ \/ r_state = "clr_buff"
                            \/ r_state = "idle" /\ r_state' = "clr_buff" /\ ClearNow
<1>1. BuffClr(b)' <=> r_state' = "clr_buff" /\ b = crnt_buff_cnt'
  BY DEF BuffClr
<1>2. r_state' = "clr_buff" <=> r_state = "idle" /\ r_state' = "clr_buff" /\ ClearNow
  BY ReaderEdges DEF ReaderStates
<1>3. r_state = "idle" => crnt_buff_cnt' = crnt_buff_cnt
  BY ReaderEdges
<1>4. Clearing(b) <=> BuffClr(b) \/ BuffClr(b)'
  BY DEF Clearing
<1>5. BuffClr(b) <=> r_state = "clr_buff" /\ b = crnt_buff_cnt
  BY DEF BuffClr
<1> QED BY <1>1, <1>2, <1>3, <1>4, <1>5

\* What the writer puts out on an edge.
LEMMA WriterOut ==
  ASSUME IInv, WriterPlace, HeaderPlace, Tick
  PROVE  /\ HeaderArrives => w_state = "wait_cmpr_pipe" /\ pipe_cnt = 1
         /\ PayloadArrives => Filling
         /\ Filling => (PayloadArrives <=> in_pct_data_valid)
         /\ w_state = "wait_cmpr_pipe" /\ pipe_cnt = 1 => HeaderArrives
         /\ pct_hdr_valid' = IF HeaderArrives THEN current_buff_cnt ELSE NoBuffer
         /\ pct_data_wrreq' = IF PayloadArrives THEN current_buff_cnt ELSE NoBuffer
         /\ ~HeaderArrives => pct_hdr' = pct_hdr
         /\ \A b \in Buffers : hdr_array'[b] = IF pct_hdr_valid = b THEN pct_hdr ELSE hdr_array[b]
         /\ Filling => pct_hdr_valid = NoBuffer
         /\ w_state # "idle" => wrreq_cnt' = Taken
<1>1. wrreq_cnt \in Nat /\ in_pct_data_valid \in BOOLEAN
  BY WriterTypes
<1>2. in_pct_data_valid =>
        Filling \/ (w_state = "wait_cmpr_pipe" /\ pipe_cnt = 1 /\ wrreq_cnt = 0)
  <2> SUFFICES ASSUME in_pct_data_valid, ~Filling
               PROVE  w_state = "wait_cmpr_pipe" /\ pipe_cnt = 1 /\ wrreq_cnt = 0
    OBVIOUS
  <2>1. w_state = "wait_cmpr_pipe"
    BY DEF IInv, TypeOK, TypeOKWriter, WriterStates, WriterInv, FlightOfState, Filling,
           WriterPlace, Filled
  <2>2. pipe_cnt = 1
    BY <2>1 DEF IInv, WriterInv, FlightOfState
  <2>3. Taken <= 1
    BY <2>1, PassedFacts
  <2> QED BY <1>1, <2>1, <2>2, <2>3 DEF Taken, One
<1>3. Filling => wrreq_cnt >= 1
  BY DEF WriterPlace
<1>4. w_state = "wait_cmpr_pipe" /\ pipe_cnt = 1 => in_pct_data_valid
  BY DEF HeaderPlace
<1>5. w_state = "wait_cmpr_pipe" => ~Filling
  BY DEF Filling
<1>6. Filling => pct_hdr_valid = NoBuffer
  BY DEF HeaderPlace, Filling
<1>7. /\ HeaderArrives => w_state = "wait_cmpr_pipe" /\ pipe_cnt = 1
      /\ PayloadArrives => Filling
      /\ Filling => (PayloadArrives <=> in_pct_data_valid)
      /\ w_state = "wait_cmpr_pipe" /\ pipe_cnt = 1 => HeaderArrives
  BY <1>1, <1>2, <1>3, <1>4, <1>5 DEF HeaderArrives, PayloadArrives
<1>8. /\ pct_hdr_valid' = IF HeaderArrives THEN current_buff_cnt ELSE NoBuffer
      /\ pct_data_wrreq' = IF PayloadArrives THEN current_buff_cnt ELSE NoBuffer
      /\ ~HeaderArrives => pct_hdr' = pct_hdr
      /\ \A b \in Buffers : hdr_array'[b] = IF pct_hdr_valid = b THEN pct_hdr ELSE hdr_array[b]
  BY DEF Tick, WriterStep, OutReg, ReaderStep, HdrCapture
<1> QED BY <1>6, <1>7, <1>8, TickTaken

\* What the write side of a buffer sees after an edge.
LEMMA EmptyTick ==
  ASSUME IInv, WriterPlace, Tick, NEW b \in Buffers
  PROVE  /\ wrempty[b] /\ pct_data_wrreq # b => wrempty'[b]
         /\ wrempty'[b] => buf'[b] = <<>>
<1>1. wrempty'[b] = CASE Clearing(b) -> TRUE
                      [] ~Clearing(b) /\ pct_data_wrreq = b -> FALSE
                      [] OTHER -> wrempty[b]
  BY DEF Tick, Fifos
<1>2. buf'[b] = CASE Clearing(b) -> <<>>
                  [] ~Clearing(b) /\ pct_data_wrreq = b -> AfterRead(b) \o Split(pct_data)
                  [] OTHER -> AfterRead(b)
  BY DEF Tick, Fifos
<1>3. wrempty[b] => buf[b] = <<>>
  BY DEF WriterPlace
<1>4. buf[b] = <<>> => AfterRead(b) = <<>>
  BY DEF AfterRead
<1> HIDE DEF Clearing, AfterRead
<1>5. CASE Clearing(b)
  BY <1>1, <1>2, <1>5
<1>6. CASE ~Clearing(b) /\ pct_data_wrreq = b
  BY <1>1, <1>2, <1>6
<1>7. CASE ~Clearing(b) /\ pct_data_wrreq # b
  BY <1>1, <1>2, <1>3, <1>4, <1>7
<1> QED BY <1>5, <1>6, <1>7

\* The registers a clock edge keeps or loads, by their types.
LEMMA PlaceTypes ==
  ASSUME IInv
  PROVE  /\ current_buff_cnt \in Buffers /\ next_buff_cnt \in Buffers
         /\ crnt_buff_cnt \in Buffers /\ w_state \in WriterStates
         /\ r_state \in ReaderStates /\ r_rd_cnt \in 0 .. RdWords
         /\ hdr_array \in [Buffers -> Pkts \cup {NoPkt}]
         /\ hdr_array \in [Buffers -> Nat]
         /\ buf \in [Buffers -> Seq(Pkts \X (1 .. RdWords))]
         /\ pct_hdr_valid \in Buffers \cup {NoBuffer}
         /\ pct_data_wrreq \in Buffers \cup {NoBuffer}
<1>1. Pkts \cup {NoPkt} \subseteq Nat
  BY Sizes DEF Pkts, NoPkt
<1>2. hdr_array \in [Buffers -> Pkts \cup {NoPkt}]
  BY DEF IInv, TypeOK, TypeOKReader
<1>3. hdr_array \in [Buffers -> Nat]
  BY <1>1, <1>2
<1> QED BY <1>2, <1>3 DEF IInv, TypeOK, TypeOKReader, TypeOKWriter, TypeOKSignals

\* A packet gets the buffer the writer had ready for it.
LEMMA BufferTaken ==
  ASSUME IInv, WriterPlace, HeaderPlace, Tick, w_state = "switch_next_buff"
  PROVE  /\ current_buff_cnt' = current_buff_cnt
         /\ next_buff_cnt' = NextBuffer(current_buff_cnt)
         /\ pct_data_wrreq = NoBuffer /\ pct_data_wrreq' = NoBuffer /\ wrreq_cnt' = 1
         /\ Passed = sent - 1 /\ Passed' = sent /\ sent \in Nat
         /\ pct_hdr = sent /\ pct_hdr' = sent
         /\ hdr_array[current_buff_cnt] = sent /\ hdr_array'[current_buff_cnt] = sent
         /\ wrempty[current_buff_cnt] /\ buf[current_buff_cnt] = <<>>
<1>1. Taken = 1 /\ Passed = sent - 1 /\ sent \in Nat
  BY PassedFacts
<1>2. ~in_pct_data_valid /\ wrreq_cnt = 1
  BY <1>1, WriterTypes DEF IInv, WriterInv, FlightOfState, Taken, One
<1>3. pct_hdr = sent
  BY <1>1, <1>2, Sizes DEF IInv, WriterInv, WordArriving
<1>4. hdr_array[current_buff_cnt] = sent
  BY DEF HeaderPlace, HeaderAge
<1>5. current_buff_cnt' = current_buff_cnt /\ next_buff_cnt' = NextBuffer(next_buff_cnt)
  BY DEF Tick, WriterStep, CurrentBuffSel, NextBuffSel
<1>6. Ready
  BY DEF Ready, Filling, Filled
<1>7. next_buff_cnt = current_buff_cnt /\ pct_data_wrreq = NoBuffer
      /\ wrempty[current_buff_cnt]
  BY <1>6 DEF WriterPlace
<1>8. ~HeaderArrives /\ ~PayloadArrives
  BY <1>2 DEF HeaderArrives, PayloadArrives
<1>9. /\ pct_data_wrreq' = NoBuffer /\ wrreq_cnt' = 1 /\ pct_hdr' = sent
      /\ hdr_array'[current_buff_cnt] = sent
  BY <1>1, <1>3, <1>4, <1>8, WriterOut, PlaceTypes
<1>10. Passed' = sent
  BY <1>1, PassedTick
<1>11. buf[current_buff_cnt] = <<>>
  BY <1>7, PlaceTypes DEF WriterPlace
<1> QED BY <1>1, <1>3, <1>4, <1>5, <1>7, <1>9, <1>10, <1>11

\* While a buffer is being filled, its packet stays the one that was passed.
LEMMA FillingTick ==
  ASSUME IInv, WriterPlace, HeaderPlace, Tick, Filling
  PROVE  /\ current_buff_cnt' = current_buff_cnt /\ next_buff_cnt' = next_buff_cnt
         /\ Passed' = Passed /\ pct_hdr' = pct_hdr /\ hdr_array' = hdr_array
         /\ wrreq_cnt' = Taken
         /\ ~in_pct_data_valid => pct_data_wrreq' = NoBuffer /\ Taken = wrreq_cnt
         /\ in_pct_data_valid =>
              /\ pct_data_wrreq' = current_buff_cnt /\ Taken = wrreq_cnt + 1
              /\ pct_data' = <<Passed, wrreq_cnt>>
         /\ wrreq_cnt >= 1 /\ wrreq_cnt \in Nat
<1>1. current_buff_cnt' = current_buff_cnt /\ next_buff_cnt' = next_buff_cnt
  BY DEF Filling, Tick, WriterStep, CurrentBuffSel, NextBuffSel
<1>2. Passed' = Passed
  BY PassedTick DEF Filling
<1>3. ~HeaderArrives
  BY WriterOut DEF Filling
<1>4. wrreq_cnt' = Taken /\ pct_hdr' = pct_hdr
  BY <1>3, WriterOut DEF Filling
<1>5. hdr_array' = hdr_array
  <2>1. \A b \in Buffers : hdr_array'[b] = hdr_array[b]
    BY WriterOut, NextBufferFacts
  <2>2. hdr_array' \in [Buffers -> Pkts \cup {NoPkt}]
    BY TickTypeOKReader DEF TypeOKReader
  <2> QED BY <2>1, <2>2, PlaceTypes
<1>6. ~in_pct_data_valid => pct_data_wrreq' = NoBuffer /\ Taken = wrreq_cnt
  BY WriterOut, WriterTypes DEF Taken, One
<1>7. wrreq_cnt >= 1 /\ wrreq_cnt \in Nat
  BY WriterTypes DEF WriterPlace
<1>8. ASSUME in_pct_data_valid
      PROVE  /\ pct_data_wrreq' = current_buff_cnt /\ Taken = wrreq_cnt + 1
             /\ pct_data' = <<Passed, wrreq_cnt>>
  <2>1. PayloadArrives
    BY <1>8, WriterOut
  <2>2. pct_data_wrreq' = current_buff_cnt /\ Taken = wrreq_cnt + 1
    BY <1>8, <2>1, WriterOut DEF Taken, One
  <2>3. pct_data' = in_pct_q
    BY <2>1 DEF Tick, WriterStep, OutReg
  <2>4. in_pct_q[1] = pct_hdr /\ in_pct_q[2] = wrreq_cnt
    BY <1>7, <1>8 DEF IInv, WriterInv, WordArriving
  <2>5. in_pct_q \in (Pkts \cup {NoPkt}) \X (0 .. PctWords - 1)
    BY DEF IInv, TypeOK, TypeOKSignals, Words
  <2>6. pct_hdr = Passed
    BY DEF WriterPlace
  <2> QED BY <2>2, <2>3, <2>4, <2>5, <2>6
<1> QED BY <1>1, <1>2, <1>4, <1>5, <1>6, <1>7, <1>8

\* An edge keeps the place of the writer among the buffers.
LEMMA TickWriterPlace ==
  ASSUME IInv, WriterPlace, HeaderPlace, WholePackets, Tick PROVE WriterPlace'
<1>1. /\ current_buff_cnt' = IF w_state = "check_next_buf" THEN next_buff_cnt
                                                          ELSE current_buff_cnt
      /\ w_state # "switch_next_buff" => next_buff_cnt' = next_buff_cnt
      /\ next_buff_rdy' = wrempty[next_buff_cnt]
  BY DEF Tick, WriterStep, CurrentBuffSel, NextBuffSel
<1>2. current_buff_cnt \in Buffers /\ next_buff_cnt \in Buffers
  BY PlaceTypes
<1>3. Ready' => /\ current_buff_cnt' = next_buff_cnt' /\ wrempty'[current_buff_cnt']
                /\ pct_data_wrreq' = NoBuffer
  <2> SUFFICES ASSUME Ready'
               PROVE  /\ current_buff_cnt' = next_buff_cnt' /\ wrempty'[current_buff_cnt']
                      /\ pct_data_wrreq' = NoBuffer
    OBVIOUS
  <2>1. ~Filling /\ pct_data_wrreq = NoBuffer
    BY WriterEdges DEF Ready, Filling, Filled, WriterPlace
  <2>2. pct_data_wrreq' = NoBuffer
    BY <2>1, WriterOut
  <2>3. CASE Ready
    <3>1. w_state \notin {"switch_next_buff", "check_next_buf"}
      BY <2>3, WriterEdges DEF Ready, Filled
    <3>2. current_buff_cnt = next_buff_cnt /\ wrempty[current_buff_cnt]
      BY <2>3 DEF WriterPlace
    <3>3. wrempty'[current_buff_cnt]
      BY <1>2, <2>1, <3>2, EmptyTick, NextBufferFacts
    <3> QED BY <1>1, <2>2, <3>1, <3>2, <3>3
  <2>4. CASE Filled
    <3>1. w_state = "check_next_buf" /\ next_buff_rdy
      BY <2>4, WriterEdges DEF Ready, Filled
    <3>2. wrempty[next_buff_cnt]
      BY <3>1 DEF WriterPlace
    <3>3. wrempty'[next_buff_cnt]
      BY <1>2, <2>1, <3>2, EmptyTick, NextBufferFacts
    <3> QED BY <1>1, <2>2, <3>1, <3>3
  <2> QED BY <2>1, <2>3, <2>4 DEF Ready
<1>4. Filling' => /\ next_buff_cnt' = NextBuffer(current_buff_cnt')
                  /\ pct_data_wrreq' \in {current_buff_cnt', NoBuffer}
                  /\ wrreq_cnt' >= 1
                  /\ pct_hdr' = Passed' /\ hdr_array'[current_buff_cnt'] = Passed'
                  /\ pct_data_wrreq' = current_buff_cnt' =>
                       wrreq_cnt' >= 2 /\ pct_data' = <<Passed', wrreq_cnt' - 1>>
                  /\ pct_data_wrreq' = NoBuffer => wrreq_cnt' < PctWords
  <2>1. CASE w_state = "switch_next_buff"
    BY <1>2, <2>1, BufferTaken, NextBufferFacts, Sizes
  <2>2. CASE Filling
    <3>1. /\ next_buff_cnt = NextBuffer(current_buff_cnt)
          /\ pct_hdr = Passed /\ hdr_array[current_buff_cnt] = Passed
      BY <2>2 DEF WriterPlace
    <3>2. ASSUME Filling', pct_data_wrreq' = NoBuffer PROVE wrreq_cnt' < PctWords
      <4>1. ~in_pct_data_valid /\ wrreq_cnt' = Taken
        BY <1>2, <2>2, <3>2, FillingTick, NextBufferFacts
      <4>2. w_state = "rd_pct"
        BY <2>2, <4>1, <3>2, WriterEdges DEF Filling
      <4> QED BY <4>1, <4>2, PassedFacts
    <3> QED BY <1>2, <2>2, <3>1, <3>2, FillingTick, NextBufferFacts
  <2> QED BY <2>1, <2>2, WriterEdges DEF Filling
<1>5. Filled' => ~in_pct_data_valid' /\ pct_data_wrreq' = NoBuffer
  <2> SUFFICES ASSUME Filled' PROVE ~in_pct_data_valid' /\ pct_data_wrreq' = NoBuffer
    OBVIOUS
  <2>1. ~in_pct_rdreq /\ ~in_pct_data_valid
    BY WriterEdges DEF WriterPlace, Filled, IInv, WriterInv, FlightOfState
  <2> QED BY <2>1, TickCounters, WriterOut DEF PayloadArrives
<1>6. w_state' = "rd_pct" /\ w_rd_cnt' > 1 => in_pct_rdreq'
  <2>1. w_state = "switch_next_buff" => w_rd_cnt' = 1
    BY TickCounters DEF IInv, WriterInv, CountOfState
  <2> QED BY <2>1, TickCounters, WriterEdges
<1>7. w_state' = "wait_wr_end" /\ in_pct_rdreq' => in_pct_data_valid'
  <2> SUFFICES ASSUME w_state' = "wait_wr_end", in_pct_rdreq' PROVE in_pct_data_valid'
    OBVIOUS
  <2>1. w_state = "rd_pct" /\ w_rd_cnt >= PctWords - 1
    BY TickCounters, WriterEdges
  <2>2. w_rd_cnt > 1
    BY <2>1, Sizes, WriterTypes DEF WholePackets
  <2> QED BY <2>1, <2>2, TickCounters DEF WriterPlace
<1>8. w_state' \in {"wait_wr_end", "check_next_buf"} /\ next_buff_rdy' =>
        wrempty'[next_buff_cnt']
  <2> SUFFICES ASSUME w_state' \in {"wait_wr_end", "check_next_buf"}, wrempty[next_buff_cnt]
               PROVE  wrempty'[next_buff_cnt']
    BY <1>1
  <2>1. Filling \/ Filled
    BY WriterEdges DEF Filling, Filled
  <2>2. next_buff_cnt' = next_buff_cnt
    BY <1>1, <2>1 DEF Filling, Filled
  <2>3. pct_data_wrreq # next_buff_cnt
    BY <1>2, <2>1, NextBufferFacts DEF WriterPlace
  <2> QED BY <1>2, <2>2, <2>3, EmptyTick
<1>9. \A b \in Buffers : wrempty'[b] => buf'[b] = <<>>
  BY EmptyTick
<1> QED BY <1>3, <1>4, <1>5, <1>6, <1>7, <1>8, <1>9 DEF WriterPlace

\* The header grows one edge older at most, and once it is in pct_hdr it is the
\* header of the last packet.
LEMMA HeaderAgeTick ==
  ASSUME IInv, Tick
  PROVE  /\ HeaderAge \in Nat /\ HeaderAge' \in Nat
         /\ HeaderAge' >= 3 =>
              /\ HeaderAge' <= HeaderAge + 1 /\ HeaderAge >= 2
              /\ w_state \in {"wait_cmpr_pipe", "check_smpl_nr"}
              /\ current_buff_cnt' = current_buff_cnt
         /\ HeaderAge = 2 => w_state = "wait_cmpr_pipe" /\ pipe_cnt = 2
         /\ HeaderAge >= 2 => pct_hdr = sent /\ sent \in Pkts
<1>1. HeaderAge \in Nat /\ pipe_cnt \in Nat
  BY WriterTypes DEF HeaderAge
<1>2. w_state = "wait_cmpr_pipe" => pipe_cnt' = pipe_cnt + 1
  BY TickCounters
<1>3. w_state # "wait_cmpr_pipe" => pipe_cnt' = 0
  BY TickCounters
<1>4. HeaderAge' = CASE w_state' = "wait_cmpr_pipe" -> pipe_cnt'
                     [] w_state' = "check_smpl_nr" -> 5
                     [] w_state' = "switch_next_buff" -> 6
                     [] OTHER -> 0
  BY DEF HeaderAge
<1>5. HeaderAge' \in Nat
  BY <1>1, <1>2, <1>3, <1>4
<1>6. ASSUME HeaderAge' >= 3
      PROVE  /\ HeaderAge' <= HeaderAge + 1 /\ HeaderAge >= 2
             /\ w_state \in {"wait_cmpr_pipe", "check_smpl_nr"}
  <2>1. CASE w_state' = "wait_cmpr_pipe"
    BY <1>1, <1>2, <1>3, <1>4, <1>6, <2>1, WriterEdges DEF HeaderAge
  <2>2. CASE w_state' = "check_smpl_nr"
    BY <1>1, <1>4, <2>2, WriterEdges DEF HeaderAge
  <2>3. CASE w_state' = "switch_next_buff"
    BY <1>4, <2>3, WriterEdges DEF HeaderAge
  <2> QED BY <1>4, <1>6, <2>1, <2>2, <2>3
<1>7. w_state \in {"wait_cmpr_pipe", "check_smpl_nr"} => current_buff_cnt' = current_buff_cnt
  BY DEF Tick, WriterStep, CurrentBuffSel
<1>8. HeaderAge = 2 => w_state = "wait_cmpr_pipe" /\ pipe_cnt = 2
  BY DEF HeaderAge
<1>9. ASSUME HeaderAge >= 2 PROVE pct_hdr = sent /\ sent \in Pkts
  <2>1. w_state \in {"wait_cmpr_pipe", "check_smpl_nr", "switch_next_buff"}
        /\ (w_state = "wait_cmpr_pipe" => pipe_cnt >= 2)
    BY <1>9 DEF HeaderAge
  <2>2. ~in_pct_rdreq /\ ~in_pct_data_valid /\ w_rd_cnt = 1
    BY <2>1 DEF IInv, WriterInv, FlightOfState, CountOfState
  <2>3. Taken = 1 /\ wrreq_cnt = 1
    BY <2>2, WriterTypes DEF IInv, WriterInv, InFlight, Taken, One
  <2> QED BY <2>1, <2>3, Sizes, PassedFacts DEF IInv, WriterInv, WordArriving
<1> QED BY <1>1, <1>5, <1>6, <1>7, <1>8, <1>9

\* An edge keeps the header where the comparators expect it.
LEMMA TickHeaderPlace ==
  ASSUME IInv, WriterPlace, HeaderPlace, Tick PROVE HeaderPlace'
<1>1. current_buff_cnt \in Buffers /\ phase' = phase /\ sent' = sent
  BY PlaceTypes DEF Tick
<1>2. w_state' = "wait_cmpr_pipe" =>
        /\ pipe_cnt' = 0 => in_pct_rdreq'
        /\ pipe_cnt' = 1 => in_pct_data_valid'
        /\ pipe_cnt' = 2 => pct_hdr_valid' = current_buff_cnt'
  <2> SUFFICES ASSUME w_state' = "wait_cmpr_pipe"
               PROVE  /\ pipe_cnt' = 0 => in_pct_rdreq'
                      /\ pipe_cnt' = 1 => in_pct_data_valid'
                      /\ pipe_cnt' = 2 => pct_hdr_valid' = current_buff_cnt'
    OBVIOUS
  <2>1. CASE w_state = "rd_hdr"
    BY <2>1, TickCounters
  <2>2. CASE w_state = "wait_cmpr_pipe"
    <3>1. pipe_cnt' = pipe_cnt + 1 /\ pipe_cnt \in Nat
      BY <2>2, TickCounters, WriterTypes
    <3>2. pipe_cnt = 0 => in_pct_data_valid'
      BY <2>2, TickCounters DEF HeaderPlace
    <3>3. pipe_cnt = 1 => pct_hdr_valid' = current_buff_cnt
      BY <2>2, WriterOut
    <3>4. current_buff_cnt' = current_buff_cnt
      BY <2>2 DEF Tick, WriterStep, CurrentBuffSel
    <3> QED BY <3>1, <3>2, <3>3, <3>4
  <2> QED BY <2>1, <2>2, WriterEdges
<1>3. pct_hdr_valid' # NoBuffer => w_state' = "wait_cmpr_pipe" /\ pipe_cnt' = 2
  BY WriterOut, WriterEdges, TickCounters
<1>4. HeaderAge' >= 3 => hdr_array'[current_buff_cnt'] = sent'
  <2> SUFFICES ASSUME HeaderAge' >= 3 PROVE hdr_array'[current_buff_cnt] = sent
    BY <1>1, HeaderAgeTick
  <2>1. /\ HeaderAge >= 2 /\ pct_hdr = sent
        /\ w_state \in {"wait_cmpr_pipe", "check_smpl_nr"}
    BY HeaderAgeTick
  <2>2. hdr_array'[current_buff_cnt] =
          IF pct_hdr_valid = current_buff_cnt THEN pct_hdr ELSE hdr_array[current_buff_cnt]
    BY <1>1, WriterOut
  <2>3. CASE HeaderAge = 2
    BY <2>1, <2>2, <2>3, HeaderAgeTick DEF HeaderPlace
  <2>4. CASE HeaderAge # 2
    <3>1. HeaderAge >= 3
      BY <2>1, <2>4, HeaderAgeTick
    <3> QED BY <2>1, <2>2, <3>1 DEF HeaderPlace
  <2> QED BY <2>3, <2>4
<1>5. ASSUME NEW i \in 1 .. 3
      PROVE  /\ HeaderAge' >= i + 2 /\ less_pipe'[i] => phase[sent] = "late"
             /\ HeaderAge' >= i + 3 => Verdict(cmp_pipe'[current_buff_cnt][i], sent)
  <2>1. /\ HeaderAge \in Nat /\ HeaderAge' \in Nat
        /\ HeaderAge' >= 3 => /\ HeaderAge' <= HeaderAge + 1 /\ HeaderAge >= 2
                              /\ pct_hdr = sent /\ sent \in Pkts
    BY HeaderAgeTick
  <2>2. less_pipe'[i] = IF i = 1 THEN Compare(pct_hdr) = "late" ELSE less_pipe[i - 1]
    BY DEF Tick, WriterStep, ComparePipe
  <2>3. cmp_pipe'[current_buff_cnt][i] =
          IF i = 1 THEN Compare(hdr_array[current_buff_cnt])
                   ELSE cmp_pipe[current_buff_cnt][i - 1]
    BY <1>1 DEF Tick, ReaderStep, Comparators
  <2>4. sent \in Pkts => Compare(sent) = phase[sent]
    BY DEF Compare, Pkts, NoPkt
  <2>5. HeaderAge >= 3 => hdr_array[current_buff_cnt] = sent
    BY DEF HeaderPlace
  <2>6. CASE i = 1
    <3>1. HeaderAge' >= i + 2 /\ less_pipe'[i] => phase[sent] = "late"
      <4>1. less_pipe'[i] <=> Compare(pct_hdr) = "late"
        BY <2>2, <2>6
      <4>2. HeaderAge' >= i + 2 => pct_hdr = sent /\ sent \in Pkts
        BY <2>1, <2>6
      <4> QED BY <2>4, <4>1, <4>2
    <3>2. HeaderAge' >= i + 3 => cmp_pipe'[current_buff_cnt][i] = phase[sent]
      BY <2>1, <2>3, <2>4, <2>5, <2>6
    <3> QED BY <3>1, <3>2 DEF Verdict
  <2>7. CASE i # 1
    <3>1. i - 1 \in 1 .. 3 /\ (i - 1) + 2 = i + 1 /\ (i - 1) + 3 = i + 2
      BY <2>7
    <3>2. /\ HeaderAge >= i + 1 /\ less_pipe[i - 1] => phase[sent] = "late"
          /\ HeaderAge >= i + 2 => Verdict(cmp_pipe[current_buff_cnt][i - 1], sent)
      BY <3>1 DEF HeaderPlace
    <3>3. /\ HeaderAge' >= i + 2 => HeaderAge >= i + 1
          /\ HeaderAge' >= i + 3 => HeaderAge >= i + 2
      BY <2>1, <2>7
    <3> QED BY <2>2, <2>3, <2>7, <3>2, <3>3
  <2> QED BY <2>6, <2>7
<1>6. \A i \in 1 .. 3 :
        /\ HeaderAge' >= i + 2 /\ less_pipe'[i] => phase'[sent'] = "late"
        /\ HeaderAge' >= i + 3 => Verdict(cmp_pipe[current_buff_cnt][i], sent)'
  <2> SUFFICES ASSUME NEW i \in 1 .. 3
               PROVE  /\ HeaderAge' >= i + 2 /\ less_pipe'[i] => phase'[sent'] = "late"
                      /\ HeaderAge' >= i + 3 => Verdict(cmp_pipe[current_buff_cnt][i], sent)'
    OBVIOUS
  <2>1. HeaderAge' >= 3 => current_buff_cnt' = current_buff_cnt
    BY HeaderAgeTick
  <2>2. HeaderAge' >= i + 3 => HeaderAge' >= 3
    BY HeaderAgeTick
  <2> QED BY <1>1, <1>5, <2>1, <2>2 DEF Verdict
<1> QED BY <1>2, <1>3, <1>4, <1>6 DEF HeaderPlace

-----------------------------------------------------------------------------
(* A clock edge, from the buffers.                                         *)

\* s is the words of packet p behind its first g.
Section(s, p, g) == \A i \in 1 .. Len(s) : s[i] = <<p, g + i>>

\* A payload word goes behind the words that are already there.
LEMMA PutWord ==
  ASSUME NEW s \in Seq(Pkts \X (1 .. RdWords)), NEW w \in Pkts \X (1 .. PctWords - 1),
         Len(s) = (w[2] - 1) * RdPerWr, Section(s, w[1], 0)
  PROVE  /\ Len(s \o Split(w)) = w[2] * RdPerWr
         /\ Section(s \o Split(w), w[1], 0)
<1> DEFINE u == Split(w)
           t == s \o u
           k == Len(s)
           p == w[1]
<1>1. u = [i \in 1 .. RdPerWr |-> <<p, (w[2] - 1) * RdPerWr + i>>]
  BY DEF Split
<1>2. RdPerWr \in Nat /\ k \in Nat /\ k = (w[2] - 1) * RdPerWr
  BY RdPerWrAssumption, LenProperties
<1>3. w[2] * RdPerWr = k + RdPerWr
  <2> DEFINE n == w[2]
  <2>1. n \in Nat /\ k = (n - 1) * RdPerWr
    BY <1>2, PctWordsAssumption
  <2> HIDE DEF n, k
  <2>2. n * RdPerWr = k + RdPerWr
    BY <1>2, <2>1
  <2> QED BY <2>2 DEF n
<1>4. Len(u) = RdPerWr
  BY <1>1, <1>2
<1>5. \A i \in 1 .. RdPerWr : u[i] = <<p, k + i>>
  BY <1>1, <1>2
<1>6. /\ Len(t) = k + RdPerWr
      /\ \A i \in 1 .. Len(t) : t[i] = IF i <= k THEN s[i] ELSE u[i - k]
  <2>1. w[1] \in Pkts /\ w[2] \in 1 .. PctWords - 1
    OBVIOUS
  <2>2. u \in Seq(Pkts \X (1 .. RdWords))
    BY <2>1, SplitType
  <2> HIDE DEF u
  <2>3. /\ Len(s \o u) = Len(s) + Len(u)
        /\ \A i \in 1 .. Len(s) + Len(u) :
             (s \o u)[i] = IF i <= Len(s) THEN s[i] ELSE u[i - Len(s)]
    BY <2>2, ConcatProperties, Zenon
  <2> QED BY <1>4, <2>3
<1>7. \A i \in 1 .. k : s[i] = <<p, 0 + i>>
  BY DEF Section
<1>8. Len(t) = k + RdPerWr
  BY <1>6
<1>10. RdPerWr \in Nat /\ k \in Nat
  BY <1>2
<1> HIDE DEF u, k, t, p
<1>9. ASSUME NEW i \in 1 .. Len(t) PROVE t[i] = <<p, 0 + i>>
  <2>1. i \in Nat /\ i >= 1 /\ i <= k + RdPerWr
    BY <1>8, <1>10
  <2>2. t[i] = IF i <= k THEN s[i] ELSE u[i - k]
    BY <1>6
  <2>3. CASE i <= k
    BY <1>7, <1>10, <2>1, <2>2, <2>3
  <2>4. CASE ~(i <= k)
    <3>1. i - k \in 1 .. RdPerWr /\ k + (i - k) = i /\ 0 + i = i
      BY <1>10, <2>1, <2>4
    <3>2. u[i - k] = <<p, k + (i - k)>>
      BY <1>5, <3>1
    <3> QED BY <2>2, <2>4, <3>1, <3>2
  <2> QED BY <2>3, <2>4
<1>11. Section(t, p, 0)
  BY <1>9 DEF Section
<1> QED BY <1>3, <1>8, <1>11 DEF t, u, p

\* The first word of a packet that is being read leaves its buffer.
LEMMA TakeWord ==
  ASSUME NEW s \in Seq(Pkts \X (1 .. RdWords)), NEW p, NEW g \in Nat, s # <<>>,
         Len(s) = RdWords - g, Section(s, p, g)
  PROVE  /\ Len(Tail(s)) = RdWords - (g + 1) /\ Section(Tail(s), p, g + 1)
         /\ Head(s) = <<p, g + 1>>
         /\ Tail(s) = <<>> <=> g = RdWords - 1
<1>1. /\ Len(s) \in Nat /\ Len(s) > 0 /\ Len(Tail(s)) = Len(s) - 1
      /\ \A i \in 1 .. Len(Tail(s)) : Tail(s)[i] = s[i + 1]
      /\ Head(s) = s[1] /\ Tail(s) \in Seq(Pkts \X (1 .. RdWords))
  BY HeadTailProperties, LenProperties, EmptySeq
<1>2. Tail(s) = <<>> <=> Len(Tail(s)) = 0
  BY <1>1, EmptySeq
<1>3. Len(Tail(s)) = RdWords - (g + 1) /\ 1 \in 1 .. Len(s)
  BY <1>1, Sizes
<1>4. ASSUME NEW i \in 1 .. Len(Tail(s)) PROVE Tail(s)[i] = <<p, (g + 1) + i>>
  <2>1. i + 1 \in 1 .. Len(s) /\ g + (i + 1) = (g + 1) + i
    BY <1>1
  <2> QED BY <1>1, <2>1 DEF Section
<1>5. Len(Tail(s)) = 0 <=> g = RdWords - 1
  <2> DEFINE n == Len(Tail(s))
  <2>1. n = RdWords - (g + 1)
    BY <1>3
  <2> HIDE DEF n
  <2>2. n = 0 <=> g = RdWords - 1
    BY <2>1, Sizes
  <2> QED BY <2>2 DEF n
<1>6. Section(Tail(s), p, g + 1)
  BY <1>4 DEF Section
<1>7. s[1] = <<p, g + 1>>
  BY <1>3 DEF Section
<1> QED BY <1>1, <1>2, <1>3, <1>5, <1>6, <1>7

\* Who may touch a buffer on an edge: the writer, or the reader, or nobody.
LEMMA BufferTick ==
  ASSUME IInv, WriterPlace, LevelsTrue, ReaderPlace, Tick, NEW b \in Buffers
  PROVE  /\ Clearing(b) => /\ buf'[b] = <<>> /\ ~BeingFilled(b)
                           /\ b = crnt_buff_cnt /\ ~RdReq
         /\ pct_data_wrreq = b => /\ BeingFilled(b) /\ ~BuffRdReq(b)
                                  /\ buf'[b] = buf[b] \o Split(pct_data)
         /\ BuffRdReq(b) => /\ buf[b] # <<>> /\ ~BeingFilled(b)
                            /\ buf'[b] = Tail(buf[b])
         /\ ~Clearing(b) /\ pct_data_wrreq # b /\ ~BuffRdReq(b) => buf'[b] = buf[b]
<1>1. pct_data_wrreq = b => BeingFilled(b)
  <2>1. b # NoBuffer
    BY NextBufferFacts
  <2> QED BY <2>1 DEF WriterPlace, Ready, BeingFilled
<1>2. Clearing(b) => b = crnt_buff_cnt /\ ~BeingFilled(b) /\ ~RdReq
  <2> SUFFICES ASSUME Clearing(b) PROVE b = crnt_buff_cnt /\ ~BeingFilled(b) /\ ~RdReq
    OBVIOUS
  <2>1. /\ b = crnt_buff_cnt
        /\ \/ r_state = "clr_buff"
           \/ r_state = "idle" /\ ClearNow
    BY ClearingFacts
  <2>2. r_state = "idle" /\ ClearNow => Full(crnt_buff_cnt)
    BY DEF ClearNow, LevelsTrue
  <2>3. r_state = "clr_buff" => (crnt_buff_cnt = current_buff_cnt => Filled)
    BY DEF ReaderPlace
  <2>4. Filled => ~Filling
    BY DEF Filled, Filling
  <2> QED BY <2>1, <2>2, <2>3, <2>4 DEF Full, BeingFilled, RdReq
<1>3. BuffRdReq(b) => buf[b] # <<>> /\ ~BeingFilled(b)
  BY DEF BuffRdReq, RdReq, ReaderPlace
<1>4. buf'[b] = CASE Clearing(b) -> <<>>
                  [] ~Clearing(b) /\ pct_data_wrreq = b -> AfterRead(b) \o Split(pct_data)
                  [] OTHER -> AfterRead(b)
  BY DEF Tick, Fifos
<1>5. AfterRead(b) = IF BuffRdReq(b) /\ buf[b] # <<>> THEN Tail(buf[b]) ELSE buf[b]
  BY DEF AfterRead
<1>6. BuffRdReq(b) => RdReq
  BY DEF BuffRdReq
<1> HIDE DEF Clearing, AfterRead, BuffRdReq, RdReq, BeingFilled
<1>7. CASE Clearing(b)
  BY <1>1, <1>2, <1>3, <1>4, <1>6, <1>7
<1>8. CASE ~Clearing(b) /\ pct_data_wrreq = b
  BY <1>1, <1>3, <1>4, <1>5, <1>8
<1>9. CASE ~Clearing(b) /\ pct_data_wrreq # b
  BY <1>3, <1>4, <1>5, <1>9
<1> QED BY <1>7, <1>8, <1>9

\* Which buffer is being filled after an edge.
LEMMA FillingWhich ==
  ASSUME IInv, WriterPlace, HeaderPlace, Tick, NEW b \in Buffers
  PROVE  /\ BeingFilled(b)' <=>
              \/ w_state = "switch_next_buff" /\ b = current_buff_cnt
              \/ BeingFilled(b) /\ ~(w_state = "wait_wr_end" /\ ~in_pct_data_valid)
         /\ w_state = "switch_next_buff" => ~BeingFilled(b)
         /\ BeingFilled(b) => Filling /\ b = current_buff_cnt
<1>1. BeingFilled(b)' <=> Filling' /\ b = current_buff_cnt'
  BY DEF BeingFilled
<1>2. BeingFilled(b) <=> Filling /\ b = current_buff_cnt
  BY DEF BeingFilled
<1>3. Filling' <=> \/ w_state = "switch_next_buff"
                   \/ Filling /\ ~(w_state = "wait_wr_end" /\ ~in_pct_data_valid)
  BY WriterEdges DEF Filling
<1>4. w_state = "switch_next_buff" \/ Filling => current_buff_cnt' = current_buff_cnt
  BY DEF Filling, Tick, WriterStep, CurrentBuffSel
<1>5. w_state = "switch_next_buff" => ~Filling
  BY DEF Filling
<1> QED BY <1>1, <1>2, <1>3, <1>4, <1>5

\* The header of a packet stays until its buffer is empty.
LEMMA HeaderKept ==
  ASSUME IInv, WriterPlace, HeaderPlace, Tick, NEW b \in Buffers,
         buf[b] # <<>> \/ BeingFilled(b)
  PROVE  hdr_array'[b] = hdr_array[b]
<1>1. hdr_array'[b] = IF pct_hdr_valid = b THEN pct_hdr ELSE hdr_array[b]
  BY WriterOut
<1> SUFFICES ASSUME pct_hdr_valid = b PROVE FALSE
  BY <1>1
<1>2. w_state = "wait_cmpr_pipe" /\ pct_hdr_valid = current_buff_cnt
  BY NextBufferFacts DEF HeaderPlace
<1>3. wrempty[b]
  BY <1>2 DEF WriterPlace, Ready, Filling, Filled
<1> QED BY <1>2, <1>3 DEF WriterPlace, BeingFilled, Filling

\* The words of the buffer that is being filled, after an edge.
LEMMA FillingContents ==
  ASSUME IInv, WriterPlace, HeaderPlace, Contents, LevelsTrue, ReaderPlace, Tick,
         NEW b \in Buffers, BeingFilled(b)
  PROVE  /\ Len(buf'[b]) = (wrreq_cnt - 1) * RdPerWr
         /\ \A i \in 1 .. Len(buf'[b]) : buf'[b][i] = <<hdr_array'[b], i>>
<1>1. b = current_buff_cnt /\ Filling
  BY DEF BeingFilled
<1>2. /\ Len(buf[b]) = Stored * RdPerWr
      /\ \A i \in 1 .. Len(buf[b]) : buf[b][i] = <<hdr_array[b], i>>
  BY DEF Contents
<1>3. hdr_array'[b] = hdr_array[b] /\ hdr_array[b] = Passed
  BY <1>1, FillingTick DEF WriterPlace
<1>4. ~Clearing(b) /\ ~BuffRdReq(b)
  BY <1>1, BufferTick DEF BuffRdReq, RdReq, ReaderPlace
<1>5. wrreq_cnt \in Nat /\ wrreq_cnt >= 1
  BY <1>1, FillingTick
<1>6. CASE pct_data_wrreq # b
  <2>1. Stored = wrreq_cnt - 1
    BY <1>1, <1>5, <1>6 DEF Stored, One
  <2> QED BY <1>2, <1>3, <1>4, <1>6, <2>1, BufferTick
<1>7. CASE pct_data_wrreq = b
  <2>1. wrreq_cnt >= 2 /\ pct_data = <<Passed, wrreq_cnt - 1>>
    BY <1>1, <1>7 DEF WriterPlace
  <2>2. Stored \in Nat /\ Stored + 1 = wrreq_cnt - 1
    BY <1>1, <1>5, <1>7, <2>1 DEF Stored, One
  <2>3. buf'[b] = buf[b] \o Split(pct_data)
    BY <1>7, BufferTick
  <2>4. pct_data \in Pkts \X (1 .. PctWords - 1)
    <3>1. pct_data[1] \in Pkts /\ pct_data[2] \in 1 .. PctWords - 1
      BY <1>7 DEF IInv, PayloadOnly
    <3> QED BY <2>1, <3>1
  <2>5. buf[b] \in Seq(Pkts \X (1 .. RdWords))
    BY PlaceTypes
  <2>6. \A i \in 1 .. Len(buf[b]) : buf[b][i] = <<Passed, i>> /\ 0 + i = i
    BY <1>2, <1>3, <2>5, LenProperties
  <2>7. pct_data[1] = Passed /\ pct_data[2] = wrreq_cnt - 1 /\ pct_data[2] - 1 = Stored
    BY <1>5, <2>1, <2>2
  <2>8. Len(buf[b]) = (pct_data[2] - 1) * RdPerWr /\ Section(buf[b], pct_data[1], 0)
    BY <1>2, <2>6, <2>7 DEF Section
  <2>9. /\ Len(buf'[b]) = (wrreq_cnt - 1) * RdPerWr
        /\ Section(buf'[b], Passed, 0)
    BY <2>3, <2>4, <2>5, <2>7, <2>8, PutWord
  <2>10. Len(buf'[b]) \in Nat
    BY TickBuffers, LenProperties
  <2> DEFINE t == buf'[b]
  <2>11. \A i \in 1 .. Len(t) : t[i] = <<Passed, i>>
    <3> HIDE DEF t
    <3> QED BY <2>9, <2>10 DEF Section, t
  <2> QED BY <1>3, <2>9, <2>11
<1> QED BY <1>6, <1>7

\* A packet is whole when p2d_wr_fsm has seen its last word.
LEMMA LastWordStored ==
  ASSUME IInv, WriterPlace, w_state = "wait_wr_end", ~in_pct_data_valid
  PROVE  wrreq_cnt = PctWords
<1>1. ~in_pct_rdreq
  BY DEF WriterPlace
<1> QED BY <1>1, PassedFacts, WriterTypes DEF Taken, One

\* An edge keeps the words of every buffer the payload of one packet.
LEMMA TickContents ==
  ASSUME IInv, WriterPlace, HeaderPlace, Contents, LevelsTrue, ReaderPlace, Tick
  PROVE  Contents'
<1> SUFFICES ASSUME NEW b \in Buffers
             PROVE  IF BeingFilled(b)'
                      THEN /\ Len(buf'[b]) = Stored' * RdPerWr
                           /\ \A i \in 1 .. Len(buf'[b]) : buf'[b][i] = <<hdr_array'[b], i>>
                      ELSE buf'[b] # <<>> =>
                             LET gone == IF BeingRead(b)' THEN r_rd_cnt' ELSE 0
                             IN  /\ Len(buf'[b]) = RdWords - gone
                                 /\ \A i \in 1 .. Len(buf'[b]) :
                                      buf'[b][i] = <<hdr_array'[b], gone + i>>
  BY DEF Contents
<1>1. CASE w_state = "switch_next_buff" /\ b = current_buff_cnt
  <2>1. buf[b] = <<>> /\ pct_data_wrreq = NoBuffer /\ current_buff_cnt' = b
        /\ wrreq_cnt' = 1 /\ pct_data_wrreq' = NoBuffer /\ b # NoBuffer
    BY <1>1, BufferTaken, NextBufferFacts
  <2>2. buf'[b] = <<>>
    BY <2>1, BufferTick
  <2>3. Stored' = 0
    <3>1. One(pct_data_wrreq = current_buff_cnt)' = 0
      BY <2>1 DEF One
    <3> QED BY <2>1, <3>1 DEF Stored
  <2>4. Len(buf'[b]) = 0 /\ 0 * RdPerWr = 0
    BY <2>2, RdPerWrAssumption
  <2>5. BeingFilled(b)'
    BY <1>1, FillingWhich
  <2> HIDE DEF Stored
  <2>6. Len(buf'[b]) = Stored' * RdPerWr
    BY <2>3, <2>4
  <2> QED BY <2>4, <2>5, <2>6
<1>2. CASE BeingFilled(b) /\ BeingFilled(b)'
  <2>1. Stored' = wrreq_cnt - 1
    <3>1. Filling /\ b = current_buff_cnt /\ current_buff_cnt \in Buffers
      BY <1>2 DEF BeingFilled
    <3>2. CASE in_pct_data_valid
      BY <3>1, <3>2, FillingTick DEF Stored, One
    <3>3. CASE ~in_pct_data_valid
      BY <3>1, <3>3, FillingTick, NextBufferFacts DEF Stored, One
    <3> QED BY <3>2, <3>3
  <2> HIDE DEF Stored
  <2>2. /\ Len(buf'[b]) = Stored' * RdPerWr
        /\ \A i \in 1 .. Len(buf'[b]) : buf'[b][i] = <<hdr_array'[b], i>>
    BY <1>2, <2>1, FillingContents
  <2> QED BY <1>2, <2>2
<1>3. CASE BeingFilled(b) /\ ~BeingFilled(b)'
  <2>1. w_state = "wait_wr_end" /\ ~in_pct_data_valid
    BY <1>3, FillingWhich
  <2>2. /\ Len(buf'[b]) = (PctWords - 1) * RdPerWr
        /\ \A i \in 1 .. Len(buf'[b]) : buf'[b][i] = <<hdr_array'[b], i>>
    BY <1>3, <2>1, LastWordStored, FillingContents
  <2>3. ~BeingRead(b)'
    <3> SUFFICES ASSUME BeingRead(b)' PROVE FALSE
      OBVIOUS
    <3>1. r_state' \in {"rd_buff", "rd_hold"} /\ b = crnt_buff_cnt'
      BY DEF BeingRead
    <3>2. b = crnt_buff_cnt /\ (r_state \in {"rd_buff", "rd_hold"} \/
                                (r_state = "idle" /\ ReadNow))
      BY <3>1, ReaderEdges DEF ReaderStates
    <3>3. r_state = "idle" /\ ReadNow => Full(b)
      BY <3>2 DEF ReadNow, LevelsTrue
    <3> QED BY <1>3, <3>2, <3>3 DEF Full, ReaderPlace
  <2>4. RdWords - 0 = RdWords /\ \A i \in 1 .. Len(buf'[b]) : 0 + i = i
    BY Sizes
  <2> QED BY <1>3, <2>2, <2>3, <2>4 DEF RdWords
<1>4. CASE ~BeingFilled(b) /\ ~BeingFilled(b)' /\ buf'[b] = <<>>
  BY <1>4
<1>5. CASE ~BeingFilled(b) /\ ~BeingFilled(b)' /\ buf'[b] # <<>>
  <2> DEFINE gone == IF BeingRead(b) THEN r_rd_cnt ELSE 0
             gone2 == IF BeingRead(b)' THEN r_rd_cnt' ELSE 0
  <2>1. ~Clearing(b) /\ pct_data_wrreq # b
    BY <1>5, BufferTick
  <2>2. buf[b] # <<>>
    BY <1>5, <2>1, BufferTick
  <2>3. /\ Len(buf[b]) = RdWords - gone
        /\ \A i \in 1 .. Len(buf[b]) : buf[b][i] = <<hdr_array[b], gone + i>>
    BY <1>5, <2>2 DEF Contents
  <2>4. hdr_array'[b] = hdr_array[b]
    BY <2>2, HeaderKept
  <2>5. gone \in Nat /\ buf[b] \in Seq(Pkts \X (1 .. RdWords))
    BY PlaceTypes
  <2>6. CASE BuffRdReq(b)
    <3>1. buf'[b] = Tail(buf[b])
      BY <2>6, BufferTick
    <3>2. BeingRead(b) /\ RdReq /\ r_state = "rd_buff" /\ ~almost_full /\ b = crnt_buff_cnt
      BY <2>6 DEF BuffRdReq, RdReq, BeingRead
    <3>3. gone = r_rd_cnt /\ r_rd_cnt' = gone + 1
      BY <3>2, ReaderEdges
    <3> HIDE DEF gone
    <3>4. /\ Len(buf'[b]) = RdWords - (gone + 1)
          /\ \A i \in 1 .. Len(buf'[b]) : buf'[b][i] = <<hdr_array[b], (gone + 1) + i>>
          /\ gone # RdWords - 1
      <4> DEFINE s == buf[b]
                 p == hdr_array[b]
      <4>1. /\ s \in Seq(Pkts \X (1 .. RdWords)) /\ gone \in Nat /\ s # <<>>
            /\ Len(s) = RdWords - gone
            /\ Section(s, p, gone)
        BY <2>2, <2>3, <2>5 DEF Section
      <4> HIDE DEF s, p
      <4>2. /\ Len(Tail(s)) = RdWords - (gone + 1)
            /\ Section(Tail(s), p, gone + 1)
            /\ Tail(s) = <<>> <=> gone = RdWords - 1
        BY <4>1, TakeWord
      <4> QED BY <1>5, <3>1, <4>2 DEF s, p, Section
    <3>5. r_state' = "rd_buff" /\ crnt_buff_cnt' = crnt_buff_cnt
      BY <3>2, <3>3, <3>4, ReaderEdges
    <3>6. gone2 = gone + 1
      BY <3>2, <3>3, <3>5 DEF BeingRead
    <3> QED BY <1>5, <2>4, <3>4, <3>6
  <2>7. CASE ~BuffRdReq(b)
    <3>1. buf'[b] = buf[b]
      BY <2>1, <2>7, BufferTick
    <3>2. gone2 = gone
      <4>1. BeingRead(b) <=> r_state \in {"rd_buff", "rd_hold"} /\ b = crnt_buff_cnt
        BY DEF BeingRead
      <4>2. BeingRead(b)' <=> r_state' \in {"rd_buff", "rd_hold"} /\ b = crnt_buff_cnt'
        BY DEF BeingRead
      <4>3. ~(RdReq /\ b = crnt_buff_cnt)
        BY <2>7 DEF BuffRdReq
      <4>4. r_state = "rd_buff" /\ ~almost_full => RdReq
        BY DEF RdReq
      <4>5. RdReq => r_state = "rd_buff"
        BY DEF RdReq
      <4>6. CASE BeingRead(b)
        <5>1. r_state' \in {"rd_buff", "rd_hold"} /\ crnt_buff_cnt' = crnt_buff_cnt
              /\ r_rd_cnt' = r_rd_cnt
          BY <4>1, <4>3, <4>4, <4>6, ReaderEdges
        <5> QED BY <4>1, <4>2, <4>6, <5>1
      <4>7. CASE ~BeingRead(b)
        <5>1. BeingRead(b)' => r_state = "idle"
          BY <4>1, <4>2, <4>7, ReaderEdges DEF ReaderStates
        <5> QED BY <4>7, <5>1, ReaderEdges
      <4> QED BY <4>6, <4>7
    <3> QED BY <1>5, <2>3, <2>4, <3>1, <3>2
  <2> QED BY <2>6, <2>7
<1> QED BY <1>1, <1>2, <1>3, <1>4, <1>5, FillingWhich

-----------------------------------------------------------------------------
(* A clock edge, from the ring.                                            *)

\* The reader gives its buffer up, cleared or read to the end.
Freed == \/ r_state = "idle" /\ r_state' = "clr_buff"
         \/ r_state = "rd_buff" /\ r_state' = "switch_next_buff"

\* A buffer that looks full to an idle reader holds its packet from the first
\* word.
LEMMA ReadyHead ==
  ASSUME IInv, Contents, LevelsTrue, r_state = "idle", crnt_buff_rdy
  PROVE  /\ buf[crnt_buff_cnt] # <<>> /\ ~BeingFilled(crnt_buff_cnt)
         /\ Head(buf[crnt_buff_cnt]) = <<hdr_array[crnt_buff_cnt], 1>>
<1>0. crnt_buff_cnt \in Buffers /\ buf[crnt_buff_cnt] \in Seq(Pkts \X (1 .. RdWords))
  BY PlaceTypes
<1>1. Len(buf[crnt_buff_cnt]) = RdWords /\ ~BeingFilled(crnt_buff_cnt)
  BY DEF LevelsTrue, Full
<1>2. buf[crnt_buff_cnt] # <<>>
  BY <1>0, <1>1, Sizes, EmptySeq
<1>3. ~BeingRead(crnt_buff_cnt)
  BY DEF BeingRead
<1>4. \A i \in 1 .. Len(buf[crnt_buff_cnt]) :
        buf[crnt_buff_cnt][i] = <<hdr_array[crnt_buff_cnt], 0 + i>>
  BY <1>0, <1>1, <1>2, <1>3 DEF Contents
<1>5. Head(buf[crnt_buff_cnt]) = <<hdr_array[crnt_buff_cnt], 0 + 1>>
  BY <1>0, <1>1, <1>2, <1>4, Sizes, HeadTailProperties
<1> QED BY <1>1, <1>2, <1>5

\* What the reader gives up is the whole, or the last word, of the oldest
\* packet in the ring.
LEMMA FreedFacts ==
  ASSUME IInv, Contents, LevelsTrue, ReaderPlace, Tick
  PROVE  /\ r_state = "idle" /\ crnt_buff_rdy =>
              /\ buf[crnt_buff_cnt] # <<>> /\ ~BeingFilled(crnt_buff_cnt)
              /\ Head(buf[crnt_buff_cnt]) = <<hdr_array[crnt_buff_cnt], 1>>
         /\ RdReq =>
              /\ buf[crnt_buff_cnt] # <<>> /\ ~BeingFilled(crnt_buff_cnt)
              /\ Head(buf[crnt_buff_cnt]) = <<hdr_array[crnt_buff_cnt], r_rd_cnt + 1>>
              /\ Tail(buf[crnt_buff_cnt]) = <<>> <=> r_state' = "switch_next_buff"
         /\ Freed => /\ crnt_buff_cnt \in Occupied /\ crnt_buff_cnt = Oldest
                     /\ r_state = "rd_buff" => RdReq
                     /\ r_state = "idle" => ClearNow
         /\ Oldest' = IF Freed THEN NextBuffer(Oldest) ELSE Oldest
<1>1. crnt_buff_cnt \in Buffers /\ buf[crnt_buff_cnt] \in Seq(Pkts \X (1 .. RdWords))
      /\ r_rd_cnt \in Nat
  BY PlaceTypes
<1>2. ASSUME r_state = "idle", crnt_buff_rdy
      PROVE  /\ buf[crnt_buff_cnt] # <<>> /\ ~BeingFilled(crnt_buff_cnt)
             /\ Head(buf[crnt_buff_cnt]) = <<hdr_array[crnt_buff_cnt], 1>>
  BY <1>2, ReadyHead
<1>3. ASSUME RdReq
      PROVE  /\ buf[crnt_buff_cnt] # <<>> /\ ~BeingFilled(crnt_buff_cnt)
             /\ Head(buf[crnt_buff_cnt]) = <<hdr_array[crnt_buff_cnt], r_rd_cnt + 1>>
             /\ Tail(buf[crnt_buff_cnt]) = <<>> <=> r_state' = "switch_next_buff"
  <2>1. r_state = "rd_buff" /\ ~almost_full
    BY <1>3 DEF RdReq
  <2>2. buf[crnt_buff_cnt] # <<>> /\ ~BeingFilled(crnt_buff_cnt)
    BY <2>1 DEF ReaderPlace
  <2>3. BeingRead(crnt_buff_cnt)
    BY <2>1 DEF BeingRead
  <2>4. /\ Len(buf[crnt_buff_cnt]) = RdWords - r_rd_cnt
        /\ \A i \in 1 .. Len(buf[crnt_buff_cnt]) :
             buf[crnt_buff_cnt][i] = <<hdr_array[crnt_buff_cnt], r_rd_cnt + i>>
    BY <1>1, <2>2, <2>3 DEF Contents
  <2>5. /\ Head(buf[crnt_buff_cnt]) = <<hdr_array[crnt_buff_cnt], r_rd_cnt + 1>>
        /\ Tail(buf[crnt_buff_cnt]) = <<>> <=> r_rd_cnt = RdWords - 1
    <3> DEFINE s == buf[crnt_buff_cnt]
               p == hdr_array[crnt_buff_cnt]
    <3>1. /\ s \in Seq(Pkts \X (1 .. RdWords)) /\ r_rd_cnt \in Nat /\ s # <<>>
          /\ Len(s) = RdWords - r_rd_cnt
          /\ Section(s, p, r_rd_cnt)
      BY <1>1, <2>2, <2>4 DEF Section
    <3> HIDE DEF s, p
    <3>2. /\ Head(s) = <<p, r_rd_cnt + 1>>
          /\ Tail(s) = <<>> <=> r_rd_cnt = RdWords - 1
      BY <3>1, TakeWord
    <3> QED BY <3>2 DEF s, p
  <2>6. r_rd_cnt = RdWords - 1 <=> r_state' = "switch_next_buff"
    BY <1>1, <2>1, ReaderEdges, Sizes
  <2> QED BY <2>2, <2>5, <2>6
<1>4. Freed => /\ crnt_buff_cnt = Oldest
               /\ r_state = "rd_buff" => RdReq
               /\ r_state = "idle" => ClearNow
  BY ReaderEdges DEF Freed, Oldest, RdReq
<1>5. Freed => crnt_buff_cnt \in Occupied
  BY <1>1, <1>2, <1>3, <1>4 DEF Freed, Occupied, ClearNow
<1>6. Oldest' = IF Freed THEN NextBuffer(Oldest) ELSE Oldest
  <2>1. Oldest' = IF r_state' \in {"clr_buff", "switch_next_buff"}
                    THEN NextBuffer(crnt_buff_cnt') ELSE crnt_buff_cnt'
    BY DEF Oldest
  <2>2. CASE r_state \in {"idle", "rd_buff"}
    BY <2>1, <2>2, ReaderEdges DEF Oldest, Freed
  <2>3. CASE r_state \in {"clr_buff", "switch_next_buff", "rd_hold", "check_next_buf"}
    BY <2>1, <2>3, ReaderEdges DEF Oldest, Freed
  <2> QED BY <2>2, <2>3, PlaceTypes DEF ReaderStates
<1> QED BY <1>2, <1>3, <1>4, <1>5, <1>6

\* A packet enters the ring when it gets its buffer and leaves it when the
\* reader gives the buffer up.
LEMMA OccupiedTick ==
  ASSUME IInv, WriterPlace, HeaderPlace, Contents, LevelsTrue, ReaderPlace, Tick
  PROVE  Occupied' = {b \in Occupied : ~(Freed /\ b = crnt_buff_cnt)}
                       \cup {b \in {current_buff_cnt} : w_state = "switch_next_buff"}
<1>1. current_buff_cnt \in Buffers /\ Occupied \subseteq Buffers
  BY PlaceTypes DEF Occupied
<1>2. Occupied' = {b \in Buffers : buf'[b] # <<>> \/ BeingFilled(b)'}
  BY DEF Occupied
<1> SUFFICES ASSUME NEW b \in Buffers
             PROVE  buf'[b] # <<>> \/ BeingFilled(b)' <=>
                      \/ b \in Occupied /\ ~(Freed /\ b = crnt_buff_cnt)
                      \/ w_state = "switch_next_buff" /\ b = current_buff_cnt
  BY <1>1, <1>2
<1>3. b \in Occupied <=> buf[b] # <<>> \/ BeingFilled(b)
  BY DEF Occupied
<1>4. CASE w_state = "switch_next_buff" /\ b = current_buff_cnt
  BY <1>4, FillingWhich
<1>5. CASE BeingFilled(b)
  <2>1. ~(Freed /\ b = crnt_buff_cnt)
    BY <1>5, FreedFacts DEF Freed, ClearNow
  <2>2. buf'[b] # <<>> \/ BeingFilled(b)'
    <3> SUFFICES ASSUME ~BeingFilled(b)' PROVE buf'[b] # <<>>
      OBVIOUS
    <3>1. w_state = "wait_wr_end" /\ ~in_pct_data_valid
      BY <1>5, FillingWhich
    <3>2. Len(buf'[b]) = RdWords
      BY <1>5, <3>1, LastWordStored, FillingContents DEF RdWords
    <3> QED BY <3>2, Sizes, EmptySeq
  <2> QED BY <1>3, <1>5, <2>1, <2>2
<1>6. CASE ~BeingFilled(b) /\ ~(w_state = "switch_next_buff" /\ b = current_buff_cnt)
  <2>1. ~BeingFilled(b)' /\ pct_data_wrreq # b
    BY <1>6, FillingWhich, BufferTick
  <2>2. CASE Clearing(b)
    <3>1. buf'[b] = <<>> /\ b = crnt_buff_cnt
      BY <2>2, BufferTick
    <3>2. r_state = "clr_buff" => buf[b] = <<>>
      BY <3>1 DEF ReaderPlace
    <3>3. r_state # "clr_buff" => Freed
      BY <2>2, ClearingFacts DEF Freed
    <3> QED BY <1>3, <1>6, <2>1, <3>1, <3>2, <3>3
  <2>3. CASE BuffRdReq(b)
    <3>1. RdReq /\ b = crnt_buff_cnt /\ buf'[b] = Tail(buf[b]) /\ buf[b] # <<>>
      BY <2>3, BufferTick DEF BuffRdReq
    <3>2. Freed <=> r_state' = "switch_next_buff"
      BY <3>1 DEF Freed, RdReq
    <3> QED BY <1>3, <1>6, <2>1, <3>1, <3>2, FreedFacts
  <2>4. CASE ~Clearing(b) /\ ~BuffRdReq(b)
    <3>1. buf'[b] = buf[b]
      BY <2>1, <2>4, BufferTick
    <3>2. ~(Freed /\ b = crnt_buff_cnt)
      <4> SUFFICES ASSUME Freed, b = crnt_buff_cnt PROVE FALSE
        OBVIOUS
      <4>1. CASE r_state = "idle"
        BY <2>4, <4>1, ClearingFacts, FreedFacts DEF Freed
      <4>2. CASE r_state = "rd_buff"
        BY <2>4, <4>2, FreedFacts DEF BuffRdReq
      <4> QED BY <4>1, <4>2 DEF Freed
    <3> QED BY <1>3, <1>6, <2>1, <3>1, <3>2
  <2> QED BY <2>2, <2>3, <2>4
<1> QED BY <1>4, <1>5, <1>6

\* What an edge throws away: the packet whose header has missed its sample
\* number, or the one in the buffer of the reader.
LEMMA DroppedTick ==
  ASSUME IInv, HeaderPlace, Contents, LevelsTrue, ReaderPlace, Tick
  PROVE  /\ WriterDrop = IF w_state' = "clr_fifo" THEN {sent} ELSE {}
         /\ ReaderDrop = IF Freed /\ r_state = "idle" THEN {hdr_array[crnt_buff_cnt]} ELSE {}
         /\ dropped' = dropped \cup WriterDrop \cup ReaderDrop
         /\ w_state' = "clr_fifo" => w_state = "check_smpl_nr" /\ sent = Passed + 1
<1>1. w_state' = "clr_fifo" => w_state = "check_smpl_nr"
  BY WriterEdges
<1>2. w_state = "check_smpl_nr" => pct_hdr = sent /\ sent = Passed + 1
  <2>1. w_state = "check_smpl_nr" => HeaderAge >= 2
    BY DEF HeaderAge
  <2> QED BY <2>1, HeaderAgeTick, PassedFacts
<1>3. WriterDrop = IF w_state' = "clr_fifo" THEN {sent} ELSE {}
  BY <1>1, <1>2 DEF WriterDrop
<1>4. r_state' = "clr_buff" <=> Freed /\ r_state = "idle"
  BY ReaderEdges DEF Freed, ReaderStates
<1>5. Freed /\ r_state = "idle" =>
        buf[crnt_buff_cnt] # <<>> /\ Head(buf[crnt_buff_cnt])[1] = hdr_array[crnt_buff_cnt]
  BY FreedFacts DEF ClearNow
<1>6. ReaderDrop = IF Freed /\ r_state = "idle" THEN {hdr_array[crnt_buff_cnt]} ELSE {}
  BY <1>4, <1>5 DEF ReaderDrop
<1> QED BY <1>1, <1>2, <1>3, <1>6 DEF Tick

\* An edge keeps the ring, and what left last comes before it.
LEMMA TickRing ==
  ASSUME IInv, RingInv, Tick
  PROVE  /\ Ring(Occupied', hdr_array', next_buff_cnt', Oldest', dropped', Passed')
         /\ \A v \in Nat :
              \/ ~(Freed /\ r_state = "rd_buff")
                   /\ After(Occupied, hdr_array, Oldest, dropped, Passed, v)
              \/ Freed /\ v = hdr_array[crnt_buff_cnt]
              => After(Occupied', hdr_array', Oldest', dropped', Passed', v)
<1> DEFINE O == Occupied
           h == hdr_array
           nx == next_buff_cnt
           t == Oldest
           m == Passed
           O1 == {b \in O : ~(Freed /\ b = crnt_buff_cnt)}
           dr1 == dropped \cup ReaderDrop
           Before(v) == \/ ~(Freed /\ r_state = "rd_buff") /\ After(O, h, t, dropped, m, v)
                        \/ Freed /\ v = h[crnt_buff_cnt]
<1>1. /\ WriterPlace /\ HeaderPlace /\ Contents /\ LevelsTrue /\ ReaderPlace /\ Drops
      /\ Ring(O, h, nx, t, dropped, m)
  BY DEF RingInv
<1>2. /\ O \in SUBSET Buffers /\ h \in [Buffers -> Nat] /\ h' \in [Buffers -> Nat]
      /\ nx \in Buffers /\ t \in Buffers /\ Oldest' \in Buffers
  <2>1. Pkts \cup {NoPkt} \subseteq Nat
    BY Sizes DEF Pkts, NoPkt
  <2>2. h' \in [Buffers -> Nat]
    BY <2>1, TickTypeOKReader DEF TypeOKReader
  <2>3. t \in Buffers
    BY PlaceTypes, NextBufferFacts DEF Oldest
  <2>4. Oldest' \in Buffers
    BY <1>1, <2>3, FreedFacts, NextBufferFacts
  <2> QED BY <2>2, <2>3, <2>4, PlaceTypes DEF Occupied
<1>3. m \in Nat
  BY PassedFacts DEF Pkts
<1>4. /\ dropped' = dropped \cup WriterDrop \cup ReaderDrop
      /\ w_state' = "clr_fifo" => w_state = "check_smpl_nr" /\ sent = m + 1
      /\ WriterDrop = IF w_state' = "clr_fifo" THEN {sent} ELSE {}
      /\ ReaderDrop = IF Freed /\ r_state = "idle" THEN {h[crnt_buff_cnt]} ELSE {}
  BY <1>1, DroppedTick
<1>5. /\ Oldest' = IF Freed THEN NextBuffer(t) ELSE t
      /\ Freed => t \in O /\ t = crnt_buff_cnt
  BY <1>1, FreedFacts
<1>6. /\ Ring(O1, h, nx, Oldest', dr1, m)
      /\ \A v \in Nat : Before(v) => After(O1, h, Oldest', dr1, m, v)
  <2>1. CASE Freed
    <3>1. O1 = O \ {t} /\ Oldest' = NextBuffer(t)
      BY <1>5, <2>1
    <3>2. dropped \subseteq dr1 /\ dr1 \subseteq dropped \cup {h[t]}
      BY <1>4, <1>5, <2>1
    <3>3. r_state = "rd_buff" \/ h[t] \in dr1
      BY <1>4, <1>5, <2>1 DEF Freed
    <3>4. t \in O
      BY <1>5, <2>1
    <3> HIDE DEF O, h, nx, t, m, O1, dr1
    <3>5. /\ Ring(O \ {t}, h, nx, NextBuffer(t), dr1, m)
          /\ After(O \ {t}, h, NextBuffer(t), dr1, m, h[t])
          /\ \A v \in Nat : After(O, h, t, dropped, m, v) /\ h[t] \in dr1 =>
               After(O \ {t}, h, NextBuffer(t), dr1, m, v)
      BY <1>1, <1>2, <1>3, <3>2, <3>4, RingTake
    <3> QED BY <1>5, <2>1, <3>1, <3>3, <3>5
  <2>2. CASE ~Freed
    <3>1. O1 = O /\ Oldest' = t /\ dr1 = dropped
      BY <1>4, <1>5, <2>2
    <3> HIDE DEF O, h, nx, t, m, O1, dr1
    <3> QED BY <1>1, <2>2, <3>1
  <2> QED BY <2>1, <2>2
<1>7. /\ \A b \in O : h[b] \in 1 .. m /\ h[b] < m + 1
      /\ O1 \subseteq O /\ O1 \in SUBSET Buffers
  BY <1>1, <1>2, <1>3 DEF Ring
<1>8. /\ dr1 \subseteq dropped' /\ \A b \in O1 : h[b] \notin dropped'
  <2>1. \A b \in O1 : h[b] \notin dr1
    BY <1>6 DEF Ring
  <2> QED BY <1>3, <1>4, <1>7, <2>1
<1>9. /\ Ring(O1, h, nx, Oldest', dropped', m)
      /\ \A v \in Nat : Before(v) => After(O1, h, Oldest', dropped', m, v)
  <2> HIDE DEF O, h, nx, t, m, O1, dr1, Before
  <2> QED BY <1>6, <1>7, <1>8, RingDrop
<1>10. \A b \in O1 : h'[b] = h[b]
  BY <1>1, <1>2, HeaderKept DEF Occupied
<1>11. CASE w_state = "switch_next_buff"
  <2>1. /\ next_buff_cnt' = NextBuffer(nx) /\ h'[nx] = m + 1 /\ Passed' = m + 1
        /\ nx = current_buff_cnt /\ buf[nx] = <<>>
    <3>1. nx = current_buff_cnt
      BY <1>1, <1>11 DEF WriterPlace, Ready, Filling, Filled
    <3> QED BY <1>1, <1>3, <1>11, <3>1, BufferTaken
  <2>2. Occupied' = O1 \cup {nx}
    BY <1>1, <1>11, <2>1, OccupiedTick
  <2>3. nx \notin O1
    BY <1>2, <1>11, <1>1, <2>1, FillingWhich DEF Occupied
  <2>4. m + 1 \notin dropped'
    <3>1. dropped \subseteq 1 .. m
      BY <1>1, <1>11 DEF Drops
    <3>2. w_state' # "clr_fifo"
      BY <1>4, <1>11
    <3>3. ReaderDrop \subseteq 1 .. m
      BY <1>4, <1>5, <1>7
    <3> QED BY <1>3, <1>4, <3>1, <3>2, <3>3
  <2> HIDE DEF O, h, nx, t, m, O1, dr1, Before
  <2>5. /\ Ring(O1 \cup {nx}, h', NextBuffer(nx), Oldest', dropped', m + 1)
        /\ \A v \in Nat : After(O1, h, Oldest', dropped', m, v) =>
             After(O1 \cup {nx}, h', Oldest', dropped', m + 1, v)
    <3> DEFINE h2 == h'
               t2 == Oldest'
               dr2 == dropped'
    <3>1. /\ h2 \in [Buffers -> Nat] /\ h2[nx] = m + 1 /\ \A b \in O1 : h2[b] = h[b]
          /\ Ring(O1, h, nx, t2, dr2, m) /\ t2 \in Buffers /\ m + 1 \notin dr2
      BY <1>2, <1>9, <1>10, <2>1, <2>4
    <3> HIDE DEF h2, t2, dr2
    <3>2. /\ Ring(O1 \cup {nx}, h2, NextBuffer(nx), t2, dr2, m + 1)
          /\ \A v \in Nat : After(O1, h, t2, dr2, m, v) =>
               After(O1 \cup {nx}, h2, t2, dr2, m + 1, v)
      BY <1>2, <1>3, <1>7, <2>3, <3>1, RingPut
    <3> QED BY <3>2 DEF h2, t2, dr2
  <2>6. h' = hdr_array'
    BY DEF h
  <2> QED BY <1>9, <2>1, <2>2, <2>5, <2>6 DEF O, h, t, m, Before
<1>12. CASE w_state # "switch_next_buff"
  <2>1. Occupied' = O1
    BY <1>1, <1>12, OccupiedTick
  <2>2. next_buff_cnt' = nx
    BY <1>12 DEF Tick, WriterStep, NextBuffSel
  <2>3. /\ Ring(O1, h, nx, Oldest', dropped', Passed')
        /\ \A v \in Nat : Before(v) => After(O1, h, Oldest', dropped', Passed', v)
    <3>1. CASE w_state = "clr_fifo"
      <4>1. Passed' = m + 1
        BY <3>1, PassedTick
      <4>2. m + 1 \in dropped'
        <5>1. sent \in dropped
          BY <1>1, <3>1 DEF Drops
        <5>2. m + 1 = sent
          BY <3>1, PassedFacts
        <5> QED BY <1>4, <5>1, <5>2
      <4> HIDE DEF O, h, nx, t, m, O1, dr1, Before
      <4> QED BY <1>2, <1>3, <1>7, <1>9, <4>1, <4>2, RingPass
    <3>2. CASE w_state # "clr_fifo"
      <4>1. Passed' = m
        BY <1>12, <3>2, PassedTick
      <4> HIDE DEF O, h, nx, t, m, O1, dr1, Before
      <4> QED BY <1>9, <4>1
    <3> QED BY <3>1, <3>2
  <2>4. \A b \in O1 : h'[b] = h[b]
    BY <1>10
  <2>5. h' = hdr_array'
    OBVIOUS
  <2> HIDE DEF O, h, nx, t, m, O1, dr1, Before
  <2>6. /\ Ring(O1, h', nx, Oldest', dropped', Passed')
        /\ \A v \in Nat : Before(v) => After(O1, h', Oldest', dropped', Passed', v)
    <3> DEFINE h2 == h'
               t2 == Oldest'
               dr2 == dropped'
               m2 == Passed'
    <3>1. \A b \in O1 : h2[b] = h[b]
      BY <2>4
    <3>2. Ring(O1, h, nx, t2, dr2, m2)
          /\ \A v \in Nat : Before(v) => After(O1, h, t2, dr2, m2, v)
      BY <2>3
    <3> HIDE DEF h2, t2, dr2, m2
    <3>3. Ring(O1, h2, nx, t2, dr2, m2)
      BY <3>1, <3>2, RingHeaders
    <3>4. ASSUME NEW v \in Nat, Before(v) PROVE After(O1, h2, t2, dr2, m2, v)
      BY <3>1, <3>2, <3>4, RingHeaders
    <3> QED BY <3>3, <3>4 DEF h2, t2, dr2, m2
  <2> QED BY <2>1, <2>2, <2>5, <2>6 DEF O, h, t, m, Before
<1> QED BY <1>11, <1>12

\* The packets in the ring are packets the host sent.
LEMMA RingPackets ==
  ASSUME IInv, RingInv, NEW b \in Occupied
  PROVE  /\ b \in Buffers /\ hdr_array[b] \in Pkts
         /\ hdr_array[b] \in 1 .. Passed /\ hdr_array[b] \notin dropped
         /\ Compare(hdr_array[b]) = phase[hdr_array[b]]
<1>1. b \in Buffers
  BY DEF Occupied
<1>2. hdr_array[b] \in (1 .. Passed) \ dropped
  BY DEF RingInv, Ring
<1>3. hdr_array[b] \in Pkts \cup {NoPkt} /\ hdr_array[b] # NoPkt
  <2>1. NoPkt \notin 1 .. Passed
    BY PassedFacts DEF NoPkt
  <2> QED BY <1>1, <1>2, <2>1, PlaceTypes
<1> QED BY <1>1, <1>2, <1>3 DEF Compare

\* An edge moves the verdicts on; those on a packet that gets its buffer have
\* settled before.
LEMMA TickVerdicts ==
  ASSUME IInv, RingInv, Tick PROVE Verdicts'
<1> USE DEF RingInv
<1> SUFFICES ASSUME NEW b \in Occupied', NEW i \in 1 .. 3
             PROVE  Verdict(cmp_pipe[b][i], hdr_array[b])'
  BY DEF Verdicts
<1>1. phase' = phase
  BY DEF Tick
<1>2. b \in Buffers
  BY DEF Occupied
<1>3. cmp_pipe'[b][i] = IF i = 1 THEN Compare(hdr_array[b]) ELSE cmp_pipe[b][i - 1]
  BY <1>2 DEF Tick, ReaderStep, Comparators
<1>4. i # 1 => i - 1 \in 1 .. 3
  OBVIOUS
<1>5. /\ hdr_array'[b] = hdr_array[b] /\ Compare(hdr_array[b]) = phase[hdr_array[b]]
      /\ \A j \in 1 .. 3 : Verdict(cmp_pipe[b][j], hdr_array[b])
  <2>1. CASE b \in Occupied
    <3>1. hdr_array'[b] = hdr_array[b]
      BY <1>2, <2>1, HeaderKept DEF Occupied
    <3> QED BY <2>1, <3>1, RingPackets DEF Verdicts
  <2>2. CASE w_state = "switch_next_buff" /\ b = current_buff_cnt
    <3>1. hdr_array[b] = sent /\ hdr_array'[b] = sent /\ sent \in Pkts
      BY <2>2, BufferTaken, PassedFacts
    <3>2. HeaderAge = 6
      BY <2>2 DEF HeaderAge
    <3>3. \A j \in 1 .. 3 : Verdict(cmp_pipe[b][j], sent)
      BY <2>2, <3>2 DEF HeaderPlace
    <3>4. Compare(sent) = phase[sent]
      BY <3>1 DEF Compare, Pkts, NoPkt
    <3> QED BY <3>1, <3>3, <3>4
  <2> QED BY <2>1, <2>2, OccupiedTick
<1>6. Verdict(phase[hdr_array[b]], hdr_array[b])
  BY DEF Verdict
<1>7. Verdict(cmp_pipe'[b][i], hdr_array[b])
  BY <1>3, <1>4, <1>5, <1>6
<1> QED BY <1>1, <1>5, <1>7 DEF Verdict

\* A whole packet stays whole until the reader takes it.
LEMMA FullKept ==
  ASSUME IInv, RingInv, Tick, NEW b \in Buffers, Full(b)
  PROVE  /\ buf[b] # <<>> /\ b \in Occupied /\ ~BeingFilled(b) /\ ~BeingFilled(b)'
         /\ ~Clearing(b) /\ ~BuffRdReq(b) => Full(b)'
<1> USE DEF RingInv
<1>1. Len(buf[b]) = RdWords /\ ~BeingFilled(b)
  BY DEF Full
<1>2. buf[b] # <<>>
  BY <1>1, Sizes, EmptySeq
<1>3. ~BeingFilled(b)'
  BY <1>1, <1>2, FillingWhich, BufferTaken
<1>4. ~Clearing(b) /\ ~BuffRdReq(b) => buf'[b] = buf[b]
  BY <1>1, BufferTick
<1> QED BY <1>1, <1>2, <1>3, <1>4 DEF Full, Occupied

\* An edge keeps what the reader sees of the buffers true.
LEMMA TickLevelsTrue ==
  ASSUME IInv, RingInv, Tick PROVE LevelsTrue'
<1>0. /\ WriterPlace /\ HeaderPlace /\ Contents /\ LevelsTrue /\ ReaderPlace /\ Verdicts
      /\ crnt_buff_cnt \in Buffers
  BY PlaceTypes DEF RingInv
<1>1. ASSUME NEW b \in Buffers, level'[b] # "less"
      PROVE  level'[b] = "equal" /\ Full(b)'
  <2>1. level'[b] \in LevelAfter(b)
    BY DEF Tick, Fifos
  <2>2. level[b] # "more"
    BY <1>0 DEF LevelsTrue
  <2>3. ~Clearing(b) /\ ~BuffRdReq(b) /\ level'[b] = level[b]
    <3>1. LevelAfter(b) = CASE Clearing(b) -> {"less"}
                            [] ~Clearing(b) /\ BuffRdReq(b) -> {"less"}
                            [] OTHER -> {level[b]}
      BY <2>2 DEF LevelAfter
    <3> HIDE DEF Clearing, BuffRdReq
    <3>2. CASE Clearing(b) BY <1>1, <2>1, <3>1, <3>2
    <3>3. CASE ~Clearing(b) /\ BuffRdReq(b) BY <1>1, <2>1, <3>1, <3>3
    <3>4. CASE ~Clearing(b) /\ ~BuffRdReq(b) BY <1>1, <2>1, <3>1, <3>4
    <3> QED BY <3>2, <3>3, <3>4
  <2>4. level[b] = "equal" /\ Full(b)
    BY <1>0, <1>1, <2>3 DEF LevelsTrue
  <2> QED BY <2>3, <2>4, FullKept
<1>2. ASSUME NEW b \in Buffers, buff_rdy'[b]
      PROVE  Full(b)' \/ (b = crnt_buff_cnt' /\ r_state' \notin {"idle", "check_next_buf"})
  <2>1. level[b] = "equal"
    BY <1>2 DEF Tick, PctBuffRdy
  <2>2. Full(b)
    BY <1>0, <2>1 DEF LevelsTrue
  <2>3. CASE ~Clearing(b) /\ ~BuffRdReq(b)
    BY <2>2, <2>3, FullKept
  <2>4. CASE Clearing(b)
    <3>1. b = crnt_buff_cnt /\ (r_state = "clr_buff" \/ (r_state = "idle" /\ r_state' = "clr_buff"))
      BY <2>4, ClearingFacts
    <3> QED BY <3>1, ReaderEdges
  <2>5. CASE BuffRdReq(b)
    <3>1. b = crnt_buff_cnt /\ r_state = "rd_buff"
      BY <2>5 DEF BuffRdReq, RdReq
    <3> QED BY <3>1, ReaderEdges
  <2> QED BY <2>3, <2>4, <2>5
<1>3. ASSUME r_state' = "idle", crnt_buff_rdy'
      PROVE  /\ Full(crnt_buff_cnt)'
             /\ Verdict(crnt_buff_cmp, hdr_array[crnt_buff_cnt])'
             /\ crnt_buff_pct_synch_dis' = (hdr_array'[crnt_buff_cnt'] \in nosync')
  <2>1. r_state \in {"idle", "check_next_buf"} /\ crnt_buff_cnt' = crnt_buff_cnt
    BY <1>3, ReaderEdges DEF ReaderStates
  <2>2. buff_rdy[crnt_buff_cnt]
    BY <1>3 DEF Tick, ReaderStep, CrntBuffSel
  <2>3. Full(crnt_buff_cnt)
    BY <1>0, <2>1, <2>2 DEF LevelsTrue
  <2>4. ~Clearing(crnt_buff_cnt) /\ ~BuffRdReq(crnt_buff_cnt)
    BY <1>0, <1>3, <2>1, ClearingFacts DEF BuffRdReq, RdReq
  <2>5. Full(crnt_buff_cnt)' /\ crnt_buff_cnt \in Occupied
    <3> DEFINE b == crnt_buff_cnt
    <3>1. Full(b)' /\ b \in Occupied
      <4>1. \A d \in Buffers : Full(d) /\ ~Clearing(d) /\ ~BuffRdReq(d) =>
              /\ d \in Occupied /\ ~BeingFilled(d)'
              /\ buf'[d] = buf[d]
        BY <1>0, FullKept, BufferTick
      <4>2. buf'[b] = buf[b] /\ ~(Filling' /\ b = current_buff_cnt') /\ b \in Occupied
        BY <1>0, <2>3, <2>4, <4>1 DEF BeingFilled
      <4>3. Len(buf[b]) = RdWords
        BY <2>3 DEF Full
      <4> QED BY <2>1, <4>2, <4>3 DEF Full, BeingFilled
    <3> QED BY <3>1
  <2>6. hdr_array'[crnt_buff_cnt] = hdr_array[crnt_buff_cnt]
    BY <1>0, <2>5, HeaderKept DEF Occupied
  <2>7. /\ crnt_buff_cmp' = cmp_pipe[crnt_buff_cnt][3]
        /\ crnt_buff_pct_synch_dis' = (hdr_array[crnt_buff_cnt] \in nosync)
        /\ phase' = phase /\ nosync' = nosync
    BY DEF Tick, ReaderStep, CrntBuffSel
  <2>8. Verdict(cmp_pipe[crnt_buff_cnt][3], hdr_array[crnt_buff_cnt])
    BY <1>0, <2>5 DEF Verdicts
  <2>9. Verdict(crnt_buff_cmp, hdr_array[crnt_buff_cnt])'
    BY <2>1, <2>6, <2>7, <2>8 DEF Verdict
  <2> QED BY <2>1, <2>5, <2>6, <2>7, <2>9
<1> QED BY <1>1, <1>2, <1>3 DEF LevelsTrue

\* An edge keeps the reader and the writer out of each other's buffer.
LEMMA TickReaderPlace ==
  ASSUME IInv, RingInv, Tick PROVE ReaderPlace'
<1>0. /\ WriterPlace /\ HeaderPlace /\ Contents /\ LevelsTrue /\ ReaderPlace
      /\ crnt_buff_cnt \in Buffers /\ next_buff_cnt \in Buffers /\ current_buff_cnt \in Buffers
  BY PlaceTypes DEF RingInv
<1> DEFINE c == crnt_buff_cnt
<1>1. r_state \in {"rd_buff", "rd_hold"} \/ (r_state = "idle" /\ crnt_buff_rdy) =>
        buf[c] # <<>> /\ ~BeingFilled(c)
  BY <1>0, FreedFacts DEF ReaderPlace
<1>2. buf[c] # <<>> => ~wrempty[c]
  BY <1>0 DEF WriterPlace
<1>3. r_state' \in {"rd_buff", "rd_hold"} =>
        /\ r_state \in {"rd_buff", "rd_hold"} \/ (r_state = "idle" /\ crnt_buff_rdy)
        /\ c' = c
  BY ReaderEdges DEF ReaderStates, ReadNow
<1>4. r_state' \in {"clr_buff", "switch_next_buff"} =>
        /\ \/ r_state = "rd_buff" /\ r_state' = "switch_next_buff" /\ RdReq
           \/ r_state = "idle" /\ crnt_buff_rdy /\ r_state' = "clr_buff" /\ ClearNow
           \/ r_state = "clr_buff"
        /\ c' = c
  BY ReaderEdges DEF ReaderStates, ClearNow, RdReq
<1>5. buf[c] # <<>> /\ ~BeingFilled(c) => ~(Filling' /\ c = current_buff_cnt')
  <2>1. \A b \in Buffers : BeingFilled(b)' => BeingFilled(b) \/
              (w_state = "switch_next_buff" /\ b = current_buff_cnt)
    BY <1>0, FillingWhich
  <2>2. \A b \in Buffers : BeingFilled(b)' <=> Filling' /\ b = current_buff_cnt'
    BY DEF BeingFilled
  <2>3. w_state = "switch_next_buff" => buf[current_buff_cnt] = <<>>
    BY <1>0, BufferTaken
  <2> QED BY <1>0, <2>1, <2>2, <2>3
<1>6. ASSUME r_state' \in {"rd_buff", "rd_hold"}
      PROVE  buf'[c'] # <<>> /\ ~(Filling' /\ c' = current_buff_cnt')
  <2>1. buf[c] # <<>> /\ ~BeingFilled(c) /\ c' = c
    BY <1>1, <1>3, <1>6
  <2>2. ~Clearing(c)
    <3>1. r_state # "clr_buff" /\ r_state' # "clr_buff"
      BY <1>3, <1>6
    <3> QED BY <1>0, <3>1, ClearingFacts
  <2>3. pct_data_wrreq # c
    BY <1>0, <2>1, BufferTick
  <2>4. buf'[c] # <<>>
    <3>1. CASE RdReq
      <4>1. buf'[c] = Tail(buf[c])
        BY <1>0, <3>1, BufferTick DEF BuffRdReq
      <4> QED BY <1>0, <1>6, <3>1, <4>1, FreedFacts
    <3>2. CASE ~RdReq
      BY <1>0, <2>1, <2>2, <2>3, <3>2, BufferTick DEF BuffRdReq
    <3> QED BY <3>1, <3>2
  <2> QED BY <1>5, <2>1, <2>4
<1>7. ASSUME r_state' \in {"clr_buff", "switch_next_buff"}
      PROVE  buf'[c'] = <<>> /\ (c' = current_buff_cnt' => Filled')
  <2>1. c' = c
    BY <1>4, <1>7
  <2>2. buf'[c] = <<>>
    <3>1. CASE r_state = "rd_buff" /\ r_state' = "switch_next_buff" /\ RdReq
      <4>1. buf'[c] = Tail(buf[c])
        BY <1>0, <3>1, BufferTick DEF BuffRdReq
      <4> QED BY <1>0, <3>1, <4>1, FreedFacts
    <3>2. CASE r_state = "clr_buff" \/ (r_state = "idle" /\ r_state' = "clr_buff" /\ ClearNow)
      <4>1. Clearing(c)
        BY <1>0, <3>2, ClearingFacts
      <4> QED BY <1>0, <4>1, BufferTick
    <3> QED BY <1>4, <1>7, <3>1, <3>2
  <2>3. ASSUME c = current_buff_cnt' PROVE Filled'
    <3>1. current_buff_cnt' = IF Filled THEN next_buff_cnt ELSE current_buff_cnt
      BY DEF Filled, Tick, WriterStep, CurrentBuffSel
    <3>2. Filled /\ ~next_buff_rdy => Filled'
      BY WriterEdges DEF Filled
    <3>3. CASE r_state = "clr_buff"
      <4>1. /\ c = current_buff_cnt => Filled
            /\ Filled /\ c = next_buff_cnt => ~next_buff_rdy
        BY <1>0, <3>3 DEF ReaderPlace
      <4> QED BY <2>3, <3>1, <3>2, <4>1
    <3>4. CASE r_state # "clr_buff"
      <4>1. buf[c] # <<>> /\ ~BeingFilled(c) /\ ~wrempty[c]
        BY <1>1, <1>2, <1>4, <1>7, <3>4
      <4>2. CASE Filled
        <5>1. ~next_buff_rdy
          BY <1>0, <2>3, <3>1, <4>1, <4>2 DEF WriterPlace, Filled
        <5> QED BY <3>2, <4>2, <5>1
      <4>3. CASE Filling
        BY <2>3, <3>1, <4>1, <4>3 DEF BeingFilled, Filling, Filled
      <4>4. CASE Ready
        BY <1>0, <2>3, <3>1, <4>1, <4>4 DEF WriterPlace, Ready
      <4> QED BY <4>2, <4>3, <4>4 DEF Ready
    <3> QED BY <3>3, <3>4
  <2> QED BY <2>1, <2>2, <2>3
<1>8. ASSUME r_state' = "clr_buff", Filled', c' = next_buff_cnt' PROVE ~next_buff_rdy'
  <2>1. c' = c /\ r_state = "idle" /\ crnt_buff_rdy
    BY <1>4, <1>8, ReaderEdges
  <2>2. next_buff_rdy' = wrempty[next_buff_cnt]
    BY DEF Tick, WriterStep, NextBuffSel
  <2>3. next_buff_cnt' = next_buff_cnt
    <3>1. w_state # "switch_next_buff"
      BY <1>8, WriterEdges
    <3> QED BY <3>1 DEF Tick, WriterStep, NextBuffSel
  <2> QED BY <1>1, <1>2, <1>8, <2>1, <2>2, <2>3
<1> QED BY <1>6, <1>7, <1>8 DEF ReaderPlace, BeingFilled

\* An edge throws away late packets only.
LEMMA TickDrops ==
  ASSUME IInv, RingInv, Tick PROVE Drops'
<1>0. /\ WriterPlace /\ HeaderPlace /\ Contents /\ LevelsTrue /\ ReaderPlace /\ Drops
  BY DEF RingInv
<1>1. /\ WriterDrop = IF w_state' = "clr_fifo" THEN {sent} ELSE {}
      /\ ReaderDrop = IF Freed /\ r_state = "idle" THEN {hdr_array[crnt_buff_cnt]} ELSE {}
      /\ dropped' = dropped \cup WriterDrop \cup ReaderDrop
      /\ w_state' = "clr_fifo" => w_state = "check_smpl_nr" /\ sent = Passed + 1
  BY <1>0, DroppedTick
<1>2. /\ sent' = sent /\ phase' = phase /\ nosync' = nosync /\ pct_sync_dis' = pct_sync_dis
      /\ sent \in Nat /\ Passed \in Nat
      /\ Passed <= sent
      /\ w_state = "clr_fifo" => sent = Passed + 1
  BY PassedFacts DEF Tick, Pkts
<1>3. Freed => hdr_array[crnt_buff_cnt] \in 1 .. Passed
  BY <1>0, FreedFacts, RingPackets
<1>4. ReaderDrop \subseteq 1 .. Passed
  BY <1>1, <1>3
<1>5. w_state' = "clr_fifo" => sent > 0
  BY <1>1, <1>2
<1>6. dropped' \subseteq 1 .. sent
  <2>1. WriterDrop \subseteq 1 .. sent
    BY <1>1, <1>2, <1>5
  <2>2. 1 .. Passed \subseteq 1 .. sent
    BY <1>2
  <2> QED BY <1>0, <1>1, <1>4, <2>1, <2>2 DEF Drops
<1>7. w_state' = "clr_fifo" => sent \in dropped'
  BY <1>1
<1>8. w_state' # "clr_fifo" => dropped' \subseteq 1 .. Passed'
  <2> SUFFICES ASSUME w_state' # "clr_fifo" PROVE dropped' \subseteq 1 .. Passed'
    OBVIOUS
  <2>1. CASE w_state = "clr_fifo"
    <3>1. Passed' = sent
      BY <1>2, <2>1, PassedTick
    <3> QED BY <1>6, <3>1
  <2>2. CASE w_state # "clr_fifo"
    <3>1. dropped' \subseteq 1 .. Passed
      BY <1>0, <1>1, <1>4, <2>2 DEF Drops
    <3>2. Passed' = Passed \/ Passed' = Passed + 1
      BY PassedTick
    <3>3. 1 .. Passed \subseteq 1 .. Passed'
      BY <1>2, <3>2
    <3> QED BY <3>1, <3>3
  <2> QED BY <2>1, <2>2
<1>9. ASSUME NEW p \in dropped'
      PROVE  phase[p] = "late" /\ p \notin nosync /\ ~pct_sync_dis
  <2>1. CASE p \in dropped
    BY <1>0, <2>1 DEF Drops, DropOnlyLate
  <2>2. CASE p \in WriterDrop
    <3>1. w_state = "check_smpl_nr" /\ MissedSample /\ p = sent
      BY <1>1, <2>2, WriterEdges
    <3>2. HeaderAge = 5
      BY <3>1 DEF HeaderAge
    <3>3. pct_hdr = sent
      BY <3>2, HeaderAgeTick
    <3>4. phase[sent] = "late"
      BY <1>0, <3>1, <3>2 DEF HeaderPlace, MissedSample
    <3> QED BY <3>1, <3>3, <3>4 DEF MissedSample
  <2>3. CASE p \in ReaderDrop
    <3>1. p = hdr_array[crnt_buff_cnt] /\ r_state = "idle" /\ ClearNow
      BY <1>0, <1>1, <2>3, FreedFacts
    <3>2. /\ Verdict(crnt_buff_cmp, p)
          /\ crnt_buff_pct_synch_dis = (p \in nosync)
      BY <1>0, <3>1 DEF LevelsTrue, ClearNow
    <3> QED BY <3>1, <3>2 DEF Verdict, ClearNow, Unsynchronised
  <2> QED BY <1>1, <2>1, <2>2, <2>3
<1> QED BY <1>2, <1>6, <1>7, <1>8, <1>9 DEF Drops, DropOnlyLate

\* The registers behind the reader hold pieces of packets.
LEMMA OutTypes ==
  ASSUME IInv
  PROVE  /\ buf_q[crnt_buff_cnt] \in Pieces /\ BeforeQ \in Pieces /\ LastWord \in Pieces
         /\ BeforeQ[1] \in Nat /\ BeforeQ[2] \in Nat
         /\ LastWord[1] \in Nat /\ LastWord[2] \in Nat
<1>1. buf_q[crnt_buff_cnt] \in Pieces
  BY PlaceTypes DEF IInv, TypeOK
<1>2. BeforeQ \in Pieces
  BY DEF IInv, TypeOK, BeforeQ
<1>3. LastWord \in Pieces
  BY <1>1, <1>2 DEF LastWord
<1>4. \A w \in Pieces : w[1] \in Nat /\ w[2] \in Nat
  BY Sizes DEF Pieces, Pkts, NoPkt
<1> QED BY <1>1, <1>2, <1>3, <1>4

\* What an edge does to the output pipeline: every word moves one register on.
LEMMA OutTick ==
  ASSUME IInv, RingInv, Tick
  PROVE  /\ (smpl_buff_valid_int' <=> RdReq)
         /\ (smpl_buff_valid' <=> smpl_buff_valid_int)
         /\ smpl_buff_q' = buf_q[crnt_buff_cnt] /\ last_out' = BeforeQ
         /\ BeforeQ' = LastWord
         /\ LastWord' = IF RdReq THEN <<hdr_array[crnt_buff_cnt], r_rd_cnt + 1>> ELSE LastWord
         /\ RdReq => buf_q'[crnt_buff_cnt'] = <<hdr_array[crnt_buff_cnt], r_rd_cnt + 1>>
<1>1. /\ (smpl_buff_valid_int' <=> RdReq)
      /\ (smpl_buff_valid' <=> smpl_buff_valid_int)
      /\ smpl_buff_q' = buf_q[crnt_buff_cnt] /\ last_out' = BeforeQ
  BY DEF Tick, OutPipe, BeforeQ
<1>2. BeforeQ' = LastWord
  BY <1>1 DEF BeforeQ, LastWord
<1>3. ASSUME RdReq PROVE buf_q'[crnt_buff_cnt'] = <<hdr_array[crnt_buff_cnt], r_rd_cnt + 1>>
  <2>1. crnt_buff_cnt' = crnt_buff_cnt /\ crnt_buff_cnt \in Buffers
    BY <1>3, ReaderEdges, PlaceTypes DEF RdReq
  <2>2. /\ buf[crnt_buff_cnt] # <<>>
        /\ Head(buf[crnt_buff_cnt]) = <<hdr_array[crnt_buff_cnt], r_rd_cnt + 1>>
    BY <1>3, FreedFacts DEF RingInv
  <2>3. buf_q'[crnt_buff_cnt] = Head(buf[crnt_buff_cnt])
    BY <1>3, <2>1, <2>2 DEF Tick, Fifos, BuffRdReq
  <2> QED BY <2>1, <2>2, <2>3
<1>4. LastWord' = IF RdReq THEN <<hdr_array[crnt_buff_cnt], r_rd_cnt + 1>> ELSE LastWord
  <2>1. LastWord' = IF smpl_buff_valid_int' THEN buf_q'[crnt_buff_cnt'] ELSE BeforeQ'
    BY DEF LastWord
  <2> QED BY <1>1, <1>2, <1>3, <2>1
<1> QED BY <1>1, <1>2, <1>3, <1>4

\* An edge keeps the words that leave in order.
LEMMA TickStream ==
  ASSUME IInv, RingInv, Tick PROVE Stream'
<1> DEFINE c == crnt_buff_cnt
           h == hdr_array[crnt_buff_cnt]
<1>0. /\ WriterPlace /\ HeaderPlace /\ Contents /\ LevelsTrue /\ ReaderPlace /\ Stream
      /\ c \in Buffers /\ r_rd_cnt \in Nat
  BY PlaceTypes DEF RingInv
<1>1. dropped \subseteq dropped'
  BY DEF Tick
<1>2. \A v, w : Follows(v, w) => Follows(v, w)'
  BY <1>1 DEF Follows
<1>3. smpl_buff_valid' => Follows(last_out, smpl_buff_q)'
  <2>1. smpl_buff_valid_int => Follows(BeforeQ, buf_q[c])
    BY <1>0 DEF Stream
  <2>2. last_out' = BeforeQ /\ smpl_buff_q' = buf_q[c]
        /\ (smpl_buff_valid' => smpl_buff_valid_int)
    BY OutTick
  <2> QED BY <1>1, <2>1, <2>2 DEF Follows
<1>4. RdReq => r_state = "rd_buff" /\ c \in Occupied /\ Oldest = c
  BY <1>0 DEF RdReq, ReaderPlace, Occupied, Oldest
<1>5. smpl_buff_valid_int' =>
        /\ Follows(BeforeQ, buf_q[crnt_buff_cnt])'
        /\ r_state' \in {"rd_buff", "rd_hold", "switch_next_buff"}
  <2> SUFFICES ASSUME RdReq
               PROVE  /\ Follows(BeforeQ, buf_q[crnt_buff_cnt])'
                      /\ r_state' \in {"rd_buff", "rd_hold", "switch_next_buff"}
    BY OutTick
  <2>1. r_state' \in {"rd_buff", "rd_hold", "switch_next_buff"}
    BY <1>4, ReaderEdges
  <2>2. Follows(LastWord, <<h, r_rd_cnt + 1>>)
    <3>1. CASE r_rd_cnt > 0
      <4>1. LastWord = <<h, r_rd_cnt>>
        BY <1>0, <1>4, <3>1 DEF Stream, InPacket
      <4> QED BY <4>1 DEF Follows
    <3>2. CASE ~(r_rd_cnt > 0)
      <4>1. LastWord[2] = RdWords /\ r_rd_cnt + 1 = 1
            /\ After(Occupied, hdr_array, Oldest, dropped, Passed, LastWord[1])
        BY <1>0, <3>2 DEF Stream, InPacket
      <4>2. Gap(LastWord[1], h, dropped)
        BY <1>4, <4>1 DEF After
      <4>3. LastWord[1] < h /\ LastWord[1] + 1 .. h - 1 \subseteq dropped
        BY <4>2 DEF Gap
      <4>4. h > LastWord[1]
        BY <1>0, <4>3, OutTypes, PlaceTypes
      <4> DEFINE w == <<h, r_rd_cnt + 1>>
      <4>5. w[1] = h /\ w[2] = 1
        BY <4>1
      <4> HIDE DEF w, h
      <4>6. Follows(LastWord, w)
        BY <4>1, <4>3, <4>4, <4>5 DEF Follows
      <4> QED BY <4>6 DEF w
    <3> QED BY <3>1, <3>2
  <2>3. BeforeQ' = LastWord /\ buf_q'[crnt_buff_cnt'] = <<h, r_rd_cnt + 1>>
    BY OutTick
  <2> QED BY <1>1, <2>1, <2>2, <2>3 DEF Follows
<1>6. InPacket' => LastWord' = <<hdr_array'[crnt_buff_cnt'], r_rd_cnt'>>
  <2> SUFFICES ASSUME r_state' \in {"rd_buff", "rd_hold"}, r_rd_cnt' > 0
               PROVE  LastWord' = <<hdr_array'[crnt_buff_cnt'], r_rd_cnt'>>
    BY DEF InPacket
  <2>1. r_state \in {"rd_buff", "rd_hold"} /\ crnt_buff_cnt' = c
        /\ r_rd_cnt' = IF RdReq THEN r_rd_cnt + 1 ELSE r_rd_cnt
    BY ReaderEdges DEF ReaderStates
  <2>2. hdr_array'[c] = h
    BY <1>0, <2>1, HeaderKept DEF ReaderPlace
  <2>3. CASE RdReq
    BY <2>1, <2>2, <2>3, OutTick
  <2>4. CASE ~RdReq
    <3>1. LastWord = <<h, r_rd_cnt>>
      BY <1>0, <2>1, <2>4 DEF Stream, InPacket
    <3> QED BY <2>1, <2>2, <2>4, <3>1, OutTick
  <2> QED BY <2>3, <2>4
<1>7. ASSUME ~InPacket'
      PROVE  /\ LastWord'[2] = RdWords
             /\ After(Occupied', hdr_array', Oldest', dropped', Passed', LastWord'[1])
  <2>1. CASE Freed /\ r_state = "rd_buff"
    <3>1. RdReq
      BY <1>0, <2>1, FreedFacts
    <3>2. r_rd_cnt = RdWords - 1
      BY <2>1, ReaderEdges DEF Freed
    <3>3. LastWord' = <<h, RdWords>>
      BY <3>1, <3>2, OutTick, Sizes
    <3>4. h \in Nat
      BY <1>0, PlaceTypes
    <3>5. After(Occupied', hdr_array', Oldest', dropped', Passed', h)
      BY <2>1, <3>4, TickRing
    <3> QED BY <3>3, <3>5
  <2>2. CASE ~(Freed /\ r_state = "rd_buff")
    <3>1. ~RdReq /\ ~InPacket
      <4>1. RdReq => r_state = "rd_buff" /\ r_rd_cnt' = r_rd_cnt + 1
                     /\ r_state' \in {"rd_buff", "switch_next_buff"}
        BY ReaderEdges DEF RdReq
      <4>2. ~RdReq
        BY <1>0, <1>7, <2>2, <4>1 DEF InPacket, Freed
      <4>3. r_state \in {"rd_buff", "rd_hold"} =>
              r_state' \in {"rd_buff", "rd_hold"} /\ r_rd_cnt' = r_rd_cnt
        BY <4>2, ReaderEdges DEF RdReq
      <4> QED BY <1>7, <4>2, <4>3 DEF InPacket
    <3>2. /\ LastWord[2] = RdWords /\ LastWord' = LastWord /\ LastWord[1] \in Nat
          /\ After(Occupied, hdr_array, Oldest, dropped, Passed, LastWord[1])
      BY <1>0, <3>1, OutTick, OutTypes DEF Stream
    <3> QED BY <2>2, <3>2, TickRing
  <2> QED BY <2>1, <2>2
<1>8. (~InPacket)' => /\ (LastWord[2] = RdWords)'
                      /\ After(Occupied, hdr_array, Oldest, dropped, Passed, LastWord[1])'
  BY <1>7
<1> QED BY <1>3, <1>5, <1>6, <1>8 DEF Stream

\* A rising edge of tx_clk preserves the invariant.
LEMMA TickRingInv ==
  ASSUME IInv, RingInv, WholePackets, Tick PROVE RingInv'
<1>1. WriterPlace' /\ HeaderPlace' /\ Contents'
  BY TickWriterPlace, TickHeaderPlace, TickContents DEF RingInv
<1>2. Ring(Occupied, hdr_array, next_buff_cnt, Oldest, dropped, Passed)'
  BY TickRing
<1> QED BY <1>1, <1>2, TickVerdicts, TickLevelsTrue, TickReaderPlace, TickStream,
           TickDrops DEF RingInv

-----------------------------------------------------------------------------
(* Between two edges.                                                      *)

\* Time only goes on, and what the registers remember of a packet stays.
TimeGoesOn ==
  /\ \A p \in 1 .. sent : /\ phase[p] = "late" => phase'[p] = "late"
                          /\ phase[p] # "early" => phase'[p] # "early"
                          /\ p \in nosync' <=> p \in nosync
  /\ pct_sync_dis' = pct_sync_dis
  /\ \/ sent' = sent
     \/ sent' = sent + 1 /\ HeaderAge < 3 /\ w_state # "clr_fifo"

\* Neither FSM moves, and no word in the buffers or behind them.
NothingMoves ==
  UNCHANGED <<pct_hdr, pct_hdr_valid, pct_data, pct_data_wrreq, buff_rdy, buf, writerVars,
              readerVars, buf_q, smpl_buff_valid_int, smpl_buff_valid, smpl_buff_q,
              last_out, dropped>>

\* A buffer that looks empty to the writer is.
EmptySeen == \A b \in Buffers : /\ wrempty[b] => wrempty'[b]
                                /\ wrempty'[b] => buf[b] = <<>>

\* A level only comes to show a whole packet.
LevelSeen == \A b \in Buffers : level'[b] # "less" => level'[b] = "equal" /\ Full(b)

\* What happens between two edges keeps the invariant.
LEMMA BetweenRing ==
  ASSUME IInv, RingInv, NothingMoves, TimeGoesOn, EmptySeen, LevelSeen, Passed' = Passed
  PROVE  RingInv'
<1> USE DEF RingInv, NothingMoves, writerVars, readerVars
<1>1. /\ (Filling' <=> Filling) /\ (Filled' <=> Filled) /\ (Ready' <=> Ready)
      /\ \A b \in Buffers : /\ BeingFilled(b)' <=> BeingFilled(b)
                            /\ BeingRead(b)' <=> BeingRead(b)
                            /\ Full(b)' <=> Full(b)
      /\ Oldest' = Oldest /\ Stored' = Stored /\ HeaderAge' = HeaderAge
      /\ (InPacket' <=> InPacket)
  BY DEF Filling, Filled, Ready, BeingFilled, BeingRead, Full, Oldest, Stored, HeaderAge,
         InPacket, NextBuffer
<1>2. Occupied' = Occupied
  BY <1>1 DEF Occupied
<1>3. crnt_buff_cnt \in Buffers /\ next_buff_cnt \in Buffers /\ current_buff_cnt \in Buffers
      /\ sent \in Nat /\ HeaderAge \in Nat
  BY PlaceTypes, WriterTypes DEF HeaderAge
<1>4. WriterPlace'
  BY <1>1, <1>3 DEF WriterPlace, EmptySeen
<1>5. \A c, p : p \in 1 .. sent /\ Verdict(c, p) => Verdict(c, p)'
  BY DEF Verdict, TimeGoesOn
<1>6. HeaderPlace'
  <2>1. HeaderAge >= 3 => sent' = sent /\ sent \in 1 .. sent
    <3>1. HeaderAge >= 3 => sent \in Pkts
      <4>1. HeaderAge >= 3 => w_state \in {"wait_cmpr_pipe", "check_smpl_nr", "switch_next_buff"}
        BY DEF HeaderAge
      <4> QED BY <4>1, PassedFacts
    <3> QED BY <1>3, <3>1 DEF TimeGoesOn, Pkts
  <2>2. ASSUME NEW i \in 1 .. 3
        PROVE  /\ HeaderAge' >= i + 2 /\ less_pipe'[i] => phase'[sent'] = "late"
               /\ HeaderAge' >= i + 3 => Verdict(cmp_pipe[current_buff_cnt][i], sent)'
    <3>1. /\ HeaderAge >= i + 2 => HeaderAge >= 3
          /\ HeaderAge >= i + 3 => HeaderAge >= 3
      BY <1>3
    <3>2. HeaderAge' >= i + 2 /\ less_pipe'[i] => phase'[sent'] = "late"
      BY <1>1, <2>1, <3>1 DEF HeaderPlace, TimeGoesOn
    <3>3. HeaderAge' >= i + 3 => Verdict(cmp_pipe[current_buff_cnt][i], sent)'
      <4>1. HeaderAge >= i + 3 => Verdict(cmp_pipe[current_buff_cnt][i], sent)
        BY DEF HeaderPlace
      <4> QED BY <1>1, <2>1, <3>1, <4>1 DEF Verdict, TimeGoesOn
    <3> QED BY <3>2, <3>3
  <2>3. HeaderAge' >= 3 => hdr_array'[current_buff_cnt'] = sent'
    BY <1>1, <2>1 DEF HeaderPlace
  <2> QED BY <2>2, <2>3 DEF HeaderPlace
<1>7. Ring(Occupied, hdr_array, next_buff_cnt, Oldest, dropped, Passed)'
  BY <1>1, <1>2
<1>8. Contents'
  BY <1>1 DEF Contents
<1>9. \A b \in Occupied : hdr_array[b] \in 1 .. sent
  BY <1>3, RingPackets, PassedFacts
<1>10. Verdicts'
  <2> SUFFICES ASSUME NEW b \in Occupied, NEW i \in 1 .. 3
               PROVE  Verdict(cmp_pipe[b][i], hdr_array[b])'
    BY <1>2 DEF Verdicts
  <2>1. Verdict(cmp_pipe[b][i], hdr_array[b])
    BY DEF Verdicts
  <2> QED BY <1>9, <2>1 DEF Verdict, TimeGoesOn
<1>11. LevelsTrue'
  <2>1. \A b \in Buffers : level'[b] # "less" => level'[b] = "equal" /\ Full(b)'
    BY <1>1 DEF LevelSeen
  <2>2. \A b \in Buffers : buff_rdy'[b] =>
          Full(b)' \/ (b = crnt_buff_cnt' /\ r_state' \notin {"idle", "check_next_buf"})
    BY <1>1 DEF LevelsTrue
  <2>3. ASSUME r_state' = "idle", crnt_buff_rdy'
        PROVE  /\ Full(crnt_buff_cnt)'
               /\ Verdict(crnt_buff_cmp, hdr_array[crnt_buff_cnt])'
               /\ crnt_buff_pct_synch_dis' = (hdr_array'[crnt_buff_cnt'] \in nosync')
    <3>1. /\ Full(crnt_buff_cnt) /\ Verdict(crnt_buff_cmp, hdr_array[crnt_buff_cnt])
          /\ crnt_buff_pct_synch_dis = (hdr_array[crnt_buff_cnt] \in nosync)
      BY <2>3 DEF LevelsTrue
    <3>2. crnt_buff_cnt \in Occupied
      BY <1>3, <3>1, Sizes, EmptySeq DEF Full, Occupied
    <3>3. hdr_array[crnt_buff_cnt] \in 1 .. sent
      BY <1>9, <3>2
    <3>4. Full(crnt_buff_cnt)'
      BY <3>1 DEF Full, BeingFilled, Filling
    <3>5. Verdict(crnt_buff_cmp, hdr_array[crnt_buff_cnt])'
      BY <3>1, <3>3 DEF Verdict, TimeGoesOn
    <3> QED BY <3>1, <3>3, <3>4, <3>5 DEF TimeGoesOn
  <2> QED BY <2>1, <2>2, <2>3 DEF LevelsTrue
<1>12. ReaderPlace'
  BY <1>1, <1>3 DEF ReaderPlace, BeingFilled
<1>13. Stream'
  BY <1>1, <1>2 DEF Stream, BeforeQ, LastWord, Follows
<1>14. Drops'
  <2>1. sent' \in Nat /\ sent <= sent'
    BY <1>3 DEF TimeGoesOn
  <2>2. dropped' \subseteq 1 .. sent'
    BY <1>3, <2>1 DEF Drops
  <2>3. \A p \in dropped : phase'[p] = "late" /\ p \notin nosync' /\ ~pct_sync_dis'
    BY DEF Drops, DropOnlyLate, TimeGoesOn
  <2>4. /\ w_state' = "clr_fifo" => sent' \in dropped'
        /\ w_state' # "clr_fifo" => dropped' \subseteq 1 .. Passed'
    BY DEF Drops, TimeGoesOn
  <2> QED BY <2>2, <2>3, <2>4 DEF Drops, DropOnlyLate
<1> QED BY <1>4, <1>6, <1>7, <1>8, <1>10, <1>11, <1>12, <1>13, <1>14

\* No level shows before the whole packet is there: a buffer that is being
\* filled has a word fewer.
LEMMA LevelsNow ==
  ASSUME IInv, RingInv, WholePackets, NEW b \in Buffers
  PROVE  /\ Len(buf[b]) >= RdyWords => Full(b)
         /\ Len(buf[b]) <= RdyWords
<1>1. RdyWords = RdWords /\ RdWords \in Nat /\ RdWords > 0
  BY Sizes DEF WholePackets
<1>2. buf[b] \in Seq(Pkts \X (1 .. RdWords)) /\ Len(buf[b]) \in Nat
  BY PlaceTypes, LenProperties
<1>3. CASE BeingFilled(b)
  <2>1. Filling /\ b = current_buff_cnt
    BY <1>3 DEF BeingFilled
  <2>2. Stored \in Nat /\ Stored < PctWords - 1
    <3>1. wrreq_cnt \in Nat /\ wrreq_cnt <= PctWords /\ PctWords \in Nat /\ wrreq_cnt >= 1
      BY <2>1, WriterTypes, Sizes DEF RingInv, WriterPlace
    <3>2. /\ pct_data_wrreq = current_buff_cnt => wrreq_cnt >= 2
          /\ pct_data_wrreq # current_buff_cnt => wrreq_cnt < PctWords
      BY <2>1 DEF RingInv, WriterPlace
    <3> QED BY <3>1, <3>2 DEF Stored, One
  <2>3. Len(buf[b]) = Stored * RdPerWr
    BY <1>3 DEF RingInv, Contents
  <2>4. Len(buf[b]) < RdWords
    <3> DEFINE n == Stored
    <3>1. n \in Nat /\ n < PctWords - 1 /\ Len(buf[b]) = n * RdPerWr
      BY <2>2, <2>3
    <3> HIDE DEF n
    <3>2. n * RdPerWr < (PctWords - 1) * RdPerWr
      BY <3>1, PctWordsAssumption, RdPerWrAssumption
    <3> QED BY <3>1, <3>2 DEF RdWords
  <2> QED BY <1>1, <1>2, <2>4
<1>4. CASE ~BeingFilled(b)
  <2>1. buf[b] = <<>> => Len(buf[b]) = 0
    BY EmptySeq
  <2>2. ASSUME buf[b] # <<>>
        PROVE  Len(buf[b]) <= RdWords
    <3> DEFINE gone == IF BeingRead(b) THEN r_rd_cnt ELSE 0
    <3>1. gone \in Nat
      BY PlaceTypes
    <3>2. Len(buf[b]) = RdWords - gone
      BY <1>4, <2>2 DEF RingInv, Contents
    <3> HIDE DEF gone
    <3> QED BY <1>1, <3>1, <3>2
  <2>3. Len(buf[b]) <= RdWords
    BY <1>1, <2>1, <2>2
  <2> QED BY <1>1, <1>2, <1>4, <2>3 DEF Full
<1> QED BY <1>3, <1>4

\* Whenever nothing happens to them, the levels and the empty flags stay true.
LEMMA SeenNow ==
  ASSUME IInv, RingInv
  PROVE  /\ level' = level => LevelSeen
         /\ wrempty' = wrempty => EmptySeen
         /\ sent' = sent /\ phase' = phase /\ nosync' = nosync
              /\ pct_sync_dis' = pct_sync_dis => TimeGoesOn
         /\ NothingMoves /\ fifo' = fifo /\ sent' = sent => Passed' = Passed
<1>1. level' = level => LevelSeen
  BY DEF RingInv, LevelsTrue, LevelSeen
<1>2. wrempty' = wrempty => EmptySeen
  BY DEF RingInv, WriterPlace, EmptySeen
<1>3. sent' = sent /\ phase' = phase /\ nosync' = nosync
        /\ pct_sync_dis' = pct_sync_dis => TimeGoesOn
  BY DEF TimeGoesOn
<1>4. NothingMoves /\ fifo' = fifo /\ sent' = sent => Passed' = Passed
  BY DEF NothingMoves, writerVars, Passed, Filling, Taken, One
<1> QED BY <1>1, <1>2, <1>3, <1>4

\* The host's next packet changes nothing for the packets before it.
LEMMA LoadRing ==
  ASSUME IInv, RingInv, Load PROVE RingInv'
<1>1. /\ NothingMoves /\ level' = level /\ wrempty' = wrempty
      /\ sent' = sent + 1 /\ sent \in Nat /\ fifo = <<>> /\ pct_sync_dis' = pct_sync_dis
  BY WriterTypes DEF Load, NothingMoves
<1>2. w_state \notin {"wait_cmpr_pipe", "check_smpl_nr", "clr_fifo", "switch_next_buff"}
  BY <1>1, PassedFacts
<1>3. HeaderAge < 3 /\ w_state # "clr_fifo"
  BY <1>2 DEF HeaderAge
<1>4. \A p \in 1 .. sent : phase'[p] = phase[p] /\ (p \in nosync' <=> p \in nosync)
  <2> SUFFICES ASSUME NEW p \in 1 .. sent
               PROVE  phase'[p] = phase[p] /\ (p \in nosync' <=> p \in nosync)
    OBVIOUS
  <2>1. p # sent + 1 /\ p \in Pkts
    BY <1>1, WriterTypes, Sizes DEF Pkts
  <2>2. phase \in [Pkts -> Phases]
    BY DEF IInv, TypeOK, TypeOKSignals
  <2> QED BY <2>1, <2>2 DEF Load
<1>5. TimeGoesOn
  BY <1>1, <1>3, <1>4 DEF TimeGoesOn
<1>6. Passed' = Passed
  <2>1. Filling => Taken = PctWords
    <3> SUFFICES ASSUME Filling, Taken # PctWords PROVE FALSE
      OBVIOUS
    <3>1. Len(fifo) = PctWords - Taken
      BY DEF IInv, WriterInv, FifoOfState, Rest, Filling
    <3>2. Len(fifo) = 0
      BY <1>1, EmptySeq
    <3> QED BY <3>1, <3>2, WriterTypes, Sizes
  <2>2. Taken' = Taken /\ (Filling' <=> Filling)
    BY <1>1 DEF NothingMoves, writerVars, Taken, One, Filling
  <2>3. fifo' # <<>>
    <3>1. Len(fifo') = PctWords
      BY Sizes DEF Load
    <3> QED BY <3>1, Sizes, EmptySeq
  <2>4. Passed = sent /\ sent' - 1 = sent
    BY <1>1 DEF Passed
  <2>5. ~(Filling' /\ Taken' < PctWords)
    BY <2>1, <2>2, Sizes
  <2> QED BY <2>3, <2>4, <2>5 DEF Passed
<1> QED BY <1>1, <1>5, <1>6, SeenNow, BetweenRing

\* A fill level becomes visible.
LEMMA SeeRing ==
  ASSUME IInv, RingInv, WholePackets, NEW b \in Buffers, SeeWords(b) \/ SeeEmpty(b)
  PROVE  RingInv'
<1>1. /\ NothingMoves /\ fifo' = fifo /\ sent' = sent /\ phase' = phase
      /\ nosync' = nosync /\ pct_sync_dis' = pct_sync_dis
  BY DEF SeeWords, SeeEmpty, NothingMoves, signalVars, pathVars
<1>2. EmptySeen
  <2>1. CASE SeeWords(b)
    BY <2>1, SeenNow DEF SeeWords, signalVars
  <2>2. CASE SeeEmpty(b)
    <3>1. wrempty' = [wrempty EXCEPT ![b] = TRUE] /\ buf[b] = <<>>
      BY <2>2 DEF SeeEmpty
    <3>2. wrempty \in [Buffers -> BOOLEAN] /\ \A d \in Buffers : wrempty[d] => buf[d] = <<>>
      BY DEF IInv, TypeOK, TypeOKSignals, RingInv, WriterPlace
    <3> QED BY <3>1, <3>2 DEF EmptySeen
  <2> QED BY <2>1, <2>2
<1>3. LevelSeen
  <2>1. CASE SeeEmpty(b)
    BY <2>1, SeenNow DEF SeeEmpty, pathVars
  <2>2. CASE SeeWords(b)
    <3>1. level' = [level EXCEPT ![b] = "equal"] /\ Len(buf[b]) >= RdyWords
      <4>1. Len(buf[b]) \in Nat /\ RdyWords \in Nat /\ ~(Len(buf[b]) > RdyWords)
        <5>1. buf[b] \in Seq(Pkts \X (1 .. RdWords))
          BY PlaceTypes
        <5> QED BY <5>1, LevelsNow, LenProperties, RdyWordsAssumption, Sizes
      <4> QED BY <2>2, <4>1 DEF SeeWords
    <3>2. Full(b)
      BY <3>1, LevelsNow
    <3>3. \A d \in Buffers : level'[d] = IF d = b THEN "equal" ELSE level[d]
      BY <3>1 DEF IInv, TypeOK
    <3> QED BY <3>2, <3>3 DEF RingInv, LevelsTrue, LevelSeen
  <2> QED BY <2>1, <2>2
<1> QED BY <1>1, <1>2, <1>3, SeenNow, BetweenRing

\* The sample counter and the sample FIFO move.
LEMMA OutsideRing ==
  ASSUME IInv, RingInv, FillUp \/ Drain \/ \E p \in Pkts : Advance(p)
  PROVE  RingInv'
<1>1. /\ NothingMoves /\ fifo' = fifo /\ sent' = sent /\ nosync' = nosync
      /\ pct_sync_dis' = pct_sync_dis /\ wrempty' = wrempty /\ level' = level
  BY DEF FillUp, Drain, Advance, NothingMoves, pathVars
<1>2. TimeGoesOn
  <2>1. CASE FillUp \/ Drain
    BY <1>1, <2>1, SeenNow DEF FillUp, Drain
  <2>2. CASE \E p \in Pkts : Advance(p)
    <3> PICK p \in Pkts : Advance(p)
      BY <2>2
    <3>1. phase \in [Pkts -> Phases]
      BY DEF IInv, TypeOK, TypeOKSignals
    <3>2. phase[p] # "late" /\ \E f \in {"due", "late"} : phase' = [phase EXCEPT ![p] = f]
      BY DEF Advance
    <3>3. \A q \in 1 .. sent : q \in Pkts
      BY WriterTypes, Sizes DEF Pkts
    <3> QED BY <1>1, <3>1, <3>2, <3>3 DEF TimeGoesOn
  <2> QED BY <2>1, <2>2
<1> QED BY <1>1, <1>2, SeenNow, BetweenRing

\* A step of something else preserves the invariant.
LEMMA StutterRing ==
  ASSUME IInv, RingInv, UNCHANGED vars PROVE RingInv'
<1>1. /\ NothingMoves /\ fifo' = fifo /\ sent' = sent /\ phase' = phase /\ nosync' = nosync
      /\ pct_sync_dis' = pct_sync_dis /\ wrempty' = wrempty /\ level' = level
  BY DEF vars, signalVars, pathVars, NothingMoves
<1> QED BY <1>1, SeenNow, BetweenRing

\* After reset the ring is empty.
LEMMA InitRing ==
  ASSUME Init PROVE RingInv
<1> USE DEF Init, InitWriter, InitReader
<1>1. /\ ~Filling /\ ~Filled /\ HeaderAge = 0 /\ 0 \in Buffers /\ NoBuffer \notin Buffers
      /\ RdWords \in Nat
  BY Sizes, NextBufferFacts DEF Filling, Filled, HeaderAge, Buffers
<1>2. \A b \in Buffers : buf[b] = <<>> /\ ~BeingFilled(b)
  BY <1>1 DEF BeingFilled
<1>3. Occupied = {} /\ Oldest = 0 /\ Passed = 0
  BY <1>2 DEF Occupied, Oldest, Passed
<1>4. WriterPlace
  BY <1>1 DEF WriterPlace
<1>5. HeaderPlace
  <2>1. ~(HeaderAge >= 3) /\ \A i \in 1 .. 3 : ~(HeaderAge >= i + 2) /\ ~(HeaderAge >= i + 3)
    BY <1>1
  <2> QED BY <2>1 DEF HeaderPlace
<1>6. Ring(Occupied, hdr_array, next_buff_cnt, Oldest, dropped, Passed)
  BY <1>3 DEF Ring
<1>7. Contents /\ Verdicts /\ LevelsTrue /\ ReaderPlace
  BY <1>1, <1>2, <1>3 DEF Contents, Verdicts, LevelsTrue, ReaderPlace
<1>8. Stream
  <2>1. LastWord = <<0, RdWords>> /\ ~InPacket
    BY DEF LastWord, BeforeQ, InPacket, NoPkt
  <2>2. After(Occupied, hdr_array, Oldest, dropped, Passed, 0)
    BY <1>3 DEF After
  <2> QED BY <2>1, <2>2 DEF Stream
<1>9. Drops
  BY DEF Drops, DropOnlyLate
<1> QED BY <1>4, <1>5, <1>6, <1>7, <1>8, <1>9 DEF RingInv

-----------------------------------------------------------------------------
(* The theorems, for 12 and 16 bits.                                       *)

\* RingInv is an invariant: the packets in the buffers are a section of the
\* ring in the order in which the host sent them, for any number of buffers,
\* any packet size, any read ratio and any number of packets.
THEOREM RingHolds == ASSUME WholePackets PROVE Spec => []RingInv
<1>1. Init => RingInv
  BY InitRing
<1>2. IInv /\ RingInv /\ [Next]_vars => RingInv'
  <2> SUFFICES ASSUME IInv, RingInv, [Next]_vars PROVE RingInv'
    OBVIOUS
  <2>1. CASE Tick
    BY <2>1, TickRingInv
  <2>2. CASE Load
    BY <2>2, LoadRing
  <2>3. CASE FillUp \/ Drain \/ \E p \in Pkts : Advance(p)
    BY <2>3, OutsideRing
  <2>4. CASE \E b \in Buffers : SeeWords(b) \/ SeeEmpty(b)
    BY <2>4, SeeRing
  <2>5. CASE UNCHANGED vars
    BY <2>5, StutterRing
  <2> QED BY <2>1, <2>2, <2>3, <2>4, <2>5 DEF Next
<1> QED BY <1>1, <1>2, InvariantHolds, PTL DEF Spec

\* The writer never stores a word in a buffer that p2d_rd is reading from or
\* clearing, whatever the levels that reach the two FSMs are late by.
THEOREM OwnershipHolds == ASSUME WholePackets PROVE Spec => []Ownership
<1>1. IInv /\ RingInv => Ownership
  <2> SUFFICES ASSUME IInv, RingInv, NEW b \in Buffers, pct_data_wrreq = b,
                      crnt_buff_cnt = b, r_state \in {"rd_buff", "rd_hold", "clr_buff"}
               PROVE  FALSE
    BY DEF Ownership
  <2>1. pct_data_wrreq # NoBuffer /\ w_state \in WriterStates
    BY NextBufferFacts, PlaceTypes
  <2>2. Filling /\ b = current_buff_cnt
    BY <2>1 DEF RingInv, WriterPlace, Ready
  <2>3. ~Filled
    BY <2>2 DEF Filling, Filled
  <2> QED BY <2>2, <2>3 DEF RingInv, ReaderPlace, BeingFilled
<1> QED BY <1>1, InvariantHolds, RingHolds, PTL

\* When p2d_rd decides what to do with a buffer, the header it compares is that
\* of the packet in it, all of it.
THEOREM HeaderOfBufferHolds == ASSUME WholePackets PROVE Spec => []HeaderOfBuffer
<1>1. IInv /\ RingInv => HeaderOfBuffer
  <2> SUFFICES ASSUME IInv, RingInv, r_state = "idle", crnt_buff_rdy PROVE HeaderOfBuffer
    BY DEF HeaderOfBuffer
  <2>1. Len(buf[crnt_buff_cnt]) = RdWords
    BY DEF RingInv, LevelsTrue, Full
  <2>2. Head(buf[crnt_buff_cnt]) = <<hdr_array[crnt_buff_cnt], 1>>
    BY ReadyHead DEF RingInv
  <2>3. crnt_buff_pct_synch_dis = (hdr_array[crnt_buff_cnt] \in nosync)
    BY DEF RingInv, LevelsTrue
  <2> QED BY <2>1, <2>2, <2>3 DEF HeaderOfBuffer
<1> QED BY <1>1, InvariantHolds, RingHolds, PTL

\* Whole packets reach the sample FIFO, in the order in which the host sent
\* them, and none is missing that was not thrown away.
THEOREM StreamIntactHolds == ASSUME WholePackets PROVE Spec => []StreamIntact
<1>1. RingInv => StreamIntact
  BY DEF RingInv, Stream, StreamIntact
<1> QED BY <1>1, RingHolds, PTL

\* Only a synchronised packet that has missed its sample number is ever thrown
\* away, by p2d_wr_fsm or by p2d_rd.
THEOREM OnlyLateIsDropped == ASSUME WholePackets PROVE Spec => []DropOnlyLate
<1>1. RingInv => DropOnlyLate
  BY DEF RingInv, Drops
<1> QED BY <1>1, RingHolds, PTL

\* p2d_rd never starts to read a synchronised packet ahead of its sample
\* number.
THEOREM NeverReadEarly == ASSUME WholePackets PROVE Spec => NeverEarly
<1> DEFINE Step == r_state = "idle" /\ r_state' = "rd_buff" =>
                     LET p == Head(buf[crnt_buff_cnt])[1]
                     IN pct_sync_dis \/ p \in nosync \/ phase[p] # "early"
<1>1. IInv /\ RingInv /\ [Next]_vars => [Step]_vars
  <2> DEFINE p == Head(buf[crnt_buff_cnt])[1]
  <2> SUFFICES ASSUME IInv, RingInv, Next, r_state = "idle", r_state' = "rd_buff"
               PROVE  pct_sync_dis \/ p \in nosync \/ phase[p] # "early"
    OBVIOUS
  <2>1. Tick
    BY DEF Next, Load, FillUp, Drain, SeeWords, SeeEmpty, Advance, readerVars
  <2>2. ReadNow
    BY <2>1, ReaderEdges
  <2>3. /\ Head(buf[crnt_buff_cnt]) = <<hdr_array[crnt_buff_cnt], 1>>
        /\ Verdict(crnt_buff_cmp, hdr_array[crnt_buff_cnt])
        /\ crnt_buff_pct_synch_dis = (hdr_array[crnt_buff_cnt] \in nosync)
    BY <2>2, ReadyHead DEF ReadNow, RingInv, LevelsTrue
  <2>4. p = hdr_array[crnt_buff_cnt]
    BY <2>3
  <2> HIDE DEF p
  <2> QED BY <2>2, <2>3, <2>4 DEF ReadNow, Unsynchronised, Verdict
<1>2. Spec => [][Step]_vars
  BY <1>1, InvariantHolds, RingHolds, PTL DEF Spec
<1> QED BY <1>2 DEF NeverEarly
=============================================================================
