--------------------------- MODULE TwoFifoProofs ---------------------------
(***************************************************************************)
(* The reader behind the two FIFOs finds the boundaries of the packets by  *)
(* counting alone, for every size of a packet and of the first FIFO and    *)
(* every number of packets.                                                *)
(*                                                                         *)
(* The argument follows the words of one packet.  Asked, Fetched and       *)
(* Written count those that the state machine has asked the first FIFO     *)
(* for, got from it and put into the second one; the registers of the data *)
(* path say how far these numbers are apart.  They determine the next word *)
(* the first FIFO delivers, the word between the FIFOs and the words in    *)
(* the second one.                                                         *)
(***************************************************************************)
EXTENDS TwoFifo, TLAPS

Asked ==
  CASE state = "idle"         -> 0
    [] state = "check_trnsf"  -> trnsf_cnt * Chunk
    [] state = "check_fifo_0" -> (trnsf_cnt - 1) * Chunk
    [] state = "trnsf_fifo"   -> (trnsf_cnt - 1) * Chunk + rd_cnt
    [] OTHER                  -> PctWords

Fetched == IF inst0_rdreq THEN Asked - 1 ELSE Asked
Written == IF inst1_wrreq THEN Fetched - 1 ELSE Fetched

\* The next word that comes out of the first FIFO, and the packet the state
\* machine is moving.
NextOut == IF fifo0 = <<>> THEN host_pos ELSE fifo0[1]
Packet  == IF Fetched = PctWords THEN NextOut[1] - 1 ELSE NextOut[1]

\* The words of the host follow one another.
HostInv ==
  /\ \A i \in 1 .. Len(fifo0) - 1 : fifo0[i + 1] = NextPos(fifo0[i])
  /\ fifo0 # <<>> => host_pos = NextPos(fifo0[Len(fifo0)])
  /\ \A i \in 1 .. Len(fifo0) : fifo0[i][1] <= host_pos[1]
  /\ host_pos[1] > MaxPkts => host_pos[2] = 0
  /\ ~stream_open => /\ fifo0 = <<>> /\ fifo1 = <<>> /\ state = "idle"
                     /\ host_pos[2] = 0

\* Where the state machine is, and what is on its way between the FIFOs: a
\* chunk is only asked for when it is there.
FsmInv ==
  /\ state = "idle" => ~inst0_rdreq /\ ~inst1_wrreq /\ rd_cnt = 0 /\ inst1_wrempty
  /\ state = "check_trnsf" =>
       /\ trnsf_cnt <= TrnsfN
       /\ trnsf_cnt = 0 => ~inst0_rdreq /\ ~inst1_wrreq
       /\ trnsf_cnt > 0 => inst0_rdreq /\ inst1_wrreq /\ inst0_used > 0
  /\ state = "check_fifo_0" =>
       /\ trnsf_cnt \in 1 .. TrnsfN /\ rd_cnt = 0
       /\ ~inst0_rdreq /\ (inst1_wrreq => trnsf_cnt > 1)
  /\ state = "trnsf_fifo" =>
       /\ trnsf_cnt \in 1 .. TrnsfN /\ rd_cnt < Chunk
       /\ inst0_rdreq <=> rd_cnt > 0
       /\ inst1_wrreq <=> rd_cnt > 1
       /\ inst0_used + rd_cnt >= IF inst0_rdreq THEN Chunk + 1 ELSE Chunk
  /\ state = "check_fifo_1" =>
       trnsf_cnt = TrnsfN + 1 /\ rd_cnt = 0 /\ ~inst0_rdreq

\* The second FIFO is empty when the write side says so.
EmptyInv ==
  inst1_wrempty => /\ fifo1 = <<>>
                   /\ Written = 0 \/ (state = "check_fifo_1" /\ ~inst1_wrreq)

\* The words of the packet, in the first FIFO and between the two.
WordInv ==
  /\ NextOut[2] = IF Fetched = PctWords THEN 0 ELSE Fetched
  /\ NextOut[1] > got[1]
  /\ inst1_wrreq => inst0_q = <<Packet, Fetched - 1>>

\* Their words in the second FIFO while the reader has not taken any.
Waiting == {"idle", "rd_hdr", "wait_cmpr_pipe", "clr_fifo", "check_next_buf"}

WaitInv ==
  reader \in Waiting =>
    \/ fifo1 = <<>> /\ Written = PctWords
    \/ /\ Packet > got[1] /\ Len(fifo1) = Written
       /\ \A i \in 1 .. Len(fifo1) : fifo1[i] = <<Packet, i - 1>>

\* And while it reads: the whole packet is there, and nothing moves.
ReadInv ==
  reader \in {"check_smpl_nr", "rd_pct"} =>
    /\ reader_cnt \in 1 .. PctWords - 1
    /\ reader = "check_smpl_nr" => reader_cnt = 1
    /\ stream_open => /\ ~inst1_wrempty
                      /\ state = "check_fifo_1" /\ ~inst1_wrreq
                      /\ got[2] = reader_cnt - 1
                      /\ Len(fifo1) = PctWords - reader_cnt
                      /\ \A i \in 1 .. Len(fifo1) :
                           fifo1[i] = <<got[1], reader_cnt + i - 1>>

\* Where the words are.
DataInv ==
  TypeOK /\ HostInv /\ FsmInv /\ EmptyInv /\ WordInv /\ WaitInv /\ ReadInv

\* From the register in_pct_rdy to the header the whole packet stays where it
\* was seen, unless the stream is closed, and torn says whether it was.
AtHeader == \/ reader = "idle" /\ in_pct_rdy
            \/ reader \in {"rd_hdr", "wait_cmpr_pipe"}

HdrInv ==
  /\ stream_open /\ AtHeader => Len(fifo1) = PctWords
  /\ reader = "wait_cmpr_pipe" => reader_cnt = 1
  /\ OnPacket => (torn <=> ~stream_open)
  /\ reader = "idle" /\ ~in_pct_rdy => ~torn

IInv == DataInv /\ HdrInv

-----------------------------------------------------------------------------
(* Sizes and sequences.                                                    *)

\* What a chunk more or less makes.
LEMMA Sizes ==
  /\ Chunk \in Nat /\ Chunk > 1 /\ TrnsfN \in Nat /\ TrnsfN > 0
  /\ PctWords \in Nat /\ PctWords > 1 /\ MaxPkts \in Nat /\ Fifo0Depth \in Nat
  /\ 0 * Chunk = 0 /\ TrnsfN * Chunk = PctWords
  /\ \A t \in 1 .. TrnsfN : /\ (t - 1) * Chunk \in Nat /\ t * Chunk \in Nat
                            /\ t * Chunk = (t - 1) * Chunk + Chunk
                            /\ t * Chunk <= PctWords
<1>1. /\ Chunk \in Nat /\ Chunk > 1 /\ TrnsfN \in Nat /\ TrnsfN > 0
      /\ MaxPkts \in Nat /\ Fifo0Depth \in Nat
  BY ChunkAssumption, TrnsfNAssumption, DepthAssumption, BoundAssumption
<1>2. PctWords \in Nat /\ TrnsfN * Chunk = PctWords /\ 0 * Chunk = 0
  BY <1>1 DEF PctWords
<1>3. ASSUME NEW m \in Nat, NEW n \in Nat, m <= n
      PROVE  m * Chunk <= n * Chunk
  <2>1. (n - m) * Chunk \in Nat /\ n * Chunk = m * Chunk + (n - m) * Chunk
    BY <1>1, <1>3
  <2>2. m * Chunk \in Nat
    BY <1>1
  <2> QED BY <2>1, <2>2
<1>4. 1 * Chunk <= TrnsfN * Chunk
  BY <1>1, <1>3
<1>5. PctWords > 1
  BY <1>1, <1>2, <1>4
<1>6. ASSUME NEW t \in 1 .. TrnsfN
      PROVE  /\ (t - 1) * Chunk \in Nat /\ t * Chunk \in Nat
             /\ t * Chunk = (t - 1) * Chunk + Chunk
             /\ t * Chunk <= PctWords
  <2>1. t \in Nat /\ t - 1 \in Nat /\ t <= TrnsfN
    BY <1>1
  <2>2. t * Chunk <= TrnsfN * Chunk
    BY <1>1, <1>3, <2>1
  <2>3. (t - 1) * Chunk \in Nat /\ t * Chunk \in Nat /\ t * Chunk = (t - 1) * Chunk + Chunk
    BY <1>1, <2>1
  <2> QED BY <1>2, <2>2, <2>3
<1> QED BY <1>1, <1>2, <1>5, <1>6

\* The rest of a sequence.
LEMMA TailFacts ==
  ASSUME NEW S, NEW s \in Seq(S), s # <<>>
  PROVE  /\ Len(s) \in Nat /\ Len(s) > 0
         /\ Head(s) = s[1] /\ Head(s) \in S
         /\ Tail(s) \in Seq(S) /\ Len(Tail(s)) = Len(s) - 1
         /\ \A i \in 1 .. Len(s) - 1 : Tail(s)[i] = s[i + 1]
         /\ Tail(s) = <<>> <=> Len(s) = 1
<1>1. Len(s) \in Nat /\ Len(s) > 0 /\ Head(s) = s[1] /\ Head(s) \in S
  OBVIOUS
<1>2. Tail(s) \in Seq(S) /\ Len(Tail(s)) = Len(s) - 1
  OBVIOUS
<1>3. \A i \in 1 .. Len(s) - 1 : Tail(s)[i] = s[i + 1]
  OBVIOUS
<1>4. \A q \in Seq(S) : q = <<>> <=> Len(q) = 0
  OBVIOUS
<1> QED BY <1>1, <1>2, <1>3, <1>4

\* A sequence with one more element.
LEMMA AppendFacts ==
  ASSUME NEW S, NEW s \in Seq(S), NEW e \in S
  PROVE  /\ Append(s, e) \in Seq(S) /\ Len(s) \in Nat /\ Len(Append(s, e)) = Len(s) + 1
         /\ Append(s, e)[Len(s) + 1] = e
         /\ \A i \in 1 .. Len(s) : Append(s, e)[i] = s[i]
         /\ Append(s, e) # <<>>
OBVIOUS

-----------------------------------------------------------------------------
(* The counts.                                                             *)

\* They count the words of one packet, and those on the way are of it.
LEMMA Counts ==
  ASSUME TypeOK, FsmInv
  PROVE  /\ Asked \in 0 .. PctWords /\ Fetched \in 0 .. PctWords /\ Written \in 0 .. PctWords
         /\ inst0_rdreq => Fetched < PctWords /\ inst0_used > 0
         /\ inst1_wrreq => Written < PctWords /\ Fetched > 0
         /\ state = "idle" => Written = 0 /\ Fetched = 0
         /\ Written = PctWords => state = "check_fifo_1" /\ ~inst1_wrreq
         /\ state = "check_fifo_1" => Fetched = PctWords
<1>1. state \in {"idle", "check_fifo_0", "check_trnsf", "trnsf_fifo", "check_fifo_1"}
  BY DEF TypeOK
<1>2. CASE state = "idle"
  BY <1>2, Sizes DEF Asked, Fetched, Written, FsmInv
<1>3. CASE state = "check_trnsf"
  <2>1. trnsf_cnt \in Nat /\ trnsf_cnt <= TrnsfN
    BY <1>3, Sizes DEF FsmInv, TypeOK
  <2>2. CASE trnsf_cnt = 0
    BY <1>3, <2>2, Sizes DEF Asked, Fetched, Written, FsmInv
  <2>3. CASE trnsf_cnt > 0
    <3>1. trnsf_cnt * Chunk \in Nat /\ trnsf_cnt * Chunk <= PctWords
          /\ (trnsf_cnt - 1) * Chunk \in Nat
          /\ trnsf_cnt * Chunk = (trnsf_cnt - 1) * Chunk + Chunk
      BY <2>1, <2>3, Sizes
    <3>2. inst0_rdreq /\ inst1_wrreq /\ inst0_used > 0
      BY <1>3, <2>3 DEF FsmInv
    <3>3. Asked = trnsf_cnt * Chunk
      BY <1>3 DEF Asked
    <3> QED BY <1>3, <3>1, <3>2, <3>3, Sizes DEF Fetched, Written
  <2> QED BY <2>1, <2>2, <2>3
<1>4. CASE state = "check_fifo_0"
  <2>1. trnsf_cnt \in 1 .. TrnsfN /\ ~inst0_rdreq /\ (inst1_wrreq => trnsf_cnt > 1)
    BY <1>4 DEF FsmInv
  <2>2. Asked = (trnsf_cnt - 1) * Chunk
    BY <1>4 DEF Asked
  <2>3. /\ trnsf_cnt * Chunk <= PctWords /\ (trnsf_cnt - 1) * Chunk \in Nat
        /\ trnsf_cnt * Chunk = (trnsf_cnt - 1) * Chunk + Chunk
    BY <2>1, Sizes
  <2>4. trnsf_cnt > 1 => (trnsf_cnt - 1) * Chunk > 0
    <3>1. ASSUME trnsf_cnt > 1
          PROVE  (trnsf_cnt - 1) * Chunk = ((trnsf_cnt - 1) - 1) * Chunk + Chunk
                 /\ ((trnsf_cnt - 1) - 1) * Chunk \in Nat
      <4>1. trnsf_cnt - 1 \in 1 .. TrnsfN
        BY <2>1, <3>1, Sizes
      <4> QED BY <4>1, Sizes
    <3> QED BY <3>1, Sizes
  <2> QED BY <1>4, <2>1, <2>2, <2>3, <2>4, Sizes DEF Fetched, Written
<1>5. CASE state = "trnsf_fifo"
  <2>1. /\ trnsf_cnt \in 1 .. TrnsfN /\ rd_cnt < Chunk /\ rd_cnt \in Nat
        /\ inst0_rdreq <=> rd_cnt > 0
        /\ inst1_wrreq <=> rd_cnt > 1
        /\ inst0_used + rd_cnt >= IF inst0_rdreq THEN Chunk + 1 ELSE Chunk
        /\ inst0_used \in Nat
    BY <1>5, Sizes DEF FsmInv, TypeOK
  <2>2. Asked = (trnsf_cnt - 1) * Chunk + rd_cnt
    BY <1>5 DEF Asked
  <2>3. /\ trnsf_cnt * Chunk <= PctWords /\ (trnsf_cnt - 1) * Chunk \in Nat
        /\ trnsf_cnt * Chunk = (trnsf_cnt - 1) * Chunk + Chunk
    BY <2>1, Sizes
  <2> QED BY <1>5, <2>1, <2>2, <2>3, Sizes DEF Fetched, Written
<1>6. CASE state = "check_fifo_1"
  BY <1>6, Sizes DEF Asked, Fetched, Written, FsmInv
<1> QED BY <1>1, <1>2, <1>3, <1>4, <1>5, <1>6

-----------------------------------------------------------------------------
(* An edge of bus_clk.                                                     *)

\* What it does to the first FIFO: a word that is asked for is there.
LEMMA FetchEffect ==
  ASSUME TypeOK, FsmInv, BusTick
  PROVE  /\ inst0_rdreq => /\ fifo0 # <<>> /\ inst0_q' = Head(fifo0) /\ fifo0' = Tail(fifo0)
                           /\ inst0_used' = inst0_used - 1
         /\ ~inst0_rdreq => UNCHANGED <<inst0_q, fifo0, inst0_used>>
<1>1. inst0_rdreq => inst0_used > 0
  BY Counts
<1>2. fifo0 = <<>> => Len(fifo0) = 0
  OBVIOUS
<1>3. inst0_used \in 0 .. Len(fifo0)
  BY DEF TypeOK
<1>4. inst0_rdreq => fifo0 # <<>>
  BY <1>1, <1>2, <1>3
<1> QED BY <1>1, <1>4 DEF BusTick, ReadFifo0

\* The state machine: a word is asked for on every edge it is moving a chunk.
LEMMA FsmNext ==
  ASSUME TypeOK, FsmInv, EmptyInv, BusTick
  PROVE  /\ FsmInv'
         /\ IF state = "check_fifo_1" /\ inst1_wrempty
              THEN state' = "idle" /\ Asked' = 0 /\ ~inst1_wrreq
              ELSE Asked' = IF inst0_rdreq' THEN Asked + 1 ELSE Asked
<1>1. /\ state \in {"idle", "check_fifo_0", "check_trnsf", "trnsf_fifo", "check_fifo_1"}
      /\ trnsf_cnt \in Nat /\ rd_cnt \in Nat /\ inst0_used \in Nat
  BY Sizes DEF TypeOK
<1>2. /\ inst0_rdreq' <=> state = "trnsf_fifo"
      /\ inst1_wrreq' <=> inst0_rdreq
      /\ trnsf_cnt' = CASE state = "check_trnsf" -> trnsf_cnt + 1
                        [] state = "idle" -> 0
                        [] OTHER -> trnsf_cnt
      /\ rd_cnt' = IF state = "trnsf_fifo" THEN rd_cnt + 1 ELSE 0
      /\ inst1_wrempty' = IF inst1_wrreq THEN FALSE ELSE inst1_wrempty
  BY DEF BusTick, IntRegs, Counters, WriteFifo1
<1>3. inst0_used' = IF inst0_rdreq THEN inst0_used - 1 ELSE inst0_used
  BY FetchEffect
<1>4. CASE state = "idle"
  <2>1. state' \in {"idle", "check_trnsf"}
    BY <1>4 DEF BusTick, Fsm, Idle, CheckTrnsf, CheckFifo0, TrnsfFifo, CheckFifo1
  <2>2. trnsf_cnt' = 0 /\ rd_cnt' = 0 /\ ~inst0_rdreq' /\ ~inst1_wrreq' /\ inst1_wrempty'
    BY <1>2, <1>4 DEF FsmInv
  <2> QED BY <1>4, <2>1, <2>2, Sizes DEF FsmInv, Asked
<1>5. CASE state = "check_trnsf"
  <2>1. state' = IF trnsf_cnt < TrnsfN THEN "check_fifo_0" ELSE "check_fifo_1"
    BY <1>5 DEF BusTick, Fsm, Idle, CheckTrnsf, CheckFifo0, TrnsfFifo, CheckFifo1
  <2>2. /\ trnsf_cnt' = trnsf_cnt + 1 /\ rd_cnt' = 0 /\ ~inst0_rdreq'
        /\ inst1_wrreq' => trnsf_cnt > 0
        /\ trnsf_cnt <= TrnsfN
    BY <1>1, <1>2, <1>5 DEF FsmInv
  <2>3. CASE trnsf_cnt < TrnsfN
    <3>1. trnsf_cnt' - 1 = trnsf_cnt /\ trnsf_cnt' \in 1 .. TrnsfN
          /\ (inst1_wrreq' => trnsf_cnt' > 1)
      BY <1>1, <2>2, <2>3, Sizes
    <3>2. Asked' = Asked
      BY <1>5, <2>1, <2>3, <3>1 DEF Asked
    <3>3. FsmInv'
      BY <2>1, <2>2, <2>3, <3>1 DEF FsmInv
    <3> QED BY <1>5, <2>2, <3>2, <3>3
  <2>4. CASE ~(trnsf_cnt < TrnsfN)
    <3>1. trnsf_cnt = TrnsfN
      BY <1>1, <2>2, <2>4, Sizes
    <3>2. Asked' = Asked
      BY <1>5, <2>1, <2>4, <3>1, Sizes DEF Asked
    <3> QED BY <2>1, <2>2, <2>4, <3>1, <3>2 DEF FsmInv
  <2> QED BY <2>3, <2>4
<1>6. CASE state = "check_fifo_0"
  <2>1. state' = IF ChunkReady THEN "trnsf_fifo" ELSE "check_fifo_0"
    BY <1>6 DEF BusTick, Fsm, Idle, CheckTrnsf, CheckFifo0, TrnsfFifo, CheckFifo1
  <2>2. /\ trnsf_cnt' = trnsf_cnt /\ rd_cnt' = 0 /\ ~inst0_rdreq' /\ ~inst1_wrreq'
        /\ inst0_used' = inst0_used /\ trnsf_cnt \in 1 .. TrnsfN
    BY <1>2, <1>3, <1>6 DEF FsmInv
  <2>3. ChunkReady => inst0_used' + rd_cnt' >= Chunk
    BY <1>1, <2>2, Sizes DEF ChunkReady
  <2>4. (trnsf_cnt - 1) * Chunk \in Nat
    BY <2>2, Sizes
  <2>5. Asked' = Asked
    BY <1>6, <2>1, <2>2, <2>4 DEF Asked
  <2> QED BY <2>1, <2>2, <2>3, <2>5, Sizes DEF FsmInv
<1>7. CASE state = "trnsf_fifo"
  <2>1. state' = IF rd_cnt < Chunk - 1 THEN "trnsf_fifo" ELSE "check_trnsf"
    BY <1>7 DEF BusTick, Fsm, Idle, CheckTrnsf, CheckFifo0, TrnsfFifo, CheckFifo1
  <2>2. /\ trnsf_cnt' = trnsf_cnt /\ rd_cnt' = rd_cnt + 1 /\ inst0_rdreq'
        /\ inst1_wrreq' <=> rd_cnt > 0
        /\ trnsf_cnt \in 1 .. TrnsfN /\ rd_cnt < Chunk
        /\ inst0_rdreq <=> rd_cnt > 0
        /\ inst0_used + rd_cnt >= IF inst0_rdreq THEN Chunk + 1 ELSE Chunk
    BY <1>2, <1>7 DEF FsmInv
  <2>3. inst0_used' + rd_cnt' >= Chunk + 1
    BY <1>1, <1>3, <2>2, Sizes
  <2>4. inst1_wrreq' <=> rd_cnt' > 1
    BY <1>1, <2>2
  <2>5. (trnsf_cnt - 1) * Chunk \in Nat /\ trnsf_cnt * Chunk = (trnsf_cnt - 1) * Chunk + Chunk
    BY <2>2, Sizes
  <2>6. CASE rd_cnt < Chunk - 1
    <3>1. Asked' = Asked + 1
      BY <1>1, <1>7, <2>1, <2>2, <2>5, <2>6 DEF Asked
    <3>2. rd_cnt' < Chunk /\ rd_cnt' > 0
      BY <1>1, <2>2, <2>6, Sizes
    <3>3. FsmInv'
      BY <2>1, <2>2, <2>3, <2>4, <2>6, <3>2 DEF FsmInv
    <3> QED BY <1>7, <2>2, <3>1, <3>3
  <2>7. CASE ~(rd_cnt < Chunk - 1)
    <3>1. rd_cnt = Chunk - 1
      BY <1>1, <2>2, <2>7, Sizes
    <3>2. Asked' = Asked + 1
      BY <1>7, <2>1, <2>2, <2>5, <2>7, <3>1, Sizes DEF Asked
    <3>3. inst0_rdreq /\ inst0_used > 1 /\ rd_cnt > 0
      BY <1>1, <2>2, <3>1, ChunkAssumption
    <3>4. inst0_used' > 0 /\ inst1_wrreq'
      <4>1. inst0_used' = inst0_used - 1
        BY <1>3, <3>3
      <4> QED BY <1>1, <2>2, <3>3, <4>1
    <3>5. trnsf_cnt' <= TrnsfN /\ trnsf_cnt' > 0
      BY <2>2, Sizes
    <3> QED BY <2>1, <2>2, <2>7, <3>2, <3>4, <3>5 DEF FsmInv
  <2> QED BY <2>6, <2>7
<1>8. CASE state = "check_fifo_1"
  <2>1. state' = IF inst1_wrempty THEN "idle" ELSE "check_fifo_1"
    BY <1>8 DEF BusTick, Fsm, Idle, CheckTrnsf, CheckFifo0, TrnsfFifo, CheckFifo1
  <2>2. /\ trnsf_cnt' = trnsf_cnt /\ rd_cnt' = 0 /\ ~inst0_rdreq' /\ ~inst1_wrreq'
        /\ trnsf_cnt = TrnsfN + 1
    BY <1>2, <1>8 DEF FsmInv
  <2>3. Asked = PctWords /\ Fetched = PctWords
    BY <1>8 DEF Asked, Fetched, FsmInv
  <2>4. inst1_wrempty => ~inst1_wrreq
    BY <1>8, <2>3, Sizes DEF EmptyInv, Written
  <2>5. CASE inst1_wrempty
    BY <1>2, <1>8, <2>1, <2>2, <2>4, <2>5 DEF FsmInv, Asked
  <2>6. CASE ~inst1_wrempty
    BY <1>2, <1>8, <2>1, <2>2, <2>3, <2>6 DEF FsmInv, Asked
  <2> QED BY <2>5, <2>6
<1> QED BY <1>1, <1>4, <1>5, <1>6, <1>7, <1>8

\* The registers of the data path on an edge.
LEMMA BusEffect ==
  ASSUME TypeOK, FsmInv, EmptyInv, BusTick
  PROVE  /\ stream_open
         /\ UNCHANGED <<stream_open, host_pos, rd_seen, in_pct_rdy, reader, reader_cnt, got, torn>>
         /\ inst1_wrreq' <=> inst0_rdreq
         /\ inst1_wrempty' <=> inst1_wrempty /\ ~inst1_wrreq
         /\ fifo1' = IF inst1_wrreq THEN Append(fifo1, inst0_q) ELSE fifo1
         /\ Fetched' \in Nat /\ Written' \in Nat
         /\ IF state = "check_fifo_1" /\ inst1_wrempty
              THEN /\ state' = "idle" /\ Fetched' = 0 /\ Written' = 0
                   /\ ~inst0_rdreq /\ ~inst1_wrreq /\ Written = PctWords
              ELSE /\ Fetched' = IF inst0_rdreq THEN Fetched + 1 ELSE Fetched
                   /\ Written' = IF inst1_wrreq THEN Written + 1 ELSE Written
<1>1. /\ stream_open
      /\ UNCHANGED <<stream_open, host_pos, rd_seen, in_pct_rdy, reader, reader_cnt, got, torn>>
      /\ inst0_rdreq' <=> state = "trnsf_fifo"
      /\ inst1_wrreq' <=> inst0_rdreq
      /\ inst1_wrempty' <=> inst1_wrempty /\ ~inst1_wrreq
      /\ fifo1' = IF inst1_wrreq THEN Append(fifo1, inst0_q) ELSE fifo1
  BY DEF BusTick, Running, IntRegs, WriteFifo1, hostVars, readerVars, TypeOK
<1>2. Asked \in Nat /\ Fetched \in Nat /\ Written \in Nat
  BY Counts, Sizes
<1>3. CASE state = "check_fifo_1" /\ inst1_wrempty
  <2>1. state' = "idle" /\ Asked' = 0 /\ ~inst1_wrreq
    BY <1>3, FsmNext
  <2>2. ~inst0_rdreq
    BY <1>3 DEF FsmInv
  <2>3. Fetched' = 0 /\ Written' = 0
    BY <1>1, <1>3, <2>1, <2>2 DEF Fetched, Written
  <2>4. Written = PctWords
    BY <1>3, <2>1, Counts DEF Written
  <2> QED BY <1>1, <1>3, <2>1, <2>2, <2>3, <2>4
<1>4. CASE ~(state = "check_fifo_1" /\ inst1_wrempty)
  <2>1. Asked' = IF inst0_rdreq' THEN Asked + 1 ELSE Asked
    BY <1>4, FsmNext
  <2>2. Fetched' = Asked
    BY <1>2, <2>1 DEF Fetched
  <2>3. Fetched' = IF inst0_rdreq THEN Fetched + 1 ELSE Fetched
    BY <1>2, <2>2 DEF Fetched
  <2>4. Written' = Fetched
    BY <1>1, <1>2, <2>2, <2>3 DEF Written, Fetched
  <2>5. Written' = IF inst1_wrreq THEN Written + 1 ELSE Written
    BY <1>2, <2>4 DEF Written
  <2> QED BY <1>1, <1>2, <1>4, <2>3, <2>4, <2>5
<1> QED BY <1>3, <1>4

\* The numbers of a word.
LEMMA WordFacts ==
  ASSUME TypeOK
  PROVE  /\ host_pos = <<host_pos[1], host_pos[2]>> /\ host_pos[1] \in Nat /\ host_pos[2] \in Nat
         /\ NextOut = <<NextOut[1], NextOut[2]>> /\ NextOut[1] \in Nat /\ NextOut[2] \in Nat
         /\ got[1] \in Nat /\ got[2] \in Nat
         /\ fifo0 # <<>> => NextOut \in Words
         /\ NextOut[1] > 0 => Packet \in Nat
<1>1. host_pos \in Nat \X Nat
  BY Sizes DEF TypeOK
<1>2. Words \subseteq Nat \X Nat /\ NoWord \in Nat \X Nat
  BY Sizes DEF Words, NoWord
<1>3. fifo0 # <<>> => NextOut \in Words
  BY TailFacts DEF NextOut, TypeOK
<1>4. NextOut \in Nat \X Nat
  BY <1>1, <1>2, <1>3 DEF NextOut
<1>5. got \in Nat \X Nat
  BY <1>2 DEF TypeOK
<1> QED BY <1>1, <1>3, <1>4, <1>5 DEF Packet

\* The next word of the first FIFO after one has been read.
LEMMA NextOutFetched ==
  ASSUME TypeOK, HostInv, fifo0 # <<>>, fifo0' = Tail(fifo0), host_pos' = host_pos
  PROVE  /\ NextOut' = NextPos(NextOut)
         /\ \A i \in 1 .. Len(fifo0') - 1 : fifo0'[i + 1] = NextPos(fifo0'[i])
         /\ fifo0' # <<>> => host_pos = NextPos(fifo0'[Len(fifo0')])
         /\ \A i \in 1 .. Len(fifo0') : fifo0'[i][1] <= host_pos[1]
<1>1. /\ Len(fifo0) \in Nat /\ Len(fifo0) > 0 /\ Len(fifo0') = Len(fifo0) - 1
      /\ \A i \in 1 .. Len(fifo0) - 1 : fifo0'[i] = fifo0[i + 1]
      /\ fifo0' = <<>> <=> Len(fifo0) = 1
  BY TailFacts DEF TypeOK
<1>2. /\ \A i \in 1 .. Len(fifo0) - 1 : fifo0[i + 1] = NextPos(fifo0[i])
      /\ host_pos = NextPos(fifo0[Len(fifo0)])
      /\ \A i \in 1 .. Len(fifo0) : fifo0[i][1] <= host_pos[1]
  BY DEF HostInv
<1> HIDE DEF NextPos
<1>3. NextOut' = NextPos(NextOut)
  <2>1. CASE Len(fifo0) = 1
    BY <1>1, <1>2, <2>1 DEF NextOut
  <2>2. CASE Len(fifo0) > 1
    <3>1. fifo0'[1] = fifo0[2] /\ fifo0[2] = NextPos(fifo0[1])
      BY <1>1, <1>2, <2>2
    <3> QED BY <1>1, <2>2, <3>1 DEF NextOut
  <2> QED BY <1>1, <2>1, <2>2
<1>4. ASSUME NEW i \in 1 .. Len(fifo0') - 1
      PROVE  fifo0'[i + 1] = NextPos(fifo0'[i])
  <2>1. i \in 1 .. Len(fifo0) - 1 /\ i + 1 \in 1 .. Len(fifo0) - 1
    BY <1>1
  <2> QED BY <1>1, <1>2, <2>1
<1>5. ASSUME fifo0' # <<>>
      PROVE  host_pos = NextPos(fifo0'[Len(fifo0')])
  <2>1. Len(fifo0) - 1 \in 1 .. Len(fifo0) - 1 /\ (Len(fifo0) - 1) + 1 = Len(fifo0)
    BY <1>1, <1>5
  <2> QED BY <1>1, <1>2, <2>1
<1>6. ASSUME NEW i \in 1 .. Len(fifo0')
      PROVE  fifo0'[i][1] <= host_pos[1]
  <2>1. i \in 1 .. Len(fifo0) - 1 /\ i + 1 \in 1 .. Len(fifo0)
    BY <1>1
  <2> QED BY <1>1, <1>2, <2>1
<1> QED BY <1>3, <1>4, <1>5, <1>6

\* NextPos, number by number.
LEMMA NextPosFacts ==
  ASSUME NEW p \in Nat, NEW n \in 0 .. PctWords - 1
  PROVE  /\ n + 1 < PctWords => NextPos(<<p, n>>) = <<p, n + 1>>
         /\ n + 1 = PctWords => NextPos(<<p, n>>) = <<p + 1, 0>>
BY Sizes DEF NextPos

\* An edge keeps every variable in its type: the second FIFO has room for the
\* word that is written into it.
LEMMA BusTickTypes ==
  ASSUME IInv, BusTick
  PROVE  TypeOK'
<1>1. TypeOK /\ FsmInv /\ EmptyInv /\ WaitInv /\ ReadInv
  BY DEF IInv, DataInv
<1>2. /\ stream_open
      /\ UNCHANGED <<stream_open, host_pos, rd_seen, in_pct_rdy, reader, reader_cnt, got, torn>>
      /\ fifo1' = IF inst1_wrreq THEN Append(fifo1, inst0_q) ELSE fifo1
  BY <1>1, BusEffect
<1>3. /\ fifo0' \in Seq(Words) /\ Len(fifo0') <= Fifo0Depth
      /\ inst0_q' \in Words \cup {NoWord} /\ inst0_used' \in 0 .. Len(fifo0')
  <2>1. CASE inst0_rdreq
    <3>1. /\ fifo0 # <<>> /\ inst0_q' = Head(fifo0) /\ fifo0' = Tail(fifo0)
          /\ inst0_used' = inst0_used - 1 /\ inst0_used > 0
      BY <1>1, <2>1, FetchEffect, Counts
    <3>2. /\ Len(fifo0) \in Nat /\ fifo0' \in Seq(Words) /\ Len(fifo0') = Len(fifo0) - 1
          /\ inst0_q' \in Words
      BY <1>1, <3>1, TailFacts DEF TypeOK
    <3>3. inst0_used \in 0 .. Len(fifo0) /\ Len(fifo0) <= Fifo0Depth
      BY <1>1 DEF TypeOK
    <3> HIDE DEF Words
    <3> QED BY <3>1, <3>2, <3>3, DepthAssumption
  <2>2. CASE ~inst0_rdreq
    BY <1>1, <2>2, FetchEffect DEF TypeOK
  <2> QED BY <2>1, <2>2
<1>4. /\ fifo1' \in Seq(Words \cup {NoWord}) /\ Len(fifo1') <= PctWords
      /\ rd_seen' \in 0 .. Len(fifo1')
  <2>1. CASE inst1_wrreq
    <3>1. Written < PctWords /\ Written \in Nat
      BY <1>1, <2>1, Counts, Sizes
    <3>2. reader \in Waiting
      BY <1>1, <1>2, <2>1 DEF ReadInv, TypeOK, Waiting
    <3>3. Len(fifo1) = Written
      BY <1>1, <3>1, <3>2, Sizes DEF WaitInv
    <3>4. fifo1 \in Seq(Words \cup {NoWord}) /\ inst0_q \in Words \cup {NoWord}
      BY <1>1 DEF TypeOK
    <3>5. fifo1' \in Seq(Words \cup {NoWord}) /\ Len(fifo1') = Len(fifo1) + 1
      BY <1>2, <2>1, <3>4, AppendFacts
    <3>6. rd_seen' \in 0 .. Len(fifo1)
      BY <1>1, <1>2 DEF TypeOK
    <3> QED BY <3>1, <3>3, <3>5, <3>6, Sizes
  <2>2. CASE ~inst1_wrreq
    BY <1>1, <1>2, <2>2 DEF TypeOK
  <2> QED BY <2>1, <2>2
<1>5. /\ state' \in {"idle", "check_fifo_0", "check_trnsf", "trnsf_fifo", "check_fifo_1"}
      /\ inst0_rdreq' \in BOOLEAN /\ inst1_wrreq' \in BOOLEAN /\ inst1_wrempty' \in BOOLEAN
  BY <1>1 DEF BusTick, Fsm, Idle, CheckTrnsf, CheckFifo0, TrnsfFifo, CheckFifo1, IntRegs,
              WriteFifo1, TypeOK
<1>6. trnsf_cnt' \in 0 .. TrnsfN + 1 /\ rd_cnt' \in 0 .. Chunk
  <2>1. /\ trnsf_cnt' = CASE state = "check_trnsf" -> trnsf_cnt + 1
                          [] state = "idle" -> 0
                          [] OTHER -> trnsf_cnt
        /\ rd_cnt' = IF state = "trnsf_fifo" THEN rd_cnt + 1 ELSE 0
    BY DEF BusTick, Counters
  <2>2. /\ state = "check_trnsf" => trnsf_cnt <= TrnsfN
        /\ state = "trnsf_fifo" => rd_cnt < Chunk
    BY <1>1 DEF FsmInv
  <2>3. trnsf_cnt \in 0 .. TrnsfN + 1 /\ rd_cnt \in 0 .. Chunk
    BY <1>1 DEF TypeOK
  <2> QED BY <2>1, <2>2, <2>3, ChunkAssumption, TrnsfNAssumption
<1>7. rst_pipe' \in [1 .. 2 -> BOOLEAN]
  BY <1>1 DEF BusTick, ReleaseReset, TypeOK
<1> QED BY <1>1, <1>2, <1>3, <1>4, <1>5, <1>6, <1>7 DEF TypeOK

\* An edge keeps the words of the packet together.
LEMMA BusTickWords ==
  ASSUME IInv, BusTick
  PROVE  /\ HostInv' /\ WordInv'
         /\ ~(state = "check_fifo_1" /\ inst1_wrempty) => Packet' = Packet
         /\ state = "check_fifo_1" /\ inst1_wrempty => Packet' > got[1]
<1>1. TypeOK /\ HostInv /\ FsmInv /\ EmptyInv /\ WordInv
  BY DEF IInv, DataInv
<1>2. /\ stream_open' /\ UNCHANGED <<host_pos, got>>
      /\ inst1_wrreq' <=> inst0_rdreq
  BY <1>1, BusEffect
<1> DEFINE p == NextOut[1]
           n == NextOut[2]
<1>3. /\ NextOut = <<p, n>> /\ p \in Nat /\ n \in Nat /\ got[1] \in Nat
      /\ n = IF Fetched = PctWords THEN 0 ELSE Fetched
      /\ p > got[1]
      /\ Fetched \in 0 .. PctWords /\ PctWords \in Nat /\ PctWords > 1
  BY <1>1, WordFacts, Counts, Sizes DEF WordInv
<1>4. CASE inst0_rdreq
  <2>1. /\ Fetched < PctWords /\ ~(state = "check_fifo_1" /\ inst1_wrempty)
        /\ Fetched' = Fetched + 1
    BY <1>1, <1>4, Counts, BusEffect
  <2>2. fifo0 # <<>> /\ inst0_q' = Head(fifo0) /\ fifo0' = Tail(fifo0)
    BY <1>1, <1>4, FetchEffect
  <2>3. inst0_q' = NextOut
    BY <1>1, <2>2, TailFacts DEF NextOut, TypeOK
  <2>4. NextOut' = NextPos(<<p, n>>)
    BY <1>1, <1>2, <1>3, <2>2, NextOutFetched
  <2>5. n = Fetched /\ Packet = p
    BY <1>3, <2>1 DEF Packet
  <2>6. n \in 0 .. PctWords - 1
    BY <1>3, <2>1, <2>5
  <2>7. HostInv'
    BY <1>1, <1>2, <2>2, NextOutFetched DEF HostInv
  <2>8. WordInv' /\ Packet' = Packet
    <3>1. CASE Fetched + 1 < PctWords
      <4>1. NextOut' = <<p, n + 1>>
        BY <1>3, <2>4, <2>5, <2>6, <3>1, NextPosFacts
      <4>2. Fetched' # PctWords
        BY <1>3, <2>1, <3>1
      <4>3. Packet' = p
        BY <4>1, <4>2 DEF Packet
      <4>4. Fetched' - 1 = n
        BY <1>3, <2>1, <2>5
      <4>5. inst0_q' = <<p, n>>
        BY <1>3, <2>3
      <4> HIDE DEF p, n
      <4> QED BY <1>2, <1>3, <2>1, <2>5, <4>1, <4>2, <4>3, <4>4, <4>5 DEF WordInv
    <3>2. CASE Fetched + 1 = PctWords
      <4>1. NextOut' = <<p + 1, 0>>
        BY <1>3, <2>4, <2>5, <2>6, <3>2, NextPosFacts
      <4>2. Fetched' = PctWords
        BY <2>1, <3>2
      <4>3. Packet' = p
        BY <1>3, <4>1, <4>2 DEF Packet
      <4>4. Fetched' - 1 = n
        BY <1>3, <2>1, <2>5
      <4>5. inst0_q' = <<p, n>>
        BY <1>3, <2>3
      <4> HIDE DEF p, n
      <4> QED BY <1>2, <1>3, <2>1, <2>5, <4>1, <4>2, <4>3, <4>4, <4>5 DEF WordInv
    <3> QED BY <1>3, <2>1, <3>1, <3>2
  <2> QED BY <2>1, <2>7, <2>8
<1>5. CASE ~inst0_rdreq
  <2>1. UNCHANGED <<inst0_q, fifo0, inst0_used>>
    BY <1>1, <1>5, FetchEffect
  <2>2. NextOut' = NextOut
    BY <1>2, <2>1 DEF NextOut
  <2>3. HostInv'
    BY <1>1, <1>2, <2>1 DEF HostInv
  <2>4. CASE state = "check_fifo_1" /\ inst1_wrempty
    <3>1. Fetched' = 0 /\ Fetched = PctWords
      BY <1>1, <2>4, BusEffect, Counts
    <3>2. WordInv'
      BY <1>2, <1>3, <1>5, <2>2, <3>1 DEF WordInv
    <3>3. Packet' = p
      BY <1>3, <2>2, <3>1 DEF Packet
    <3> QED BY <1>3, <2>3, <2>4, <3>2, <3>3
  <2>5. CASE ~(state = "check_fifo_1" /\ inst1_wrempty)
    <3>1. Fetched' = Fetched
      BY <1>1, <1>5, <2>5, BusEffect
    <3>2. Packet' = Packet
      BY <2>2, <3>1 DEF Packet
    <3>3. WordInv'
      BY <1>2, <1>3, <1>5, <2>2, <3>1 DEF WordInv
    <3> QED BY <2>3, <2>5, <3>2, <3>3
  <2> QED BY <2>4, <2>5
<1> QED BY <1>4, <1>5

\* An edge keeps what is known of the second FIFO.
LEMMA BusTickFifo1 ==
  ASSUME IInv, BusTick
  PROVE  EmptyInv' /\ WaitInv' /\ ReadInv'
<1>1. TypeOK /\ HostInv /\ FsmInv /\ EmptyInv /\ WordInv /\ WaitInv /\ ReadInv
  BY DEF IInv, DataInv
<1>2. /\ stream_open
      /\ UNCHANGED <<stream_open, host_pos, rd_seen, in_pct_rdy, reader, reader_cnt, got, torn>>
      /\ inst1_wrreq' <=> inst0_rdreq
      /\ inst1_wrempty' <=> inst1_wrempty /\ ~inst1_wrreq
      /\ fifo1' = IF inst1_wrreq THEN Append(fifo1, inst0_q) ELSE fifo1
  BY <1>1, BusEffect
<1>3. EmptyInv'
  <2>1. CASE state = "check_fifo_1" /\ inst1_wrempty
    BY <1>1, <1>2, <2>1, BusEffect DEF EmptyInv
  <2>2. CASE ~(state = "check_fifo_1" /\ inst1_wrempty)
    <3>1. inst1_wrempty' => Written' = Written /\ fifo1' = fifo1
      BY <1>1, <1>2, <2>2, BusEffect
    <3> QED BY <1>1, <1>2, <2>2, <3>1 DEF EmptyInv
  <2> QED BY <2>1, <2>2
<1>4. WaitInv'
  <2> SUFFICES ASSUME reader \in Waiting
               PROVE  \/ fifo1' = <<>> /\ Written' = PctWords
                      \/ /\ Packet' > got[1] /\ Len(fifo1') = Written'
                         /\ \A i \in 1 .. Len(fifo1') : fifo1'[i] = <<Packet', i - 1>>
    BY <1>2 DEF WaitInv
  <2>1. CASE state = "check_fifo_1" /\ inst1_wrempty
    <3>1. fifo1' = <<>> /\ Written' = 0 /\ Packet' > got[1]
      BY <1>1, <1>2, <2>1, BusEffect, BusTickWords DEF EmptyInv
    <3> QED BY <3>1
  <2>2. CASE ~(state = "check_fifo_1" /\ inst1_wrempty) /\ ~inst1_wrreq
    <3>1. Written' = Written /\ fifo1' = fifo1 /\ Packet' = Packet
      BY <1>1, <1>2, <2>2, BusEffect, BusTickWords
    <3> QED BY <1>1, <3>1 DEF WaitInv
  <2>3. CASE ~(state = "check_fifo_1" /\ inst1_wrempty) /\ inst1_wrreq
    <3>1. Written < PctWords /\ Written \in Nat
      BY <1>1, <2>3, Counts, Sizes
    <3>2. /\ Packet > got[1] /\ Len(fifo1) = Written
          /\ \A i \in 1 .. Len(fifo1) : fifo1[i] = <<Packet, i - 1>>
      BY <1>1, <3>1, Sizes DEF WaitInv
    <3>3. inst0_q = <<Packet, Written>>
      <4>1. inst0_q = <<Packet, Fetched - 1>> /\ Written = Fetched - 1
        BY <1>1, <2>3 DEF WordInv, Written
      <4> QED BY <4>1
    <3>4. Written' = Written + 1 /\ Packet' = Packet
      BY <1>1, <2>3, BusEffect, BusTickWords
    <3>5. fifo1 \in Seq(Words \cup {NoWord}) /\ inst0_q \in Words \cup {NoWord}
      BY <1>1 DEF TypeOK
    <3>6. /\ Len(fifo1') = Len(fifo1) + 1
          /\ fifo1'[Len(fifo1) + 1] = inst0_q
          /\ \A i \in 1 .. Len(fifo1) : fifo1'[i] = fifo1[i]
      BY <1>2, <2>3, <3>5, AppendFacts
    <3>7. ASSUME NEW i \in 1 .. Len(fifo1')
          PROVE  fifo1'[i] = <<Packet, i - 1>>
      <4>1. CASE i \in 1 .. Len(fifo1)
        BY <3>2, <3>6, <4>1
      <4>2. CASE i = Written + 1
        BY <3>1, <3>2, <3>3, <3>6, <4>2
      <4> QED BY <3>1, <3>2, <3>6, <4>1, <4>2
    <3> QED BY <3>2, <3>4, <3>6, <3>7
  <2> QED BY <2>1, <2>2, <2>3
<1>5. ReadInv'
  <2> SUFFICES ASSUME reader \in {"check_smpl_nr", "rd_pct"}
               PROVE  /\ fifo1' = fifo1 /\ state' = state
                      /\ ~inst1_wrempty' /\ ~inst1_wrreq'
    BY <1>1, <1>2 DEF ReadInv
  <2>1. state = "check_fifo_1" /\ ~inst1_wrreq /\ ~inst1_wrempty
    BY <1>1, <1>2 DEF ReadInv
  <2>2. ~inst0_rdreq
    BY <1>1, <2>1 DEF FsmInv
  <2>3. state' = state
    BY <2>1 DEF BusTick, Fsm, Idle, CheckTrnsf, CheckFifo0, TrnsfFifo, CheckFifo1
  <2> QED BY <1>2, <2>1, <2>2, <2>3
<1> QED BY <1>3, <1>4, <1>5

\* An edge of bus_clk.
LEMMA BusTickNext ==
  ASSUME IInv, BusTick
  PROVE  DataInv'
BY BusTickTypes, BusTickWords, BusTickFifo1, FsmNext DEF IInv, DataInv

-----------------------------------------------------------------------------
(* The other steps.                                                        *)

\* What the counts and the next word depend on.
LEMMA CountsSame ==
  ASSUME UNCHANGED busVars
  PROVE  /\ Fetched' = Fetched /\ Written' = Written
         /\ NextOut' = NextOut => Packet' = Packet
BY DEF busVars, Asked, Fetched, Written, Packet

\* The next word stays when nothing is put into the first FIFO or taken.
LEMMA OutSame ==
  ASSUME UNCHANGED <<host_pos, fifo0>>
  PROVE  NextOut' = NextOut
BY DEF NextOut

\* The host writes a word.
LEMMA HostWriteNext ==
  ASSUME IInv, HostWrite
  PROVE  DataInv'
<1>1. TypeOK /\ HostInv /\ FsmInv /\ EmptyInv /\ WordInv /\ WaitInv /\ ReadInv
  BY DEF IInv, DataInv
<1>2. /\ stream_open /\ host_pos[1] <= MaxPkts /\ Len(fifo0) < Fifo0Depth
      /\ fifo0' = Append(fifo0, host_pos) /\ host_pos' = NextPos(host_pos)
      /\ UNCHANGED <<stream_open, inst0_q, inst0_used, busVars, fifo1,
                     inst1_wrempty, rd_seen, rst_pipe, readerVars>>
  BY DEF HostWrite
<1>3. /\ host_pos = <<host_pos[1], host_pos[2]>>
      /\ host_pos[1] \in 1 .. MaxPkts /\ host_pos[2] \in 0 .. PctWords - 1
  BY <1>1, <1>2, Sizes DEF TypeOK
<1>4. host_pos \in Words
  BY <1>3 DEF Words
<1>5. /\ fifo0' \in Seq(Words) /\ Len(fifo0) \in Nat /\ Len(fifo0') = Len(fifo0) + 1
      /\ fifo0'[Len(fifo0) + 1] = host_pos
      /\ \A i \in 1 .. Len(fifo0) : fifo0'[i] = fifo0[i]
      /\ fifo0' # <<>>
  <2>1. fifo0 \in Seq(Words) /\ fifo0' = Append(fifo0, host_pos)
    BY <1>1, <1>2 DEF TypeOK
  <2> HIDE DEF Words
  <2> QED BY <1>4, <2>1, AppendFacts
<1>6. /\ host_pos' \in (1 .. MaxPkts + 1) \X (0 .. PctWords - 1)
      /\ host_pos'[1] >= host_pos[1]
      /\ host_pos'[1] > MaxPkts => host_pos'[2] = 0
  <2> DEFINE p == host_pos[1]
             n == host_pos[2]
  <2>1. p \in Nat /\ p >= 1 /\ p <= MaxPkts /\ n \in 0 .. PctWords - 1
        /\ host_pos' = NextPos(<<p, n>>)
    <3>1. host_pos' = NextPos(host_pos) /\ host_pos = <<p, n>>
      BY <1>2, <1>3
    <3>2. p \in Nat /\ p >= 1 /\ p <= MaxPkts /\ n \in 0 .. PctWords - 1
      BY <1>3, BoundAssumption
    <3> QED BY <3>1, <3>2
  <2> SUFFICES /\ host_pos' \in (1 .. MaxPkts + 1) \X (0 .. PctWords - 1)
               /\ host_pos'[1] >= p
               /\ host_pos'[1] > MaxPkts => host_pos'[2] = 0
    OBVIOUS
  <2> HIDE DEF p, n
  <2>2. CASE n + 1 < PctWords
    <3>1. host_pos' = <<p, n + 1>>
      BY <2>1, <2>2, NextPosFacts
    <3> QED BY <2>1, <2>2, <3>1, Sizes
  <2>3. CASE n + 1 = PctWords
    <3>1. host_pos' = <<p + 1, 0>>
      BY <2>1, <2>3, NextPosFacts
    <3> QED BY <2>1, <2>3, <3>1, Sizes
  <2> QED BY <2>1, <2>2, <2>3, Sizes
<1>7. NextOut' = NextOut
  <2>1. CASE fifo0 = <<>>
    BY <1>5, <2>1 DEF NextOut
  <2>2. CASE fifo0 # <<>>
    <3>1. 1 \in 1 .. Len(fifo0)
      BY <1>1, <2>2 DEF TypeOK
    <3> QED BY <1>5, <2>2, <3>1 DEF NextOut
  <2> QED BY <2>1, <2>2
<1>8. Fetched' = Fetched /\ Written' = Written /\ Packet' = Packet
  BY <1>2, <1>7, CountsSame
<1>9. TypeOK'
  <2>1. inst0_used' \in 0 .. Len(fifo0') /\ Len(fifo0') <= Fifo0Depth
    BY <1>1, <1>2, <1>5, DepthAssumption DEF TypeOK
  <2> QED BY <1>1, <1>2, <1>5, <1>6, <2>1 DEF TypeOK, busVars, readerVars
<1>10. HostInv'
  <2>1. ASSUME NEW i \in 1 .. Len(fifo0') - 1
        PROVE  fifo0'[i + 1] = NextPos(fifo0'[i])
    <3> HIDE DEF NextPos
    <3>1. CASE i = Len(fifo0)
      <4>1. fifo0 # <<>> /\ i \in 1 .. Len(fifo0)
        BY <1>5, <3>1
      <4>2. host_pos = NextPos(fifo0[Len(fifo0)])
        BY <1>1, <4>1 DEF HostInv
      <4> QED BY <1>5, <3>1, <4>1, <4>2
    <3>2. CASE i # Len(fifo0)
      <4>1. i \in 1 .. Len(fifo0) - 1 /\ i \in 1 .. Len(fifo0) /\ i + 1 \in 1 .. Len(fifo0)
        BY <1>5, <3>2
      <4>2. fifo0[i + 1] = NextPos(fifo0[i])
        BY <1>1, <4>1 DEF HostInv
      <4> QED BY <1>5, <4>1, <4>2
    <3> QED BY <3>1, <3>2
  <2>2. host_pos' = NextPos(fifo0'[Len(fifo0')])
    BY <1>2, <1>5
  <2>3. ASSUME NEW i \in 1 .. Len(fifo0')
        PROVE  fifo0'[i][1] <= host_pos'[1]
    <3>1. CASE i = Len(fifo0) + 1
      BY <1>3, <1>5, <1>6, <3>1
    <3>2. CASE i # Len(fifo0) + 1
      <4>1. i \in 1 .. Len(fifo0)
        BY <1>5, <3>2
      <4>2. fifo0[i][1] <= host_pos[1] /\ fifo0'[i] = fifo0[i]
        BY <1>1, <1>5, <4>1 DEF HostInv
      <4>3. fifo0[i] \in Words
        BY <1>1, <4>1 DEF TypeOK
      <4>4. fifo0[i][1] \in Nat
        BY <4>3, Sizes DEF Words
      <4>5. host_pos[1] \in Nat /\ host_pos'[1] \in Nat
        BY <1>3, <1>6, BoundAssumption
      <4> QED BY <1>6, <4>2, <4>4, <4>5
    <3> QED BY <3>1, <3>2
  <2> QED BY <1>2, <1>5, <1>6, <2>1, <2>2, <2>3 DEF HostInv
<1>11. FsmInv' /\ EmptyInv' /\ WordInv' /\ WaitInv' /\ ReadInv'
  BY <1>1, <1>2, <1>7, <1>8
     DEF FsmInv, EmptyInv, WordInv, WaitInv, ReadInv, busVars, readerVars
<1> QED BY <1>9, <1>10, <1>11 DEF DataInv

\* The host closes the stream: a packet it had begun is over, and the first
\* word that comes next is the header of a later one.
LEMMA CloseNext ==
  ASSUME IInv, Close
  PROVE  DataInv'
<1>1. TypeOK /\ HostInv /\ FsmInv /\ EmptyInv /\ WordInv /\ WaitInv /\ ReadInv
  BY DEF IInv, DataInv
<1>2. /\ ~stream_open'
      /\ host_pos' = IF host_pos[2] = 0 THEN host_pos ELSE <<host_pos[1] + 1, 0>>
      /\ fifo0' = <<>> /\ inst0_used' = 0
      /\ fifo1' = <<>> /\ inst1_wrempty' /\ rd_seen' = 0
      /\ state' = "idle" /\ trnsf_cnt' = 0 /\ rd_cnt' = 0
      /\ ~inst0_rdreq' /\ ~inst1_wrreq'
      /\ UNCHANGED <<inst0_q, rst_pipe, in_pct_rdy, reader, reader_cnt, got>>
      /\ torn' \in BOOLEAN /\ stream_open' \in BOOLEAN /\ inst1_wrempty' \in BOOLEAN
      /\ inst0_rdreq' \in BOOLEAN /\ inst1_wrreq' \in BOOLEAN
  BY <1>1 DEF Close, TypeOK
<1>3. Fetched' = 0 /\ Written' = 0 /\ NextOut' = host_pos' /\ Packet' = host_pos'[1]
  BY <1>2, Sizes DEF Asked, Fetched, Written, NextOut, Packet
<1>4. /\ host_pos[1] \in 1 .. MaxPkts + 1 /\ host_pos[2] \in 0 .. PctWords - 1
      /\ host_pos = <<host_pos[1], host_pos[2]>>
  BY <1>1 DEF TypeOK
<1>5. /\ host_pos' \in (1 .. MaxPkts + 1) \X (0 .. PctWords - 1)
      /\ host_pos'[2] = 0 /\ host_pos'[1] >= host_pos[1]
  <2>1. host_pos[2] # 0 => host_pos[1] <= MaxPkts
    BY <1>1, <1>4, Sizes DEF HostInv
  <2> QED BY <1>2, <1>4, <2>1, Sizes
<1>6. host_pos'[1] > got[1]
  <2>1. host_pos[1] >= NextOut[1]
    <3>1. CASE fifo0 = <<>>
      BY <1>4, <3>1, Sizes DEF NextOut
    <3>2. CASE fifo0 # <<>>
      <4>1. 1 \in 1 .. Len(fifo0)
        BY <1>1, <3>2 DEF TypeOK
      <4> QED BY <1>1, <3>2, <4>1 DEF NextOut, HostInv
    <3> QED BY <3>1, <3>2
  <2>2. NextOut[1] > got[1]
    BY <1>1 DEF WordInv
  <2>3. NextOut[1] \in Nat /\ got[1] \in Nat /\ host_pos[1] \in Nat /\ host_pos'[1] \in Nat
    BY <1>1, <1>4, <1>5, WordFacts, Sizes
  <2> QED BY <1>5, <2>1, <2>2, <2>3
<1>7. TypeOK'
  BY <1>1, <1>2, <1>5, Sizes DEF TypeOK
<1>8. HostInv' /\ FsmInv' /\ EmptyInv'
  BY <1>2, <1>3, <1>5, Sizes DEF HostInv, FsmInv, EmptyInv
<1>9. WordInv' /\ WaitInv' /\ ReadInv'
  <2>1. WordInv'
    BY <1>2, <1>3, <1>5, <1>6, Sizes DEF WordInv
  <2>2. WaitInv'
    BY <1>2, <1>3, <1>6 DEF WaitInv
  <2>3. ReadInv'
    BY <1>1, <1>2 DEF ReadInv
  <2> QED BY <2>1, <2>2, <2>3
<1> QED BY <1>7, <1>8, <1>9 DEF DataInv

\* Opening the stream and the steps of the synchronisers.
LEMMA QuietNext ==
  ASSUME IInv, Open \/ SeeWritten \/ BusTickReset \/ SeeFilled \/ UNCHANGED vars
  PROVE  DataInv'
<1>1. TypeOK /\ HostInv /\ FsmInv /\ EmptyInv /\ WordInv /\ WaitInv /\ ReadInv
  BY DEF IInv, DataInv
<1>2. /\ UNCHANGED <<host_pos, fifo0, inst0_q, busVars, fifo1, inst1_wrempty, readerVars>>
      /\ Open \/ UNCHANGED stream_open
  BY DEF Open, SeeWritten, BusTickReset, SeeFilled, vars, hostVars, busVars, readerVars
<1>3. /\ Fetched' = Fetched /\ Written' = Written /\ NextOut' = NextOut /\ Packet' = Packet
  BY <1>2, CountsSame, OutSame
<1>4. inst0_used' \in 0 .. Len(fifo0) /\ inst0_used' >= inst0_used
  BY <1>1 DEF Open, SeeWritten, BusTickReset, SeeFilled, vars, TypeOK
<1>5. TypeOK'
  <2>1. rd_seen' \in 0 .. Len(fifo1)
    <3>1. CASE SeeFilled
      <4>1. rd_seen' \in rd_seen + 1 .. Len(fifo1) /\ rd_seen \in 0 .. Len(fifo1)
        BY <1>1, <3>1 DEF SeeFilled, TypeOK
      <4> QED BY <4>1
    <3>2. CASE ~SeeFilled
      BY <1>1, <3>2 DEF Open, SeeWritten, BusTickReset, vars, TypeOK
    <3> QED BY <3>1, <3>2
  <2>3. stream_open' \in BOOLEAN
    BY <1>1 DEF Open, SeeWritten, BusTickReset, SeeFilled, vars, hostVars, TypeOK
  <2>2. rst_pipe' \in [1 .. 2 -> BOOLEAN]
    <3>1. BusTickReset \/ UNCHANGED rst_pipe
      BY DEF Open, SeeWritten, SeeFilled, vars
    <3> QED BY <1>1, <3>1 DEF BusTickReset, ReleaseReset, TypeOK
  <2> QED BY <1>1, <1>2, <1>4, <2>1, <2>2, <2>3 DEF TypeOK, busVars, readerVars
<1>6. FsmInv'
  <2>1. inst0_used' \in Nat /\ inst0_used \in Nat /\ rd_cnt \in Nat /\ rd_cnt' = rd_cnt
    BY <1>1, <1>2, <1>4, Sizes DEF TypeOK, busVars
  <2>2. UNCHANGED <<state, trnsf_cnt, rd_cnt, inst0_rdreq, inst1_wrreq, inst1_wrempty>>
    BY <1>2 DEF busVars
  <2>3. inst0_used > 0 => inst0_used' > 0
    BY <1>4, <2>1
  <2>4. ASSUME NEW c \in Nat, inst0_used + rd_cnt >= c
        PROVE  inst0_used' + rd_cnt' >= c
    <3> DEFINE u == inst0_used'
    <3>1. u \in Nat /\ u >= inst0_used
      BY <1>4, <2>1
    <3> HIDE DEF u
    <3>2. u + rd_cnt >= c
      BY <2>1, <2>4, <3>1
    <3> QED BY <2>1, <3>2 DEF u
  <2>5. Chunk \in Nat /\ Chunk + 1 \in Nat
    BY ChunkAssumption
  <2> QED BY <1>1, <2>2, <2>3, <2>4, <2>5 DEF FsmInv
<1>7. HostInv' /\ EmptyInv' /\ WordInv' /\ WaitInv' /\ ReadInv'
  <2>1. CASE Open
    BY <1>1, <1>2, <1>3, <2>1
       DEF Open, OnPacket, HostInv, EmptyInv, WordInv, WaitInv, ReadInv, busVars, readerVars
  <2>2. CASE UNCHANGED stream_open
    BY <1>1, <1>2, <1>3, <2>2
       DEF HostInv, EmptyInv, WordInv, WaitInv, ReadInv, busVars, readerVars
  <2> QED BY <1>2, <2>1, <2>2
<1> QED BY <1>5, <1>6, <1>7 DEF DataInv

\* The write side learns that the second FIFO is empty: no word of this packet
\* has been written, or all have.
LEMMA SeeEmptiedNext ==
  ASSUME IInv, SeeEmptied
  PROVE  DataInv'
<1>1. TypeOK /\ HostInv /\ FsmInv /\ EmptyInv /\ WordInv /\ WaitInv /\ ReadInv
  BY DEF IInv, DataInv
<1>2. /\ fifo1 = <<>> /\ ~inst1_wrempty /\ ~inst1_wrreq /\ inst1_wrempty' = TRUE
      /\ UNCHANGED <<hostVars, fifo0, inst0_q, inst0_used, busVars, fifo1,
                     rd_seen, rst_pipe, readerVars>>
  BY DEF SeeEmptied
<1>3. Fetched' = Fetched /\ Written' = Written /\ NextOut' = NextOut /\ Packet' = Packet
  BY <1>2, CountsSame, OutSame DEF hostVars
<1>4. Len(fifo1) = 0
  BY <1>2
<1>5. reader \in {"check_smpl_nr", "rd_pct"} => ~stream_open
  <2> SUFFICES ASSUME reader \in {"check_smpl_nr", "rd_pct"}, stream_open
               PROVE  FALSE
    OBVIOUS
  <2>1. Len(fifo1) = PctWords - reader_cnt /\ reader_cnt \in 1 .. PctWords - 1
    BY <1>1 DEF ReadInv
  <2> QED BY <1>4, <2>1, Sizes
<1>6. Written = 0 \/ (state = "check_fifo_1" /\ ~inst1_wrreq)
  <2>1. CASE reader \in {"check_smpl_nr", "rd_pct"}
    <3>1. state = "idle"
      BY <1>1, <1>5, <2>1 DEF HostInv
    <3> QED BY <1>1, <3>1, Counts
  <2>2. CASE reader \in Waiting
    <3>1. Written = PctWords \/ Written = 0
      BY <1>1, <1>4, <2>2 DEF WaitInv
    <3> QED BY <1>1, <3>1, Counts
  <2> QED BY <1>1, <2>1, <2>2 DEF TypeOK, Waiting
<1>7. TypeOK'
  BY <1>1, <1>2 DEF TypeOK, hostVars, busVars, readerVars
<1>8. HostInv' /\ FsmInv' /\ WordInv' /\ WaitInv'
  BY <1>1, <1>2, <1>3
     DEF HostInv, FsmInv, WordInv, WaitInv, hostVars, busVars, readerVars
<1>9. EmptyInv' /\ ReadInv'
  BY <1>1, <1>2, <1>3, <1>5, <1>6 DEF EmptyInv, ReadInv, hostVars, busVars, readerVars
<1> QED BY <1>7, <1>8, <1>9 DEF DataInv

-----------------------------------------------------------------------------
(* The reader.                                                             *)

\* What is known when the whole packet is visible.
LEMMA Visible ==
  ASSUME TypeOK, HostInv, rd_seen >= PctWords
  PROVE  Len(fifo1) = PctWords /\ stream_open
<1>1. rd_seen \in 0 .. Len(fifo1) /\ Len(fifo1) \in Nat /\ Len(fifo1) <= PctWords
  BY DEF TypeOK
<1>2. Len(fifo1) = PctWords
  BY <1>1, Sizes
<1> QED BY <1>2, Sizes DEF HostInv

\* The register on an edge of tx_clk.
LEMMA RegisterFacts ==
  ASSUME TypeOK, HostInv, RegisterReady
  PROVE  in_pct_rdy' \in BOOLEAN /\ (in_pct_rdy' => Len(fifo1) = PctWords /\ stream_open)
<1> DEFINE visible == rd_seen >= PctWords
<1>1. visible \in BOOLEAN
  OBVIOUS
<1>2. visible => Len(fifo1) = PctWords /\ stream_open
  BY Visible
<1>3. in_pct_rdy' = visible
  BY DEF RegisterReady
<1> HIDE DEF visible
<1> QED BY <1>1, <1>2, <1>3

\* The header of a packet that was seen whole: the first FIFO goes on with the
\* next packet.
LEMMA OpenHeaderNext ==
  ASSUME IInv, ReadHeader, stream_open
  PROVE  DataInv' /\ got'[2] = 0 /\ got'[1] > got[1]
<1>1. TypeOK /\ HostInv /\ FsmInv /\ EmptyInv /\ WordInv /\ WaitInv /\ ReadInv
  BY DEF IInv, DataInv
<1>2. /\ reader = "wait_cmpr_pipe" /\ reader_cnt = 1 /\ reader_cnt' = 1
      /\ reader' = "check_smpl_nr" /\ Len(fifo1) = PctWords
      /\ UNCHANGED <<hostVars, fifo0, inst0_q, inst0_used, busVars,
                     inst1_wrempty, rst_pipe, torn>>
      /\ in_pct_rdy' \in BOOLEAN
  BY <1>1, RegisterFacts DEF ReadHeader, IInv, HdrInv, AtHeader
<1>3. Len(fifo1) = PctWords /\ fifo1 # <<>>
  <2>1. \A q \in Seq(Words \cup {NoWord}) : q = <<>> => Len(q) = 0
    OBVIOUS
  <2> QED BY <1>1, <1>2, <2>1, Sizes DEF TypeOK
<1>4. /\ got' = Head(fifo1) /\ fifo1' = Tail(fifo1)
      /\ rd_seen' = IF rd_seen > 0 THEN rd_seen - 1 ELSE 0
  BY <1>3 DEF ReadHeader, TakeWord
<1>5. /\ Packet > got[1] /\ Written = PctWords
      /\ \A i \in 1 .. Len(fifo1) : fifo1[i] = <<Packet, i - 1>>
  BY <1>1, <1>2, <1>3 DEF WaitInv, Waiting
<1>6. state = "check_fifo_1" /\ ~inst1_wrreq /\ Fetched = PctWords
  BY <1>1, <1>5, Counts
<1>7. stream_open /\ ~inst1_wrempty
  BY <1>1, <1>3 DEF HostInv, EmptyInv
<1>8. /\ got' = fifo1[1] /\ got' \in Words \cup {NoWord}
      /\ fifo1' \in Seq(Words \cup {NoWord}) /\ Len(fifo1') = PctWords - 1
      /\ \A i \in 1 .. PctWords - 1 : fifo1'[i] = fifo1[i + 1]
  BY <1>1, <1>3, <1>4, TailFacts DEF TypeOK
<1>9. got' = <<Packet, 0>>
  BY <1>3, <1>5, <1>8, Sizes
<1>10. Fetched' = Fetched /\ Written' = Written /\ NextOut' = NextOut /\ Packet' = Packet
  BY <1>2, CountsSame, OutSame DEF hostVars
<1>11. TypeOK'
  <2>1. rd_seen' \in 0 .. Len(fifo1') /\ Len(fifo1') <= PctWords
    <3>1. rd_seen \in 0 .. Len(fifo1)
      BY <1>1 DEF TypeOK
    <3> QED BY <1>3, <1>4, <1>8, <3>1, Sizes
  <2>2. reader_cnt' \in 0 .. PctWords
    BY <1>2, Sizes
  <2> QED BY <1>1, <1>2, <1>8, <2>1, <2>2 DEF TypeOK, hostVars, busVars
<1>12. HostInv' /\ FsmInv' /\ EmptyInv'
  BY <1>1, <1>2, <1>7, <1>10 DEF HostInv, FsmInv, EmptyInv, hostVars, busVars
<1>13. WordInv'
  <2>1. NextOut[1] > Packet
    <3>1. NextOut[1] \in Nat /\ Packet = NextOut[1] - 1
      BY <1>1, <1>6, WordFacts DEF Packet
    <3> QED BY <3>1
  <2> QED BY <1>1, <1>2, <1>6, <1>9, <1>10, <2>1 DEF WordInv, busVars
<1>14. WaitInv'
  BY <1>2 DEF WaitInv, Waiting
<1>15. ReadInv'
  <2>1. ASSUME NEW i \in 1 .. PctWords - 1
        PROVE  fifo1'[i] = <<got'[1], 1 + i - 1>>
    <3>1. i + 1 \in 1 .. Len(fifo1) /\ (i + 1) - 1 = 1 + i - 1
      BY <1>3, Sizes
    <3> QED BY <1>5, <1>8, <1>9, <3>1
  <2>2. 1 \in 1 .. PctWords - 1 /\ 1 - 1 = 0
    BY Sizes
  <2>3. ~inst1_wrempty' /\ state' = "check_fifo_1" /\ ~inst1_wrreq'
        /\ reader_cnt' = 1 /\ reader' = "check_smpl_nr" /\ stream_open'
    BY <1>2, <1>6, <1>7 DEF busVars, hostVars
  <2> QED BY <1>8, <1>9, <2>1, <2>2, <2>3 DEF ReadInv
<1> QED BY <1>5, <1>9, <1>11, <1>12, <1>13, <1>14, <1>15 DEF DataInv

\* The header of a packet whose stream was closed since: the word read last.
LEMMA ClosedHeaderNext ==
  ASSUME IInv, ReadHeader, ~stream_open
  PROVE  DataInv' /\ got' = got
<1>1. TypeOK /\ HostInv /\ FsmInv /\ EmptyInv /\ WordInv /\ WaitInv /\ ReadInv
  BY DEF IInv, DataInv
<1>2. /\ reader = "wait_cmpr_pipe" /\ reader_cnt = 1 /\ reader_cnt' = 1
      /\ reader' = "check_smpl_nr"
      /\ UNCHANGED <<hostVars, fifo0, inst0_q, inst0_used, busVars,
                     inst1_wrempty, rst_pipe, torn>>
      /\ in_pct_rdy' \in BOOLEAN
  BY <1>1, RegisterFacts DEF ReadHeader, IInv, HdrInv
<1>3. fifo1 = <<>> /\ rd_seen = 0
  <2>1. fifo1 = <<>> /\ rd_seen \in 0 .. Len(fifo1)
    BY <1>1 DEF HostInv, TypeOK
  <2> QED BY <2>1
<1>4. got' = got /\ fifo1' = fifo1 /\ rd_seen' = 0
  BY <1>3 DEF ReadHeader, TakeWord
<1>5. Fetched' = Fetched /\ Written' = Written /\ NextOut' = NextOut /\ Packet' = Packet
  BY <1>2, CountsSame, OutSame DEF hostVars
<1>6. TypeOK'
  BY <1>1, <1>2, <1>3, <1>4 DEF TypeOK, hostVars, busVars
<1>7. HostInv' /\ FsmInv' /\ EmptyInv' /\ WordInv' /\ WaitInv'
  BY <1>1, <1>2, <1>4, <1>5
     DEF HostInv, FsmInv, EmptyInv, WordInv, WaitInv, Waiting, hostVars, busVars
<1>8. ReadInv'
  BY <1>2, Sizes DEF ReadInv, hostVars
<1> QED BY <1>4, <1>6, <1>7, <1>8 DEF DataInv

\* The reader throws a late packet away, and this side starts from idle with
\* the header of the next one at the front of the first FIFO.
LEMMA DropPacketNext ==
  ASSUME IInv, DropPacket
  PROVE  DataInv'
<1>1. TypeOK /\ HostInv /\ FsmInv /\ EmptyInv /\ WordInv /\ WaitInv /\ ReadInv
  BY DEF IInv, DataInv
<1>2. /\ reader = "check_smpl_nr" /\ reader' = "clr_fifo"
      /\ fifo1' = <<>> /\ inst1_wrempty' /\ rd_seen' = 0
      /\ state' = "idle" /\ trnsf_cnt' = 0 /\ rd_cnt' = 0
      /\ ~inst0_rdreq' /\ ~inst1_wrreq'
      /\ rst_pipe' = [i \in 1 .. 2 |-> FALSE]
      /\ UNCHANGED <<hostVars, fifo0, inst0_q, inst0_used, reader_cnt, got, torn>>
      /\ inst1_wrempty' \in BOOLEAN /\ inst0_rdreq' \in BOOLEAN /\ inst1_wrreq' \in BOOLEAN
      /\ in_pct_rdy' \in BOOLEAN
  BY <1>1, RegisterFacts DEF DropPacket
<1>3. Fetched' = 0 /\ Written' = 0 /\ NextOut' = NextOut /\ Packet' = NextOut[1]
  BY <1>2, Sizes, OutSame DEF Asked, Fetched, Written, Packet, hostVars
<1>4. NextOut[2] = 0
  <2>1. Fetched = PctWords \/ Fetched = 0
    <3>1. state = "check_fifo_1" \/ state = "idle"
      BY <1>1, <1>2 DEF HostInv, ReadInv
    <3> QED BY <1>1, <3>1, Counts
  <2> QED BY <1>1, <2>1 DEF WordInv
<1>5. TypeOK'
  BY <1>1, <1>2, Sizes DEF TypeOK, hostVars
<1>6. HostInv' /\ FsmInv' /\ EmptyInv'
  BY <1>1, <1>2, <1>3 DEF HostInv, FsmInv, EmptyInv, hostVars
<1>7. WordInv' /\ WaitInv' /\ ReadInv'
  BY <1>1, <1>2, <1>3, <1>4, Sizes DEF WordInv, WaitInv, ReadInv, hostVars
<1> QED BY <1>5, <1>6, <1>7 DEF DataInv

\* The steps of the reader that take no word and reset nothing.
LEMMA DecideNext ==
  ASSUME IInv, \/ IdleEdge \/ RequestHeader \/ EndDrop \/ AcceptPacket
               \/ NextBuffer
  PROVE  DataInv'
<1>1. TypeOK /\ HostInv /\ FsmInv /\ EmptyInv /\ WordInv /\ WaitInv /\ ReadInv
  BY DEF IInv, DataInv
<1>2. UNCHANGED <<hostVars, fifo0, inst0_q, inst0_used, busVars, fifo1,
                  inst1_wrempty, rd_seen, rst_pipe, got>>
  BY DEF IdleEdge, RequestHeader, EndDrop, AcceptPacket, NextBuffer
<1>3. \/ reader \in Waiting /\ reader' \in Waiting
      \/ /\ reader = "check_smpl_nr" /\ reader' = "rd_pct"
         /\ reader_cnt' = reader_cnt
  BY DEF IdleEdge, RequestHeader, EndDrop, AcceptPacket, NextBuffer, Waiting
<1>4. Fetched' = Fetched /\ Written' = Written /\ NextOut' = NextOut /\ Packet' = Packet
  BY <1>2, CountsSame, OutSame DEF hostVars
<1>5. in_pct_rdy' \in BOOLEAN /\ torn' \in BOOLEAN /\ reader_cnt' \in 0 .. PctWords
  <2>1. in_pct_rdy' \in BOOLEAN
    BY <1>1, RegisterFacts DEF IdleEdge, RequestHeader, EndDrop, AcceptPacket, NextBuffer
  <2>2. /\ torn' = torn \/ torn' = FALSE
        /\ reader_cnt' = reader_cnt \/ reader_cnt' = 1
    BY DEF IdleEdge, RequestHeader, EndDrop, AcceptPacket, NextBuffer
  <2>3. torn' \in BOOLEAN
    BY <1>1, <2>2 DEF TypeOK
  <2>4. reader_cnt' \in 0 .. PctWords
    BY <1>1, <2>2, Sizes DEF TypeOK
  <2> QED BY <2>1, <2>3, <2>4
<1>6. TypeOK'
  BY <1>1, <1>2, <1>3, <1>5 DEF TypeOK, Waiting, hostVars, busVars
<1>7. HostInv' /\ FsmInv' /\ EmptyInv' /\ WordInv'
  BY <1>1, <1>2, <1>4 DEF HostInv, FsmInv, EmptyInv, WordInv, hostVars, busVars
<1>8. WaitInv' /\ ReadInv'
  BY <1>1, <1>2, <1>3, <1>4 DEF WaitInv, ReadInv, Waiting, hostVars, busVars
<1> QED BY <1>6, <1>7, <1>8 DEF DataInv

\* The reader takes a word of its packet, the next one unless the stream was
\* closed; it stops exactly when the second FIFO is empty.
LEMMA ReadWordNext ==
  ASSUME IInv, ReadWord
  PROVE  DataInv' /\ got' = IF torn THEN got ELSE <<got[1], got[2] + 1>>
<1>1. TypeOK /\ HostInv /\ FsmInv /\ EmptyInv /\ WordInv /\ WaitInv /\ ReadInv
  BY DEF IInv, DataInv
<1>2. /\ reader = "rd_pct" /\ reader_cnt' = reader_cnt + 1
      /\ reader' = IF reader_cnt < PctWords - 1 THEN "rd_pct" ELSE "check_next_buf"
      /\ UNCHANGED <<hostVars, fifo0, inst0_q, inst0_used, busVars,
                     inst1_wrempty, rst_pipe, torn>>
      /\ in_pct_rdy' \in BOOLEAN
      /\ torn <=> ~stream_open
  BY <1>1, RegisterFacts DEF ReadWord, IInv, HdrInv, OnPacket
<1>3. reader_cnt \in 1 .. PctWords - 1
  BY <1>1, <1>2 DEF ReadInv
<1>4. reader_cnt' \in 0 .. PctWords
      /\ (reader' = "rd_pct" => reader_cnt' \in 1 .. PctWords - 1)
      /\ reader' \in {"rd_pct", "check_next_buf"}
  BY <1>2, <1>3, Sizes
<1>5. Fetched' = Fetched /\ Written' = Written /\ NextOut' = NextOut /\ Packet' = Packet
  BY <1>2, CountsSame, OutSame DEF hostVars
<1>6. CASE stream_open
  <2>1. /\ ~torn /\ ~inst1_wrempty /\ state = "check_fifo_1" /\ ~inst1_wrreq
        /\ got[2] = reader_cnt - 1
        /\ Len(fifo1) = PctWords - reader_cnt
        /\ \A i \in 1 .. Len(fifo1) : fifo1[i] = <<got[1], reader_cnt + i - 1>>
    BY <1>1, <1>2, <1>6 DEF ReadInv
  <2>2. Len(fifo1) > 0 /\ fifo1 # <<>>
    <3>1. Len(fifo1) > 0
      BY <1>3, <2>1, Sizes
    <3> QED BY <3>1
  <2>3. /\ got' = Head(fifo1) /\ fifo1' = Tail(fifo1)
        /\ rd_seen' = IF rd_seen > 0 THEN rd_seen - 1 ELSE 0
    BY <2>2 DEF ReadWord, TakeWord
  <2>4. /\ got' = fifo1[1] /\ got' \in Words \cup {NoWord} /\ Len(fifo1) \in Nat
        /\ fifo1' \in Seq(Words \cup {NoWord}) /\ Len(fifo1') = Len(fifo1) - 1
        /\ \A i \in 1 .. Len(fifo1) - 1 : fifo1'[i] = fifo1[i + 1]
    BY <1>1, <2>2, <2>3, TailFacts DEF TypeOK
  <2>5. got' = <<got[1], reader_cnt>>
    <3>1. 1 \in 1 .. Len(fifo1) /\ reader_cnt + 1 - 1 = reader_cnt
      BY <1>3, <2>2, <2>4
    <3> QED BY <2>1, <2>4, <3>1
  <2>6. got[2] + 1 = reader_cnt
    BY <1>3, <2>1
  <2>7. TypeOK'
    <3>1. rd_seen \in 0 .. Len(fifo1) /\ Len(fifo1) <= PctWords
      BY <1>1 DEF TypeOK
    <3>2. rd_seen' \in 0 .. Len(fifo1') /\ Len(fifo1') <= PctWords
      BY <2>2, <2>3, <2>4, <3>1, Sizes
    <3> QED BY <1>1, <1>2, <1>4, <2>4, <3>2 DEF TypeOK, hostVars, busVars
  <2>8. HostInv' /\ FsmInv' /\ EmptyInv' /\ WordInv'
    BY <1>1, <1>2, <1>5, <1>6, <2>1, <2>5
       DEF HostInv, FsmInv, EmptyInv, WordInv, hostVars, busVars
  <2>9. WaitInv'
    <3> SUFFICES ASSUME reader' = "check_next_buf"
                 PROVE  fifo1' = <<>> /\ Written' = PctWords
      BY <1>4 DEF WaitInv, Waiting
    <3>1. reader_cnt = PctWords - 1
      BY <1>2, <1>3, Sizes
    <3>2. Len(fifo1') = 0
      BY <2>1, <2>4, <3>1, Sizes
    <3>3. fifo1' = <<>>
      BY <2>4, <3>2
    <3>4. Written = PctWords
      BY <1>1, <2>1, Counts DEF FsmInv, Written
    <3> QED BY <1>5, <3>3, <3>4
  <2>10. ReadInv'
    <3> DEFINE c == reader_cnt'
    <3>1. c \in Nat /\ reader_cnt = c - 1 /\ reader_cnt \in Nat
      BY <1>2, <1>3, Sizes
    <3> HIDE DEF c
    <3>2. Len(fifo1') = PctWords - c
      BY <2>1, <2>4, <3>1, Sizes
    <3>3. ASSUME NEW i \in 1 .. Len(fifo1')
          PROVE  fifo1'[i] = <<got'[1], c + i - 1>>
      <4>1. i + 1 \in 1 .. Len(fifo1) /\ i \in 1 .. Len(fifo1) - 1
            /\ reader_cnt + (i + 1) - 1 = c + i - 1
        BY <2>4, <3>1
      <4>2. fifo1'[i] = fifo1[i + 1] /\ fifo1[i + 1] = <<got[1], reader_cnt + (i + 1) - 1>>
        BY <2>1, <2>4, <4>1
      <4> QED BY <2>5, <4>1, <4>2
    <3>4. got'[2] = c - 1
      BY <2>5, <3>1
    <3> QED BY <1>2, <1>4, <1>6, <2>1, <3>2, <3>3, <3>4 DEF ReadInv, hostVars, busVars, c
  <2> QED BY <2>1, <2>5, <2>6, <2>7, <2>8, <2>9, <2>10 DEF DataInv
<1>7. CASE ~stream_open
  <2>1. torn /\ fifo1 = <<>> /\ state = "idle"
    BY <1>1, <1>2, <1>7 DEF HostInv, ReadInv
  <2>2. got' = got /\ fifo1' = fifo1 /\ rd_seen' = IF rd_seen > 0 THEN rd_seen - 1 ELSE 0
    BY <2>1 DEF ReadWord, TakeWord
  <2>3. rd_seen' = rd_seen
    <3>1. rd_seen \in 0 .. Len(fifo1) /\ Len(fifo1) = 0
      BY <1>1, <2>1 DEF TypeOK
    <3> QED BY <2>2, <3>1
  <2>4. TypeOK'
    BY <1>1, <1>2, <1>4, <2>2, <2>3 DEF TypeOK, hostVars, busVars
  <2>5. HostInv' /\ FsmInv' /\ EmptyInv' /\ WordInv'
    BY <1>1, <1>2, <1>5, <2>2 DEF HostInv, FsmInv, EmptyInv, WordInv, hostVars, busVars
  <2>6. WaitInv'
    <3>1. Written = 0 /\ Fetched = 0
      BY <1>1, <2>1, Counts
    <3>2. Packet > got[1]
      BY <1>1, <3>1, Sizes DEF WordInv, Packet
    <3> QED BY <1>5, <2>1, <2>2, <3>1, <3>2 DEF WaitInv
  <2>7. ReadInv'
    BY <1>2, <1>4, <1>7, <2>1 DEF ReadInv, hostVars
  <2> QED BY <2>1, <2>2, <2>4, <2>5, <2>6, <2>7 DEF DataInv
<1> QED BY <1>1, <1>6, <1>7 DEF TypeOK

-----------------------------------------------------------------------------
(* From the register to the header.                                        *)

\* What the steps of the host and of the synchronisers do to it.
LEMMA HdrBusNext ==
  ASSUME IInv, \/ HostWrite \/ SeeWritten \/ Open \/ Close \/ BusTick
               \/ BusTickReset \/ SeeFilled \/ SeeEmptied \/ UNCHANGED vars
  PROVE  HdrInv'
<1>1. TypeOK /\ HostInv /\ FsmInv /\ EmptyInv /\ WordInv /\ WaitInv /\ ReadInv /\ HdrInv
  BY DEF IInv, DataInv
<1>2. CASE HostWrite \/ SeeWritten \/ BusTickReset \/ SeeFilled \/ SeeEmptied \/ UNCHANGED vars
  <2>1. UNCHANGED <<stream_open, fifo1, readerVars>>
    BY <1>2 DEF HostWrite, SeeWritten, BusTickReset, SeeFilled, SeeEmptied, vars,
                hostVars, readerVars
  <2> QED BY <1>1, <2>1 DEF HdrInv, AtHeader, OnPacket, readerVars
<1>3. CASE Open
  <2>1. ~OnPacket /\ stream_open' = TRUE /\ UNCHANGED <<fifo1, readerVars>>
    BY <1>3 DEF Open
  <2> QED BY <1>1, <2>1 DEF HdrInv, AtHeader, OnPacket, readerVars
<1>4. CASE Close
  <2>1. stream_open' = FALSE /\ (torn' <=> torn \/ OnPacket)
        /\ UNCHANGED <<in_pct_rdy, reader, reader_cnt>>
    BY <1>1, <1>4 DEF Close, TypeOK
  <2> QED BY <1>1, <2>1 DEF HdrInv, AtHeader, OnPacket
<1>5. CASE BusTick
  <2>1. /\ stream_open
        /\ UNCHANGED <<stream_open, in_pct_rdy, reader, reader_cnt, torn>>
        /\ fifo1' = IF inst1_wrreq THEN Append(fifo1, inst0_q) ELSE fifo1
    BY <1>1, <1>5, BusEffect
  <2>2. AtHeader => ~inst1_wrreq
    <3> SUFFICES ASSUME AtHeader
                 PROVE  ~inst1_wrreq
      OBVIOUS
    <3>1. Len(fifo1) = PctWords /\ reader \in Waiting
      BY <1>1, <2>1 DEF HdrInv, AtHeader, Waiting
    <3>2. fifo1 # <<>>
      <4>1. Len(<<>>) = 0
        OBVIOUS
      <4> QED BY <3>1, <4>1, Sizes
    <3>3. Written = PctWords
      BY <1>1, <3>1, <3>2 DEF WaitInv
    <3> QED BY <1>1, <3>3, Counts
  <2> QED BY <1>1, <2>1, <2>2 DEF HdrInv, AtHeader, OnPacket
<1> QED BY <1>2, <1>3, <1>4, <1>5

\* And those of the reader.
LEMMA HdrReadNext ==
  ASSUME IInv, \/ IdleEdge \/ RequestHeader \/ ReadHeader \/ DropPacket
               \/ EndDrop \/ AcceptPacket \/ ReadWord \/ NextBuffer
  PROVE  HdrInv'
<1>1. TypeOK /\ HostInv /\ HdrInv
  BY DEF IInv, DataInv
<1>2. /\ UNCHANGED stream_open
      /\ in_pct_rdy' \in BOOLEAN /\ (in_pct_rdy' => Len(fifo1) = PctWords /\ stream_open)
  <2>1. RegisterReady /\ UNCHANGED stream_open
    BY DEF IdleEdge, RequestHeader, ReadHeader, DropPacket, EndDrop, AcceptPacket,
           ReadWord, NextBuffer, hostVars
  <2> QED BY <1>1, <2>1, RegisterFacts
<1>3. CASE IdleEdge
  <2>1. /\ reader = "idle" /\ reader' = IF in_pct_rdy THEN "rd_hdr" ELSE "idle"
        /\ UNCHANGED <<fifo1, torn>>
    BY <1>3 DEF IdleEdge
  <2> QED BY <1>1, <1>2, <2>1 DEF HdrInv, AtHeader, OnPacket
<1>4. CASE RequestHeader
  <2>1. /\ reader = "rd_hdr" /\ reader' = "wait_cmpr_pipe" /\ reader_cnt' = 1
        /\ UNCHANGED <<fifo1, torn>>
    BY <1>4 DEF RequestHeader
  <2> QED BY <1>1, <1>2, <2>1 DEF HdrInv, AtHeader, OnPacket
<1>5. CASE ReadHeader \/ DropPacket \/ AcceptPacket
  <2>1. /\ reader \in {"wait_cmpr_pipe", "check_smpl_nr"}
        /\ reader' \in {"check_smpl_nr", "clr_fifo", "rd_pct"}
        /\ torn' = torn
    BY <1>5 DEF ReadHeader, DropPacket, AcceptPacket
  <2> QED BY <1>1, <1>2, <2>1 DEF HdrInv, AtHeader, OnPacket
<1>6. CASE EndDrop \/ NextBuffer
  <2>1. reader' = "idle" /\ torn' = FALSE /\ UNCHANGED fifo1
    BY <1>6 DEF EndDrop, NextBuffer
  <2> QED BY <1>1, <1>2, <2>1 DEF HdrInv, AtHeader, OnPacket
<1>7. CASE ReadWord
  <2>1. /\ reader = "rd_pct" /\ reader' \in {"rd_pct", "check_next_buf"}
        /\ torn' = torn
    BY <1>7 DEF ReadWord
  <2> QED BY <1>1, <1>2, <2>1 DEF HdrInv, AtHeader, OnPacket
<1> QED BY <1>3, <1>4, <1>5, <1>6, <1>7

-----------------------------------------------------------------------------
(* The theorems.                                                           *)

\* Before the first word of the first packet.
LEMMA TwoFifoInit ==
  ASSUME Init
  PROVE  IInv
<1>1. Fetched = 0 /\ Written = 0 /\ NextOut = <<1, 0>> /\ Packet = 1
  BY Sizes DEF Init, Asked, Fetched, Written, NextOut, Packet
<1>2. TypeOK
  <2>1. host_pos \in (1 .. MaxPkts + 1) \X (0 .. PctWords - 1)
    <3>1. 1 \in 1 .. MaxPkts + 1 /\ 0 \in 0 .. PctWords - 1
      BY Sizes
    <3> QED BY <3>1 DEF Init
  <2>2. \A S : <<>> \in Seq(S) /\ Len(<<>>) = 0
    OBVIOUS
  <2>3. /\ fifo0 \in Seq(Words) /\ Len(fifo0) <= Fifo0Depth /\ inst0_used \in 0 .. Len(fifo0)
        /\ fifo1 \in Seq(Words \cup {NoWord}) /\ Len(fifo1) <= PctWords
        /\ rd_seen \in 0 .. Len(fifo1)
    BY <2>2, Sizes DEF Init
  <2>4. trnsf_cnt \in 0 .. TrnsfN + 1 /\ rd_cnt \in 0 .. Chunk /\ reader_cnt \in 0 .. PctWords
    BY Sizes DEF Init
  <2> QED BY <2>1, <2>3, <2>4 DEF Init, TypeOK
<1>3. HostInv /\ FsmInv /\ EmptyInv
  BY <1>1, Sizes DEF Init, HostInv, FsmInv, EmptyInv
<1>4. WordInv /\ WaitInv /\ ReadInv
  BY <1>1, Sizes DEF Init, WordInv, WaitInv, ReadInv, NoWord
<1>5. HdrInv
  BY DEF Init, HdrInv, AtHeader, OnPacket
<1> QED BY <1>2, <1>3, <1>4, <1>5 DEF IInv, DataInv

\* Every step keeps the invariant.
LEMMA StepInductive == IInv /\ [Next]_vars => IInv'
<1> SUFFICES ASSUME IInv, [Next]_vars
             PROVE  DataInv' /\ HdrInv'
  BY DEF IInv
<1>1. HdrInv'
  BY HdrBusNext, HdrReadNext DEF Next
<1>2. ReadHeader => DataInv'
  BY OpenHeaderNext, ClosedHeaderNext
<1>3. DataInv'
  BY <1>2, HostWriteNext, CloseNext, QuietNext, SeeEmptiedNext, BusTickNext,
     DropPacketNext, DecideNext, ReadWordNext DEF Next
<1> QED BY <1>1, <1>3

\* The invariant holds: the words of one packet are where the counts of the
\* state machine say, and nothing of another packet is among them.
THEOREM TwoFifoInductive == Spec => []IInv
BY TwoFifoInit, StepInductive, PTL DEF Spec

\* The second FIFO, read by a machine that does not look at it again once it
\* has seen a packet's worth of words, never holds words of two packets and
\* holds its words in order, for every size of packet, chunk and first FIFO.
THEOREM SecondFifoIsOnePacket == Spec => []OnePacket
<1>1. IInv => OnePacket
  <2> SUFFICES ASSUME IInv, NEW i \in 1 .. Len(fifo1) - 1
               PROVE  fifo1[i + 1] = <<fifo1[i][1], fifo1[i][2] + 1>>
    BY DEF IInv, DataInv, OnePacket
  <2>1. TypeOK /\ HostInv /\ WaitInv /\ ReadInv
    BY DEF IInv, DataInv, DataInv
  <2>2. /\ Len(fifo1) \in Nat /\ i \in Nat /\ i \in 1 .. Len(fifo1) /\ i + 1 \in 1 .. Len(fifo1)
        /\ fifo1 # <<>>
    BY <2>1 DEF TypeOK
  <2>3. CASE reader \in Waiting
    <3>1. fifo1[i] = <<Packet, i - 1>> /\ fifo1[i + 1] = <<Packet, (i + 1) - 1>>
      BY <2>1, <2>2, <2>3 DEF WaitInv
    <3>2. (i + 1) - 1 = (i - 1) + 1
      BY <2>2
    <3> QED BY <3>1, <3>2
  <2>4. CASE reader \in {"check_smpl_nr", "rd_pct"}
    <3>1. stream_open /\ reader_cnt \in Nat
      BY <2>1, <2>2, <2>4, Sizes DEF HostInv, TypeOK
    <3>2. /\ fifo1[i] = <<got[1], reader_cnt + i - 1>>
          /\ fifo1[i + 1] = <<got[1], reader_cnt + (i + 1) - 1>>
      BY <2>1, <2>2, <2>4, <3>1 DEF ReadInv
    <3>3. reader_cnt + (i + 1) - 1 = (reader_cnt + i - 1) + 1
      BY <2>2, <3>1
    <3> QED BY <3>2, <3>3
  <2> QED BY <2>1, <2>3, <2>4 DEF TypeOK, Waiting
<1> QED BY <1>1, TwoFifoInductive, PTL

\* The reader gets a header when it expects one, of a later packet than the
\* last, and then the words of that packet one after the other, whatever was
\* dropped and however often the stream was closed before; a packet under which
\* the stream is closed, even between the sight of it and its header, is made of
\* the word read last.
THEOREM ReadsInOrder == Spec => InOrder
<1> DEFINE Step == /\ reader = "wait_cmpr_pipe" /\ reader' = "check_smpl_nr" =>
                        IF torn THEN got' = got
                                ELSE got'[2] = 0 /\ got'[1] > got[1]
                   /\ reader = "rd_pct" /\ reader_cnt' # reader_cnt =>
                        got' = IF torn THEN got ELSE <<got[1], got[2] + 1>>
<1>1. IInv /\ [Next]_vars => [Step]_vars
  <2> SUFFICES ASSUME IInv, Next
               PROVE  Step
    OBVIOUS
  <2>1. CASE ReadHeader
    <3>1. reader = "wait_cmpr_pipe" /\ (torn <=> ~stream_open)
      BY <2>1 DEF ReadHeader, IInv, HdrInv, OnPacket
    <3>2. stream_open => got'[2] = 0 /\ got'[1] > got[1]
      BY <2>1, OpenHeaderNext
    <3>3. ~stream_open => got' = got
      BY <2>1, ClosedHeaderNext
    <3> QED BY <3>1, <3>2, <3>3
  <2>2. CASE ReadWord
    BY <2>2, ReadWordNext DEF ReadWord
  <2>3. CASE HostWrite \/ SeeWritten \/ Open \/ Close \/ BusTick \/ BusTickReset
             \/ SeeFilled \/ SeeEmptied
    <3>1. reader' = reader /\ reader_cnt' = reader_cnt
      BY <2>3 DEF HostWrite, SeeWritten, Open, Close, BusTick, BusTickReset, SeeFilled,
                  SeeEmptied, readerVars
    <3> QED BY <3>1
  <2>4. CASE IdleEdge \/ RequestHeader \/ DropPacket \/ EndDrop \/ AcceptPacket \/ NextBuffer
    <3>1. reader \in {"idle", "rd_hdr", "check_smpl_nr", "clr_fifo", "check_next_buf"}
      BY <2>4 DEF IdleEdge, RequestHeader, DropPacket, EndDrop, AcceptPacket, NextBuffer
    <3> QED BY <3>1
  <2> QED BY <2>1, <2>2, <2>3, <2>4 DEF Next
<1> QED BY <1>1, TwoFifoInductive, PTL DEF Spec, InOrder
=============================================================================
