------------------------------- MODULE RxProofs -------------------------------
(***************************************************************************)
(* Proofs about the RX packet path, for every length of a packet at the    *)
(* three widths and every size of the FIFO to the host.                    *)
(*                                                                         *)
(* Bursts do not overlap, and what the registers hold in a burst is a      *)
(* function of the cycles since it began: the invariant is that schedule.  *)
(* It counts the words that the packer has put out (Words, Shifted), and   *)
(* everything behind the packer is a number of cycles late.                *)
(***************************************************************************)
EXTENDS RxPackets, Integers, SequenceTheorems, TLAPS

-----------------------------------------------------------------------------
(* The schedule of a burst.  Cycle 0 is the one in which the first sample  *)
(* is read.                                                                *)

T   == Takes[sample_width]
G   == Gives[sample_width]
Lat == Latency[sample_width]

\* Samples and words of a packet.
N == Groups[sample_width] * G

\* Sample s of the burst completes a word.
IsWord(s) == s \in 0 .. RdSize - 1 /\ (T = 1 \/ s % T # 0)

\* Words that the first s samples of the burst complete.
Words(s) == (s \div T) * G + (IF s % T = 0 THEN 0 ELSE (s % T) - 1)

\* The first cycle after the last word of the payload has left the packer, and
\* the last one before the next burst may begin.
End  == RdSize + Lat + 1
Last == End + 3

\* Samples whose words have left the packer before cycle u.
Through(u) == IF u <= Lat + 1 THEN 0 ELSE IF u >= End THEN RdSize ELSE u - Lat - 1

\* Shifts of the header registers before cycle u: one for each word of the
\* payload, and two more.
Shifted(u) ==
  Words(Through(u)) + (IF u <= End THEN 0 ELSE IF u = End + 1 THEN 1 ELSE 2)

\* Word k of the packet of the burst with first sample n and number x.
PacketWord(n, x, k) ==
  IF k = 1 THEN Hdr0 ELSE IF k = 2 THEN Hdr1(x) ELSE PayloadWord(n, k - 2)

-----------------------------------------------------------------------------
(* The registers in cycle u of a burst.                                    *)

Reader(u, n) ==
  /\ smpl_cnt = n + (IF u <= RdSize THEN u ELSE RdSize)
  /\ rd_state = IF u < RdSize THEN "rd_smpl_buff" ELSE "wait_data2packets_done"
  /\ smpl_rd_cnt = IF u <= RdSize THEN u ELSE 0
  /\ smpl_rd_done <=> u \in RdSize - 1 .. RdSize + 1
  /\ u >= RdSize => (d2p_done <=> u = Last)

\* There is a sample for every read of the burst, and after it the level is
\* that of the rest.
Level(u) ==
  /\ u < RdSize => smpl_used >= RdSize - u
  /\ u > RdSize => smpl_used_reg <= smpl_used
  /\ u > RdSize + 1 /\ smpl_buff_rdy => smpl_used > RdSize

\* The number of the first sample runs through the delay chain.
Numbers(u, n) ==
  \A i \in 1 .. 7 : /\ i >= u => nr_pipe[i] = n
                    /\ i <= u - RdSize => nr_pipe[i] = n + RdSize

Slot(n, s) == IF IsWord(s) THEN n + s ELSE NoWord

Packer(u, n) ==
  /\ data_in_valid <=> u \in 1 .. RdSize
  /\ pack_cnt = IF u \in 1 .. RdSize THEN (u - 1) % T ELSE 0
  /\ \A i \in 1 .. Lat : pack_pipe[i] = Slot(n, u - i - 1)

Framer(u) ==
  /\ pk_state = IF u >= End + 2 \/ Shifted(u) = 0 THEN "idle"
                ELSE IF u >= End THEN "s2"
                ELSE IF Shifted(u) = N - 1 THEN "s1" ELSE "s0"
  /\ u < End /\ Shifted(u) # N - 1 => pct_data_wr_cnt = Shifted(u)
  /\ u < End /\ Shifted(u) = N - 1 => pct_data_wr_cnt \in {0, N - 1}
  /\ u >= End => pct_data_wr_cnt = 0
  /\ u <= End /\ Shifted(u) # 0 => pct_end_cnt = 1
  /\ u = End + 1 => pct_end_cnt = 0

Registers(u, n, x) ==
  /\ pct_wrreq <=> Shifted(u) # Shifted(u - 1)
  /\ Shifted(u) >= 1 =>
       /\ reg_0 = PacketWord(n, x, Shifted(u))
       /\ Shifted(u) <= N + 1 => reg_1 = PacketWord(n, x, Shifted(u) + 1)
       /\ Shifted(u) <= N => reg_2 = PacketWord(n, x, Shifted(u) + 2)

\* What the host has of the packet, and the room there is for the rest.
Host(u, n, x) ==
  /\ wr_reg <=> pct_buff_wr /\ Shifted(u - 1) # Shifted(u - 2)
  /\ wr_reg => wrdata_reg = PacketWord(n, x, Shifted(u - 1))
  /\ pct_buff_wr => /\ Len(pct) = Shifted(u - 2)
                    /\ Len(pct) >= 2 => pct[2] = Hdr1(x)
                    /\ Len(pct) >= 3 => pct[3] = PayloadWord(n, 1)
                    /\ wrusedw + PctSize - Shifted(u - 2) < BuffWords
  /\ ~pct_buff_wr => pct = <<>>

Busy(u, n, x) ==
  /\ Reader(u, n) /\ Level(u) /\ Numbers(u, n) /\ Packer(u, n)
  /\ Framer(u) /\ Registers(u, n, x) /\ Host(u, n, x)
  /\ sample_width # 14 => x = n

\* Between two bursts nothing is under way.
Quiet ==
  /\ rd_state \in {"idle", "check_pct_buff"}
  /\ smpl_rd_cnt = 0 /\ ~smpl_rd_done /\ ~data_in_valid /\ pack_cnt = 0
  /\ \A i \in 1 .. Lat : pack_pipe[i] = NoWord
  /\ pk_state = "idle" /\ pct_data_wr_cnt = 0 /\ ~pct_wrreq /\ ~wr_reg /\ pct = <<>>
  /\ smpl_used_reg <= smpl_used /\ (smpl_buff_rdy => smpl_used > RdSize)
  /\ \A i \in 1 .. 6 : nr_pipe[i] = smpl_cnt
  /\ rd_state = "check_pct_buff" =>
       /\ smpl_used > RdSize /\ nr_pipe[7] = smpl_cnt
       /\ pct_buff_rdy => wrusedw + PctSize < BuffWords

IInv ==
  /\ TypeOK /\ Received <= MaxSmpls
  /\ Quiet \/ \E u \in 0 .. Last, n, x \in 0 .. MaxSmpls : Busy(u, n, x)

-----------------------------------------------------------------------------
(* The numbers of the schedule.                                            *)

\* The three packers.
LEMMA WidthCases ==
  ASSUME sample_width \in Widths
  PROVE  \E g \in Nat :
           /\ RdSize = g * T /\ N = g * G /\ PctSize = N + 2
           /\ RdSize > Lat + 2 /\ N >= 4 /\ BuffWords \in Nat /\ BuffWords >= N + 2
           /\ \/ sample_width = 12 /\ T = 4 /\ G = 3 /\ Lat = 4
              \/ sample_width = 14 /\ T = 8 /\ G = 7 /\ Lat = 6
              \/ sample_width = 16 /\ T = 1 /\ G = 1 /\ Lat = 1
<1>1. sample_width \in {12, 14, 16}
  BY WidthsAssumption
<1>2. \/ sample_width = 12 /\ T = 4 /\ G = 3 /\ Lat = 4
      \/ sample_width = 14 /\ T = 8 /\ G = 7 /\ Lat = 6
      \/ sample_width = 16 /\ T = 1 /\ G = 1 /\ Lat = 1
  BY <1>1 DEF T, G, Lat, Takes, Gives, Latency
<1>3. /\ Groups[sample_width] \in Nat
      /\ RdSize = Groups[sample_width] * T /\ N = Groups[sample_width] * G
      /\ PctSize = N + 2 /\ RdSize > Lat + 2 /\ N >= 4
      /\ BuffWords \in Nat /\ BuffWords >= N + 2
  BY GroupsAssumption, BuffWordsAssumption DEF RdSize, PctSize, N, T, G, Lat
<1> QED
  BY <1>2, <1>3

\* What the rest of the proof needs of the constants.
LEMMA Sizes ==
  ASSUME sample_width \in Widths
  PROVE  /\ RdSize \in Nat /\ N \in Nat /\ Lat \in 1 .. 6 /\ T \in {1, 4, 8}
         /\ RdSize > Lat + 2 /\ N >= 4 /\ PctSize = N + 2
         /\ BuffWords \in Nat /\ BuffWords >= N + 2
         /\ End = RdSize + Lat + 1 /\ Last = RdSize + Lat + 4
         /\ RdSize % T = 0
<1>1. PICK g \in Nat :
           /\ RdSize = g * T /\ N = g * G /\ PctSize = N + 2
           /\ RdSize > Lat + 2 /\ N >= 4 /\ BuffWords \in Nat /\ BuffWords >= N + 2
           /\ \/ sample_width = 12 /\ T = 4 /\ G = 3 /\ Lat = 4
              \/ sample_width = 14 /\ T = 8 /\ G = 7 /\ Lat = 6
              \/ sample_width = 16 /\ T = 1 /\ G = 1 /\ Lat = 1
  BY WidthCases
<1>2. RdSize % T = 0
  <2>1. CASE T = 4
    BY <1>1, <2>1
  <2>2. CASE T = 8
    BY <1>1, <2>2
  <2>3. CASE T = 1
    BY <1>1, <2>3
  <2> QED
    BY <1>1, <2>1, <2>2, <2>3
<1>3. /\ RdSize \in Nat /\ N \in Nat /\ Lat \in 1 .. 6 /\ T \in {1, 4, 8}
  <2>1. CASE T = 4
    BY <1>1, <2>1
  <2>2. CASE T = 8
    BY <1>1, <2>2
  <2>3. CASE T = 1
    BY <1>1, <2>3
  <2> QED
    BY <1>1, <2>1, <2>2, <2>3
<1> QED
  BY <1>1, <1>2, <1>3 DEF End, Last

\* How the words of a burst are counted, and which sample the next one ends
\* with.
LEMMA WordCount ==
  ASSUME sample_width \in Widths, NEW s \in 0 .. RdSize - 1
  PROVE  /\ Words(s) \in 0 .. N - 1
         /\ Words(s + 1) = IF IsWord(s) THEN Words(s) + 1 ELSE Words(s)
         /\ (s >= 2 \/ (T = 1 /\ s = 1)) => Words(s) >= 1
         /\ s = RdSize - 1 => IsWord(s)
         /\ \A n \in Int : IsWord(s) => PayloadWord(n, Words(s) + 1) = Data(n + s)
         /\ IsWord(s) /\ Words(s) = 0 => s = IF T = 1 THEN 0 ELSE 1
<1>1. PICK g \in Nat :
           /\ RdSize = g * T /\ N = g * G /\ PctSize = N + 2
           /\ RdSize > Lat + 2 /\ N >= 4 /\ BuffWords \in Nat /\ BuffWords >= N + 2
           /\ \/ sample_width = 12 /\ T = 4 /\ G = 3 /\ Lat = 4
              \/ sample_width = 14 /\ T = 8 /\ G = 7 /\ Lat = 6
              \/ sample_width = 16 /\ T = 1 /\ G = 1 /\ Lat = 1
  BY WidthCases
<1>2. CASE T = 4
  <2>1. G = 3 /\ RdSize = g * 4 /\ N = g * 3 /\ s \in 0 .. g * 4 - 1
    BY <1>1, <1>2
  <2> DEFINE q == s \div 4
             r == s % 4
  <2>2. q \in Nat /\ r \in 0 .. 3 /\ s = 4 * q + r /\ q < g
    BY <2>1
  <2>3. Words(s) = q * 3 + (IF r = 0 THEN 0 ELSE r - 1)
    BY <1>2, <2>1 DEF Words
  <2>4. Words(s + 1) = q * 3 + r
    <3>1. CASE r = 3
      <4>1. (s + 1) \div 4 = q + 1 /\ (s + 1) % 4 = 0
        BY <2>2, <3>1
      <4> HIDE DEF q, r
      <4> QED
        BY <1>2, <2>1, <2>2, <3>1, <4>1 DEF Words
    <3>2. CASE r < 3
      <4>1. (s + 1) \div 4 = q /\ (s + 1) % 4 = r + 1
        BY <2>2, <3>2
      <4> HIDE DEF q, r
      <4> QED
        BY <1>2, <2>1, <2>2, <3>2, <4>1 DEF Words
    <3> QED
      BY <2>2, <3>1, <3>2
  <2>5. IsWord(s) <=> r # 0
    BY <1>2, <2>1 DEF IsWord
  <2> HIDE DEF q, r
  <2>6. ASSUME r # 0, NEW n \in Int
        PROVE  PayloadWord(n, Words(s) + 1) = Data(n + s)
    <3> DEFINE j == q * 3 + (r - 1)
    <3>1. Words(s) + 1 - 1 = j /\ j \div 3 = q /\ j % 3 = r - 1
      BY <2>2, <2>3, <2>6
    <3> HIDE DEF j
    <3>2. n + q * 4 + (r - 1) + 1 = n + s
      BY <2>2
    <3>3. Takes[sample_width] = 4 /\ Gives[sample_width] = 3
      BY <1>2, <2>1 DEF T, G
    <3>4. Words(s) + 1 - 1 = j
      BY <3>1
    <3> DEFINE m == Words(s) + 1
    <3>5. m - 1 = j
      BY <2>2, <2>3, <2>6 DEF j, m
    <3> HIDE DEF m
    <3>6. 4 # 1
      OBVIOUS
    <3>7. PayloadWord(n, m) = Data(n + ((m - 1) \div 3) * 4 + ((m - 1) % 3) + 1)
      BY <3>3, <3>6, Zenon DEF PayloadWord
    <3>8. n + ((m - 1) \div 3) * 4 + ((m - 1) % 3) + 1 = n + s
      BY <3>1, <3>2, <3>5
    <3>9. PayloadWord(n, m) = Data(n + s)
      BY <3>7, <3>8, Zenon
    <3> QED
      BY <3>9 DEF m
  <2>7. Words(s) \in 0 .. N - 1 /\ (s >= 2 => Words(s) >= 1)
    BY <2>1, <2>2, <2>3
  <2>8. s = RdSize - 1 => r = 3
    BY <2>1, <2>2
  <2>9. r # 0 /\ Words(s) = 0 => s = 1
    BY <2>2, <2>3
  <2> QED
    BY <1>2, <2>2, <2>3, <2>4, <2>5, <2>6, <2>7, <2>8, <2>9
<1>3. CASE T = 8
  <2>1. G = 7 /\ RdSize = g * 8 /\ N = g * 7 /\ s \in 0 .. g * 8 - 1
    BY <1>1, <1>3
  <2> DEFINE q == s \div 8
             r == s % 8
  <2>2. q \in Nat /\ r \in 0 .. 7 /\ s = 8 * q + r /\ q < g
    BY <2>1
  <2>3. Words(s) = q * 7 + (IF r = 0 THEN 0 ELSE r - 1)
    BY <1>3, <2>1 DEF Words
  <2>4. Words(s + 1) = q * 7 + r
    <3>1. CASE r = 7
      <4>1. (s + 1) \div 8 = q + 1 /\ (s + 1) % 8 = 0
        BY <2>2, <3>1
      <4> HIDE DEF q, r
      <4> QED
        BY <1>3, <2>1, <2>2, <3>1, <4>1 DEF Words
    <3>2. CASE r < 7
      <4>1. (s + 1) \div 8 = q /\ (s + 1) % 8 = r + 1
        BY <2>2, <3>2
      <4> HIDE DEF q, r
      <4> QED
        BY <1>3, <2>1, <2>2, <3>2, <4>1 DEF Words
    <3> QED
      BY <2>2, <3>1, <3>2
  <2>5. IsWord(s) <=> r # 0
    BY <1>3, <2>1 DEF IsWord
  <2> HIDE DEF q, r
  <2>6. ASSUME r # 0, NEW n \in Int
        PROVE  PayloadWord(n, Words(s) + 1) = Data(n + s)
    <3> DEFINE j == q * 7 + (r - 1)
    <3>1. Words(s) + 1 - 1 = j /\ j \div 7 = q /\ j % 7 = r - 1
      BY <2>2, <2>3, <2>6
    <3> HIDE DEF j
    <3>2. n + q * 8 + (r - 1) + 1 = n + s
      BY <2>2
    <3>3. Takes[sample_width] = 8 /\ Gives[sample_width] = 7
      BY <1>3, <2>1 DEF T, G
    <3>4. Words(s) + 1 - 1 = j
      BY <3>1
    <3> DEFINE m == Words(s) + 1
    <3>5. m - 1 = j
      BY <2>2, <2>3, <2>6 DEF j, m
    <3> HIDE DEF m
    <3>6. 8 # 1
      OBVIOUS
    <3>7. PayloadWord(n, m) = Data(n + ((m - 1) \div 7) * 8 + ((m - 1) % 7) + 1)
      BY <3>3, <3>6, Zenon DEF PayloadWord
    <3>8. n + ((m - 1) \div 7) * 8 + ((m - 1) % 7) + 1 = n + s
      BY <3>1, <3>2, <3>5
    <3>9. PayloadWord(n, m) = Data(n + s)
      BY <3>7, <3>8, Zenon
    <3> QED
      BY <3>9 DEF m
  <2>7. Words(s) \in 0 .. N - 1 /\ (s >= 2 => Words(s) >= 1)
    BY <2>1, <2>2, <2>3
  <2>8. s = RdSize - 1 => r = 7
    BY <2>1, <2>2
  <2>9. r # 0 /\ Words(s) = 0 => s = 1
    BY <2>2, <2>3
  <2> QED
    BY <1>3, <2>2, <2>3, <2>4, <2>5, <2>6, <2>7, <2>8, <2>9
<1>4. CASE T = 1
  <2>1. G = 1 /\ RdSize = g /\ N = g /\ s \in 0 .. g - 1
    BY <1>1, <1>4
  <2>2. /\ s \div 1 = s /\ s % 1 = 0 /\ (s + 1) \div 1 = s + 1 /\ (s + 1) % 1 = 0
    BY <2>1
  <2>3. Words(s) = s /\ Words(s + 1) = s + 1
    BY <1>4, <2>1, <2>2 DEF Words
  <2>4. IsWord(s)
    BY <1>4, <2>1 DEF IsWord
  <2>5. ASSUME NEW n \in Int
        PROVE  PayloadWord(n, Words(s) + 1) = Data(n + s)
    <3>1. Words(s) + 1 - 1 = s /\ n + s * 1 + 0 + 0 = n + s
      BY <2>1, <2>3
    <3>2. Takes[sample_width] = 1 /\ Gives[sample_width] = 1
      BY <1>4, <2>1 DEF T, G
    <3>3. \A i : PayloadWord(n, i) = Data(n + ((i - 1) \div 1) * 1 + ((i - 1) % 1) + 0)
      BY <3>2, Zenon DEF PayloadWord
    <3> DEFINE m == Words(s) + 1
    <3>4. m - 1 = s
      BY <2>1, <2>3 DEF m
    <3> HIDE DEF m
    <3>5. n + ((m - 1) \div 1) * 1 + ((m - 1) % 1) + 0 = n + s
      BY <2>1, <2>2, <3>1, <3>4
    <3>6. PayloadWord(n, m) = Data(n + s)
      BY <3>3, <3>5, Zenon
    <3> QED
      BY <3>6 DEF m
  <2> QED
    BY <1>4, <2>1, <2>3, <2>4, <2>5
<1> QED
  BY <1>1, <1>2, <1>3, <1>4


\* The shifts of the header registers, cycle by cycle.
LEMMA Shifts ==
  ASSUME sample_width \in Widths, NEW u \in -2 .. Last
  PROVE  /\ Shifted(u) \in 0 .. N + 2
         /\ Shifted(u + 1) = IF IsWord(u - Lat - 1) \/ u \in {End, End + 1}
                             THEN Shifted(u) + 1 ELSE Shifted(u)
         /\ u <= Lat + 1 => Shifted(u) = 0
         /\ u < End => Shifted(u) <= N - 1
         /\ u = End => Shifted(u) = N
         /\ u = End + 1 => Shifted(u) = N + 1
         /\ u >= End + 2 => Shifted(u) = N + 2
         /\ u >= RdSize - 1 => Shifted(u) >= 1
         /\ IsWord(u - Lat - 1) => Shifted(u) = Words(u - Lat - 1)
<1> DEFINE s == u - Lat - 1
<1>1. /\ RdSize \in Nat /\ N \in Nat /\ Lat \in 1 .. 6 /\ T \in {1, 4, 8}
      /\ RdSize > Lat + 2 /\ N >= 4
      /\ End = RdSize + Lat + 1 /\ Last = RdSize + Lat + 4
      /\ RdSize % T = 0
  BY Sizes
<1>2. Words(0) = 0 /\ Words(RdSize) = N
  <2>1. 0 \in 0 .. RdSize - 1 /\ RdSize - 1 \in 0 .. RdSize - 1 /\ RdSize - 1 + 1 = RdSize
    BY <1>1
  <2>2. Words(0) = 0
    <3>1. 0 \div T = 0 /\ 0 % T = 0
      <4>1. CASE T = 1
        BY <4>1
      <4>2. CASE T = 4
        BY <4>2
      <4>3. CASE T = 8
        BY <4>3
      <4> QED
        BY <1>1, <4>1, <4>2, <4>3
    <3>2. G \in Int
      BY WidthCases
    <3> QED
      BY <3>1, <3>2 DEF Words
  <2>3. Words(RdSize) = N
    <3>1. PICK g \in Nat :
           /\ RdSize = g * T /\ N = g * G
           /\ \/ sample_width = 12 /\ T = 4 /\ G = 3 /\ Lat = 4
              \/ sample_width = 14 /\ T = 8 /\ G = 7 /\ Lat = 6
              \/ sample_width = 16 /\ T = 1 /\ G = 1 /\ Lat = 1
      BY WidthCases
    <3>2. RdSize \div T = g
      <4>1. CASE T = 1
        BY <3>1, <4>1
      <4>2. CASE T = 4
        BY <3>1, <4>2
      <4>3. CASE T = 8
        BY <3>1, <4>3
      <4> QED
        BY <1>1, <4>1, <4>2, <4>3
    <3>3. g * G + 0 = g * G
      BY <3>1
    <3> QED
      BY <1>1, <3>1, <3>2, <3>3 DEF Words
  <2> QED
    BY <2>2, <2>3
<1>3. ASSUME NEW v \in 0 .. RdSize - 1
      PROVE  /\ Words(v) \in 0 .. N - 1
             /\ Words(v + 1) = IF IsWord(v) THEN Words(v) + 1 ELSE Words(v)
             /\ (v >= 2 \/ (T = 1 /\ v = 1)) => Words(v) >= 1
             /\ v = RdSize - 1 => IsWord(v)
  BY WordCount
<1>4. IsWord(s) <=> IsWord(s) /\ s \in 0 .. RdSize - 1
  BY DEF IsWord
<1>5. CASE u <= Lat
  <2>1. Through(u) = 0 /\ Through(u + 1) = 0 /\ s < 0 /\ u < RdSize - 1
    BY <1>1, <1>5 DEF Through
  <2>2. ~IsWord(s)
    BY <1>1, <1>4, <2>1
  <2>3. Shifted(u) = 0 /\ Shifted(u + 1) = 0
    BY <1>1, <1>2, <1>5, <2>1 DEF Shifted
  <2> QED
    BY <1>1, <1>5, <2>1, <2>2, <2>3
<1>6. CASE u > Lat /\ u < End
  <2>1. s \in 0 .. RdSize - 1 /\ Through(u) = s /\ Through(u + 1) = s + 1
    BY <1>1, <1>6 DEF Through
  <2>2. Shifted(u) = Words(s) /\ Shifted(u + 1) = Words(s + 1)
    <3>1. Words(s) \in Int /\ Words(s + 1) \in Int
      BY <1>1, <1>2, <1>3, <2>1
    <3> QED
      BY <1>1, <1>6, <2>1, <3>1 DEF Shifted
  <2>3. u >= RdSize - 1 => s >= 2 \/ (T = 1 /\ s = 1)
    <3>1. T = 4 => RdSize >= Lat + 4
      BY WidthCases
    <3>2. T = 8 => RdSize >= Lat + 4
      BY WidthCases
    <3> QED
      BY <1>1, <1>6, <3>1, <3>2
  <2>4. u = Lat + 1 => Words(s) = 0
    BY <1>1, <1>2
  <2> HIDE DEF s
  <2>5. /\ Words(s) \in 0 .. N - 1
        /\ Words(s + 1) = IF IsWord(s) THEN Words(s) + 1 ELSE Words(s)
        /\ u >= RdSize - 1 => Words(s) >= 1
    BY <1>3, <2>1, <2>3
  <2>6. /\ Shifted(u) \in 0 .. N - 1
        /\ Shifted(u + 1) = IF IsWord(s) THEN Shifted(u) + 1 ELSE Shifted(u)
        /\ u <= Lat + 1 => Shifted(u) = 0
        /\ u >= RdSize - 1 => Shifted(u) >= 1
    BY <1>1, <1>6, <2>2, <2>4, <2>5
  <2>7. u # End /\ u # End + 1 /\ u < End + 2
    BY <1>1, <1>6
  <2> QED
    BY <1>1, <1>6, <2>2, <2>6, <2>7 DEF s
<1>7. CASE u >= End
  <2>1. Through(u) = RdSize /\ Through(u + 1) = RdSize /\ s >= RdSize
    BY <1>1, <1>7 DEF Through
  <2>2. ~IsWord(s)
    BY <1>1, <1>4, <2>1
  <2>3. /\ Shifted(u) = N + (IF u = End THEN 0 ELSE IF u = End + 1 THEN 1 ELSE 2)
        /\ Shifted(u + 1) = N + (IF u = End THEN 1 ELSE 2)
    BY <1>1, <1>2, <1>7, <2>1 DEF Shifted
  <2> QED
    BY <1>1, <1>7, <2>2, <2>3
<1> QED
  BY <1>1, <1>5, <1>6, <1>7

\* The width is configured once: the schedule stays the same.
LEMMA SameSchedule ==
  ASSUME sample_width' = sample_width
  PROVE  /\ RdSize' = RdSize /\ PctSize' = PctSize /\ T' = T /\ Lat' = Lat /\ N' = N
         /\ End' = End /\ Last' = Last
         /\ \A s : IsWord(s)' = IsWord(s)
         /\ \A u : Shifted(u)' = Shifted(u)
         /\ \A n, s : Slot(n, s)' = Slot(n, s)
         /\ \A n, j : PayloadWord(n, j)' = PayloadWord(n, j)
         /\ \A n, x, k : PacketWord(n, x, k)' = PacketWord(n, x, k)
<1>1. RdSize' = RdSize /\ PctSize' = PctSize /\ T' = T /\ G' = G /\ Lat' = Lat
  BY DEF RdSize, PctSize, T, G, Lat
<1>2. N' = N /\ End' = End /\ Last' = Last
  BY <1>1 DEF N, End, Last
<1>3. \A s : IsWord(s)' = IsWord(s)
  BY <1>1 DEF IsWord
<1>4. \A s : Words(s)' = Words(s)
  BY <1>1 DEF Words
<1>5. \A u : Shifted(u)' = Shifted(u)
  BY <1>1, <1>2, <1>4 DEF Shifted, Through
<1>6. \A n, s : Slot(n, s)' = Slot(n, s)
  BY <1>3 DEF Slot
<1>7. \A n, j : PayloadWord(n, j)' = PayloadWord(n, j)
  BY DEF PayloadWord
<1>8. \A n, x, k : PacketWord(n, x, k)' = PacketWord(n, x, k)
  BY <1>7 DEF PacketWord
<1> QED
  BY <1>1, <1>2, <1>3, <1>5, <1>6, <1>7, <1>8

-----------------------------------------------------------------------------
(* A clock edge in a burst.                                                *)

\* The word that leaves the packer.
LEMMA PackedWord ==
  ASSUME TypeOK, NEW u \in 0 .. Last, NEW n \in 0 .. MaxSmpls, Reader(u, n), Packer(u, n)
  PROVE  /\ PctDataWrReq <=> IsWord(u - Lat - 1)
         /\ PctDataWrReq => PackOut = n + (u - Lat - 1) /\ PackOut \in 0 .. MaxSmpls
<1> DEFINE s == u - Lat - 1
<1>1. /\ RdSize \in Nat /\ Lat \in 1 .. 6 /\ Last = RdSize + Lat + 4 /\ sample_width \in Widths
      /\ MaxSmpls \in Nat
  BY Sizes, MaxSmplsAssumption DEF TypeOK
<1>2. pack_pipe[Lat] = Slot(n, u - Lat - 1) /\ PackOut = pack_pipe[Lat]
  BY <1>1 DEF Packer, PackOut, Lat
<1>3. IsWord(s) => n + s \in 0 .. MaxSmpls
  <2>1. IsWord(s) => s \in 0 .. RdSize - 1
    BY DEF IsWord
  <2>2. smpl_cnt \in 0 .. MaxSmpls /\ smpl_cnt = n + (IF u <= RdSize THEN u ELSE RdSize)
    BY DEF TypeOK, Reader
  <2> QED
    BY <1>1, <2>1, <2>2
<1> HIDE DEF s
<1>4. PackOut = IF IsWord(s) THEN n + s ELSE MaxSmpls + 1
  BY <1>2 DEF Slot, NoWord, s
<1>5. PctDataWrReq <=> IsWord(s)
  BY <1>1, <1>3, <1>4 DEF PctDataWrReq, NoWord
<1> QED
  BY <1>3, <1>4, <1>5 DEF s

\* data2packets_fsm and the sample FIFO.
LEMMA ReaderStep ==
  ASSUME TypeOK, NEW u \in 0 .. Last - 1, NEW n \in 0 .. MaxSmpls,
         Reader(u, n), Level(u), Framer(u), Tick
  PROVE  Reader(u + 1, n)' /\ Level(u + 1)' /\ pct_buff_wr' = pct_buff_wr
<1>1. /\ RdSize \in Nat /\ Lat \in 1 .. 6 /\ RdSize > Lat + 2
      /\ End = RdSize + Lat + 1 /\ Last = RdSize + Lat + 4
      /\ u >= RdSize - 1 => Shifted(u) >= 1
  <2>1. sample_width \in Widths
    BY DEF TypeOK
  <2>2. /\ RdSize \in Nat /\ Lat \in 1 .. 6 /\ RdSize > Lat + 2
        /\ End = RdSize + Lat + 1 /\ Last = RdSize + Lat + 4
    BY <2>1, Sizes
  <2>3. u \in -2 .. Last
    BY <2>2
  <2> QED
    BY <2>1, <2>2, <2>3, Shifts
<1>2. /\ smpl_used \in Nat /\ smpl_cnt \in Nat /\ smpl_used_reg \in Nat /\ smpl_rd_cnt \in Nat
      /\ smpl_rd_done \in BOOLEAN /\ smpl_buff_rdy \in BOOLEAN /\ d2p_done \in BOOLEAN
  BY <1>1, MaxSmplsAssumption DEF TypeOK
<1>3. sample_width' = sample_width /\ RdSize' = RdSize /\ Last' = Last
  BY SameSchedule DEF Tick
<1>4. rd_state' = IF u + 1 < RdSize THEN "rd_smpl_buff" ELSE "wait_data2packets_done"
  <2>1. CASE u < RdSize
    <3>1. rd_state = "rd_smpl_buff" /\ (smpl_rd_done <=> u = RdSize - 1)
      BY <1>1, <2>1 DEF Reader
    <3> QED
      BY <1>1, <2>1, <3>1 DEF Tick, RdFsm, RdIdle, RdCheckPctBuff, RdSmplBuff, RdWaitDone
  <2>2. CASE u >= RdSize
    <3>1. rd_state = "wait_data2packets_done" /\ ~d2p_done
      BY <1>1, <2>2 DEF Reader
    <3> QED
      BY <1>1, <2>2, <3>1 DEF Tick, RdFsm, RdIdle, RdCheckPctBuff, RdSmplBuff, RdWaitDone
  <2> QED
    BY <1>1, <2>1, <2>2
<1>5. RdReq <=> u < RdSize
  BY <1>1 DEF RdReq, Reader
<1>6. /\ smpl_rd_cnt' = (IF u + 1 <= RdSize THEN u + 1 ELSE 0)
      /\ smpl_rd_done' <=> u + 1 \in RdSize - 1 .. RdSize + 1
      /\ pct_buff_wr' = pct_buff_wr
  <2>1. smpl_rd_cnt = IF u <= RdSize THEN u ELSE 0
    BY DEF Reader
  <2>2. rd_state # "check_pct_buff"
    BY DEF Reader
  <2>3. smpl_rd_cnt' = (IF u + 1 <= RdSize THEN u + 1 ELSE 0)
    <3>1. smpl_rd_cnt' = IF RdReq THEN smpl_rd_cnt + 1 ELSE 0
      BY DEF Tick, RdCounters
    <3> QED
      BY <1>1, <1>5, <2>1, <3>1
  <2>4. smpl_rd_done' <=> u + 1 \in RdSize - 1 .. RdSize + 1
    <3>1. smpl_rd_done' = (smpl_rd_cnt >= RdSize - 2)
      BY DEF Tick, RdCounters
    <3>2. smpl_rd_cnt >= RdSize - 2 <=> u + 1 \in RdSize - 1 .. RdSize + 1
      BY <1>1, <2>1
    <3> QED
      BY <3>1, <3>2
  <2>5. pct_buff_wr' = pct_buff_wr
    BY <2>2 DEF Tick, RdCounters
  <2> QED
    BY <2>3, <2>4, <2>5
<1>7. u + 1 >= RdSize => (d2p_done' <=> u + 1 = Last)
  <2>1. d2p_done' <=> pk_state = "idle"
    BY DEF Tick, Levels
  <2>2. u + 1 >= RdSize => (pk_state = "idle" <=> u >= End + 2)
    BY <1>1 DEF Framer
  <2> QED
    BY <1>1, <2>1, <2>2
<1>8. PICK new \in {0, 1} :
        /\ smpl_used' = smpl_used + new - (IF RdReq /\ smpl_used > 0 THEN 1 ELSE 0)
        /\ smpl_cnt' = IF RdReq /\ smpl_used > 0 THEN smpl_cnt + 1 ELSE smpl_cnt
  BY DEF Tick, SmplFifo
<1>9. u < RdSize => smpl_used >= RdSize - u /\ smpl_used > 0
  BY <1>1, <1>2 DEF Level
<1>10. smpl_cnt' = n + (IF u + 1 <= RdSize THEN u + 1 ELSE RdSize)
  <2>1. smpl_cnt = n + (IF u <= RdSize THEN u ELSE RdSize)
    BY DEF Reader
  <2> QED
    BY <1>1, <1>2, <1>5, <1>8, <1>9, <2>1
<1>11. Level(u + 1)'
  <2>1. u + 1 < RdSize => smpl_used' >= RdSize - (u + 1)
    BY <1>1, <1>2, <1>5, <1>8, <1>9
  <2>2. smpl_used_reg' = smpl_used /\ (smpl_buff_rdy' <=> smpl_used_reg > RdSize)
    BY DEF Tick, Levels
  <2>3. u >= RdSize => smpl_used' >= smpl_used
    BY <1>1, <1>2, <1>5, <1>8
  <2>4. u > RdSize => smpl_used_reg <= smpl_used
    BY DEF Level
  <2>5. u + 1 > RdSize + 1 /\ smpl_buff_rdy' => smpl_used' > RdSize
    BY <1>1, <1>2, <1>8, <2>2, <2>3, <2>4
  <2> QED
    BY <1>1, <1>2, <1>3, <1>8, <2>1, <2>2, <2>3, <2>5 DEF Level
<1> QED
  BY <1>3, <1>4, <1>6, <1>7, <1>10, <1>11 DEF Reader

\* The delay chain.
LEMMA NumbersStep ==
  ASSUME TypeOK, NEW u \in 0 .. Last, NEW n \in 0 .. MaxSmpls, Reader(u, n), Numbers(u, n), Tick
  PROVE  Numbers(u + 1, n)'
<1>1. RdSize \in Nat /\ Last \in Nat
  <2>1. sample_width \in Widths
    BY DEF TypeOK
  <2> QED
    BY <2>1, Sizes
<1>2. RdSize' = RdSize
  BY SameSchedule DEF Tick
<1>3. ASSUME NEW i \in 1 .. 7
      PROVE  /\ i >= u + 1 => nr_pipe'[i] = n
             /\ i <= u + 1 - RdSize => nr_pipe'[i] = n + RdSize
  <2>1. nr_pipe'[i] = IF i = 1 THEN smpl_cnt ELSE nr_pipe[i - 1]
    BY DEF Tick, SampleNr
  <2>2. CASE i = 1
    BY <1>1, <2>1, <2>2 DEF Reader
  <2>3. CASE i # 1
    <3>1. /\ i - 1 \in 1 .. 7
          /\ i - 1 >= u => nr_pipe[i - 1] = n
          /\ i - 1 <= u - RdSize => nr_pipe[i - 1] = n + RdSize
      BY <2>3 DEF Numbers
    <3> QED
      BY <1>1, <2>1, <2>3, <3>1
  <2> QED
    BY <2>2, <2>3
<1> QED
  <2> SUFFICES ASSUME NEW i \in 1 .. 7
               PROVE  (/\ i >= u + 1 => nr_pipe[i] = n
                       /\ i <= u + 1 - RdSize => nr_pipe[i] = n + RdSize)'
    BY <1>1, <1>2 DEF Numbers
  <2> QED
    BY <1>2, <1>3

\* The packer.
LEMMA PackerStep ==
  ASSUME TypeOK, NEW u \in 0 .. Last, NEW n \in 0 .. MaxSmpls, Reader(u, n), Packer(u, n), Tick
  PROVE  Packer(u + 1, n)'
<1>1. /\ RdSize \in Nat /\ Lat \in 1 .. 6 /\ T \in {1, 4, 8} /\ RdSize > Lat + 2
      /\ Last = RdSize + Lat + 4 /\ RdSize % T = 0
  <2>1. sample_width \in Widths
    BY DEF TypeOK
  <2> QED
    BY <2>1, Sizes
<1>2. /\ RdSize' = RdSize /\ T' = T /\ Lat' = Lat
      /\ \A m, s : Slot(m, s)' = Slot(m, s)
  BY SameSchedule DEF Tick
<1>3. data_in_valid' <=> u + 1 \in 1 .. RdSize
  <2>1. data_in_valid' <=> rd_state = "rd_smpl_buff"
    BY DEF Tick, BitPack, RdReq
  <2>2. rd_state = "rd_smpl_buff" <=> u < RdSize
    BY DEF Reader
  <2>3. u < RdSize <=> u + 1 \in 1 .. RdSize
    BY <1>1
  <2> QED
    BY <2>1, <2>2, <2>3
<1>4. pack_cnt' = IF u + 1 \in 1 .. RdSize THEN u % T ELSE 0
  <2>1. pack_cnt' = IF data_in_valid THEN (pack_cnt + 1) % T ELSE pack_cnt
    BY DEF Tick, BitPack, T
  <2>2. CASE u = 0
    <3>1. 0 % T = 0
      <4>1. CASE T = 1
        BY <4>1
      <4>2. CASE T = 4
        BY <4>2
      <4>3. CASE T = 8
        BY <4>3
      <4> QED
        BY <1>1, <4>1, <4>2, <4>3
    <3> QED
      BY <1>1, <2>1, <2>2, <3>1 DEF Packer
  <2>3. CASE u \in 1 .. RdSize
    <3>1. (((u - 1) % T) + 1) % T = u % T
      <4>1. CASE T = 1
        BY <2>3, <4>1
      <4>2. CASE T = 4
        BY <2>3, <4>2
      <4>3. CASE T = 8
        BY <2>3, <4>3
      <4> QED
        BY <1>1, <4>1, <4>2, <4>3
    <3>2. data_in_valid /\ pack_cnt = (u - 1) % T
      BY <2>3 DEF Packer
    <3>3. pack_cnt' = u % T
      BY <2>1, <3>1, <3>2
    <3>4. u = RdSize => u % T = 0
      BY <1>1
    <3> QED
      BY <1>1, <2>3, <3>3, <3>4
  <2>4. CASE u > RdSize
    BY <1>1, <2>1, <2>4 DEF Packer
  <2> QED
    BY <1>1, <2>2, <2>3, <2>4
<1>5. NewWord = Slot(n, u - 1)
  <2>1. CASE u \in 1 .. RdSize
    <3>1. data_in_valid /\ pack_cnt = (u - 1) % T /\ u - 1 \in 0 .. RdSize - 1
      BY <1>1, <2>1 DEF Packer
    <3>2. smpl_cnt - 1 = n + (u - 1)
      BY <1>1, <2>1 DEF Reader
    <3>3. (u - 1) % T > 0 <=> (u - 1) % T # 0
      <4>1. (u - 1) % T \in Nat
        BY <1>1, <2>1
      <4> QED
        BY <4>1
    <3>4. IsWord(u - 1) <=> T = 1 \/ pack_cnt > 0
      BY <3>1, <3>3 DEF IsWord
    <3>5. NewWord = IF T = 1 \/ pack_cnt > 0 THEN smpl_cnt - 1 ELSE NoWord
      BY <3>1 DEF NewWord, T
    <3> QED
      BY <3>2, <3>4, <3>5 DEF Slot
  <2>2. CASE u \notin 1 .. RdSize
    <3>1. ~data_in_valid /\ ~IsWord(u - 1)
      BY <1>1, <2>2 DEF Packer, IsWord
    <3> QED
      BY <3>1 DEF NewWord, Slot
  <2> QED
    BY <2>1, <2>2
<1>6. ASSUME NEW i \in 1 .. Lat
      PROVE  pack_pipe'[i] = Slot(n, u + 1 - i - 1)
  <2>1. pack_pipe'[i] = IF i = 1 THEN NewWord ELSE pack_pipe[i - 1]
    BY DEF Tick, BitPack, Lat
  <2>2. i # 1 => i - 1 \in 1 .. Lat /\ u - (i - 1) - 1 = u + 1 - i - 1
    BY <1>1
  <2>3. i = 1 => u - 1 = u + 1 - i - 1
    OBVIOUS
  <2> QED
    BY <1>5, <2>1, <2>2, <2>3 DEF Packer
<1>7. u + 1 - 1 = u
  OBVIOUS
<1> QED
  BY <1>2, <1>3, <1>4, <1>6, <1>7 DEF Packer

\* A cycle of a burst and the next one: when the header registers shift.
LEMMA NextShift ==
  ASSUME TypeOK, NEW u \in 0 .. Last, NEW n \in 0 .. MaxSmpls, Reader(u, n), Packer(u, n)
  PROVE  /\ N \in Nat /\ N >= 4 /\ PctSize = N + 2 /\ End \in Nat /\ Last = End + 3
         /\ Shifted(u) \in 0 .. N + 2
         /\ u < End => /\ Shifted(u) <= N - 1
                       /\ Shifted(u + 1) = IF PctDataWrReq THEN Shifted(u) + 1 ELSE Shifted(u)
                       /\ u + 1 < End => Shifted(u + 1) <= N - 1
                       /\ u + 1 = End => Shifted(u + 1) = N
         /\ u = End => Shifted(u) = N /\ Shifted(u + 1) = N + 1 /\ ~PctDataWrReq
         /\ u = End + 1 => Shifted(u) = N + 1 /\ Shifted(u + 1) = N + 2 /\ ~PctDataWrReq
         /\ u >= End + 2 => Shifted(u) = N + 2 /\ Shifted(u + 1) = N + 2 /\ ~PctDataWrReq
<1>1. sample_width \in Widths
  BY DEF TypeOK
<1>2. /\ RdSize \in Nat /\ N \in Nat /\ Lat \in 1 .. 6 /\ N >= 4 /\ PctSize = N + 2
      /\ End = RdSize + Lat + 1 /\ Last = RdSize + Lat + 4
  BY <1>1, Sizes
<1>3. u \in -2 .. Last
  BY <1>2
<1>4. /\ Shifted(u) \in 0 .. N + 2
      /\ Shifted(u + 1) = IF IsWord(u - Lat - 1) \/ u \in {End, End + 1}
                          THEN Shifted(u) + 1 ELSE Shifted(u)
      /\ u < End => Shifted(u) <= N - 1
      /\ u = End => Shifted(u) = N
      /\ u = End + 1 => Shifted(u) = N + 1
      /\ u >= End + 2 => Shifted(u) = N + 2
  BY <1>1, <1>3, Shifts
<1>5. u < End => /\ u + 1 < End => Shifted(u + 1) <= N - 1
                 /\ u + 1 = End => Shifted(u + 1) = N
  <2>1. u < End => u + 1 \in -2 .. Last
    BY <1>2
  <2> QED
    BY <1>1, <2>1, Shifts
<1>6. PctDataWrReq <=> IsWord(u - Lat - 1)
  BY PackedWord
<1>7. u >= End => ~PctDataWrReq
  BY <1>2, <1>6 DEF IsWord
<1> HIDE DEF PctDataWrReq
<1>8. CASE u < End
  BY <1>2, <1>4, <1>5, <1>6, <1>8
<1>9. CASE u >= End
  BY <1>2, <1>4, <1>6, <1>7, <1>9
<1> QED
  BY <1>2, <1>8, <1>9

\* data2packets: its states and counters.
LEMMA FramerStep ==
  ASSUME TypeOK, NEW u \in 0 .. Last, NEW n \in 0 .. MaxSmpls, Reader(u, n), Packer(u, n),
         Framer(u), Tick
  PROVE  Framer(u + 1)'
<1> DEFINE S == Shifted(u)
           X == Shifted(u + 1)
<1>1. /\ N \in Nat /\ N >= 4 /\ PctSize = N + 2 /\ End \in Nat /\ Last = End + 3
      /\ S \in 0 .. N + 2
      /\ u < End => /\ S <= N - 1
                    /\ X = IF PctDataWrReq THEN S + 1 ELSE S
                    /\ u + 1 < End => X <= N - 1
                    /\ u + 1 = End => X = N
      /\ u = End => S = N /\ X = N + 1 /\ ~PctDataWrReq
      /\ u = End + 1 => S = N + 1 /\ X = N + 2 /\ ~PctDataWrReq
      /\ u >= End + 2 => S = N + 2 /\ X = N + 2 /\ ~PctDataWrReq
  BY NextShift
<1>2. N' = N /\ End' = End /\ Shifted(u + 1)' = X
  BY SameSchedule DEF Tick
<1>3. /\ pk_state = IF u >= End + 2 \/ S = 0 THEN "idle"
                    ELSE IF u >= End THEN "s2" ELSE IF S = N - 1 THEN "s1" ELSE "s0"
      /\ u < End /\ S # N - 1 => pct_data_wr_cnt = S
      /\ u < End /\ S = N - 1 => pct_data_wr_cnt \in {0, N - 1}
      /\ u >= End => pct_data_wr_cnt = 0
      /\ u <= End /\ S # 0 => pct_end_cnt = 1
      /\ u = End + 1 => pct_end_cnt = 0
  BY DEF Framer
<1>4. /\ pk_state = "idle" => pk_state' = IF PctDataWrReq THEN "s0" ELSE "idle"
      /\ pk_state = "s0" => pk_state' = IF pct_data_wr_cnt = PctSize - 4 /\ PctDataWrReq
                                        THEN "s1" ELSE "s0"
      /\ pk_state = "s1" => pk_state' = IF PctDataWrReq THEN "s2" ELSE "s1"
      /\ pk_state = "s2" => pk_state' = IF pct_end_cnt = 0 THEN "idle" ELSE "s2"
  BY DEF Tick, PkFsm, PkIdle, PkS0, PkS1, PkS2
<1>5. /\ pk_state = "s1" => pct_data_wr_cnt' = 0
      /\ pk_state # "s1" /\ PctDataWrReq => pct_data_wr_cnt' = pct_data_wr_cnt + 1
      /\ pk_state # "s1" /\ ~PctDataWrReq => pct_data_wr_cnt' = pct_data_wr_cnt
      /\ pct_end_cnt' = IF pk_state = "s2" THEN (pct_end_cnt + 255) % 256 ELSE 1
  BY DEF Tick, PkCounters
<1> HIDE DEF PctDataWrReq, S, X
<1>6. /\ pk_state' = IF u + 1 >= End + 2 \/ X = 0 THEN "idle"
                     ELSE IF u + 1 >= End THEN "s2" ELSE IF X = N - 1 THEN "s1" ELSE "s0"
      /\ u + 1 < End /\ X # N - 1 => pct_data_wr_cnt' = X
      /\ u + 1 < End /\ X = N - 1 => pct_data_wr_cnt' \in {0, N - 1}
      /\ u + 1 >= End => pct_data_wr_cnt' = 0
      /\ u + 1 <= End /\ X # 0 => pct_end_cnt' = 1
      /\ u + 1 = End + 1 => pct_end_cnt' = 0
  <2>1. CASE u < End /\ S = 0
    <3>1. pk_state = "idle" /\ pct_data_wr_cnt = 0 /\ u + 1 < End
      BY <1>1, <1>3, <2>1
    <3> QED
      BY <1>1, <1>4, <1>5, <2>1, <3>1
  <2>2. CASE u < End /\ S # 0 /\ S # N - 1
    <3>1. pk_state = "s0" /\ pct_data_wr_cnt = S /\ u + 1 < End
      BY <1>1, <1>3, <2>2
    <3> QED
      BY <1>1, <1>4, <1>5, <2>2, <3>1
  <2>3. CASE u < End /\ S = N - 1
    <3>1. pk_state = "s1" /\ pct_data_wr_cnt' = 0 /\ pct_end_cnt' = 1
      BY <1>1, <1>3, <1>5, <2>3
    <3> QED
      BY <1>1, <1>4, <2>3, <3>1
  <2>4. CASE u = End
    <3>1. pk_state = "s2" /\ pct_data_wr_cnt = 0 /\ pct_end_cnt = 1
      BY <1>1, <1>3, <2>4
    <3>2. (1 + 255) % 256 = 0
      OBVIOUS
    <3>3. pk_state' = "s2" /\ pct_data_wr_cnt' = 0 /\ pct_end_cnt' = 0
      BY <1>1, <1>4, <1>5, <2>4, <3>1, <3>2
    <3> QED
      BY <1>1, <2>4, <3>3
  <2>5. CASE u = End + 1
    <3>1. pk_state = "s2" /\ pct_data_wr_cnt = 0 /\ pct_end_cnt = 0
      BY <1>1, <1>3, <2>5
    <3>2. pk_state' = "idle" /\ pct_data_wr_cnt' = 0
      BY <1>1, <1>4, <1>5, <2>5, <3>1
    <3> QED
      BY <1>1, <2>5, <3>2
  <2>6. CASE u >= End + 2
    <3>1. pk_state = "idle" /\ pct_data_wr_cnt = 0
      BY <1>1, <1>3, <2>6
    <3>2. pk_state' = "idle" /\ pct_data_wr_cnt' = 0
      BY <1>1, <1>4, <1>5, <2>6, <3>1
    <3> QED
      BY <1>1, <2>6, <3>2
  <2> QED
    BY <1>1, <2>1, <2>2, <2>3, <2>4, <2>5, <2>6
<1> QED
  BY <1>1, <1>2, <1>6 DEF Framer, X

\* The word that leaves the packer is the next one of the payload, and with 12
\* or 16 bits the first one leaves it in time for the number of its sample.
LEMMA PayloadOut ==
  ASSUME TypeOK, NEW u \in 0 .. Last, NEW n \in 0 .. MaxSmpls, Reader(u, n), Packer(u, n),
         PctDataWrReq
  PROVE  /\ Data(PackOut) = PayloadWord(n, Shifted(u) + 1)
         /\ Shifted(u) = 0 /\ sample_width # 14 => u <= 6
<1> DEFINE s == u - Lat - 1
<1>1. sample_width \in Widths
  BY DEF TypeOK
<1>2. RdSize \in Nat /\ N \in Nat /\ Lat \in 1 .. 6 /\ Last = RdSize + Lat + 4
  BY <1>1, Sizes
<1>3. IsWord(s) /\ PackOut = n + s
  BY PackedWord
<1>4. s \in 0 .. RdSize - 1
  BY <1>3 DEF IsWord
<1>5. u \in -2 .. Last /\ n \in Int
  BY <1>2, MaxSmplsAssumption
<1>6. Shifted(u) = Words(s)
  BY <1>1, <1>3, <1>5, Shifts
<1> HIDE DEF s
<1>7. /\ PayloadWord(n, Words(s) + 1) = Data(n + s)
      /\ Words(s) = 0 => s = IF T = 1 THEN 0 ELSE 1
  BY <1>1, <1>3, <1>4, <1>5, WordCount
<1>8. sample_width # 14 => \/ T = 4 /\ Lat = 4
                           \/ T = 1 /\ Lat = 1
  BY <1>1, WidthCases
<1>9. Words(s) = 0 /\ sample_width # 14 => u <= 6
  <2>1. u = s + Lat + 1
    BY <1>2 DEF s
  <2> QED
    BY <1>2, <1>7, <1>8, <2>1
<1> QED
  BY <1>3, <1>6, <1>7, <1>9

\* The header and data registers: y is the number the header was given.
LEMMA RegistersStep ==
  ASSUME TypeOK, NEW u \in 0 .. Last, NEW n \in 0 .. MaxSmpls, NEW x \in 0 .. MaxSmpls,
         Reader(u, n), Numbers(u, n), Packer(u, n), Framer(u), Registers(u, n, x), Tick,
         sample_width # 14 => x = n,
         NEW y, y = IF HeaderLoad THEN nr_pipe[7] ELSE x
  PROVE  /\ Registers(u + 1, n, y)'
         /\ y \in 0 .. MaxSmpls
         /\ sample_width # 14 => y = n
         /\ Shifted(u) # 0 => y = x
<1> DEFINE S == Shifted(u)
           X == Shifted(u + 1)
<1>1. /\ N \in Nat /\ N >= 4 /\ PctSize = N + 2 /\ End \in Nat /\ Last = End + 3
      /\ S \in 0 .. N + 2
      /\ u < End => /\ S <= N - 1
                    /\ X = IF PctDataWrReq THEN S + 1 ELSE S
                    /\ u + 1 < End => X <= N - 1
                    /\ u + 1 = End => X = N
      /\ u = End => S = N /\ X = N + 1 /\ ~PctDataWrReq
      /\ u = End + 1 => S = N + 1 /\ X = N + 2 /\ ~PctDataWrReq
      /\ u >= End + 2 => S = N + 2 /\ X = N + 2 /\ ~PctDataWrReq
  BY NextShift
<1>2. /\ pk_state = "idle" <=> u >= End + 2 \/ S = 0
      /\ pk_state = "s2" <=> u \in {End, End + 1}
  BY <1>1 DEF Framer
<1>3. /\ S >= 1 => /\ reg_0 = PacketWord(n, x, S)
                   /\ S <= N + 1 => reg_1 = PacketWord(n, x, S + 1)
                   /\ S <= N => reg_2 = PacketWord(n, x, S + 2)
  BY DEF Registers
<1>4. PctDataWrReq => /\ Data(PackOut) = PayloadWord(n, S + 1)
                      /\ S = 0 /\ sample_width # 14 => u <= 6
  BY PayloadOut
<1>5. /\ reg_0' = IF HeaderLoad THEN Hdr0 ELSE IF Shift THEN reg_1 ELSE reg_0
      /\ reg_1' = IF HeaderLoad THEN Hdr1(nr_pipe[7]) ELSE IF Shift THEN reg_2 ELSE reg_1
      /\ reg_2' = IF PctDataWrReq THEN Data(PackOut) ELSE reg_2
      /\ pct_wrreq' <=> Shift
  BY DEF Tick, PkRegs
<1>6. nr_pipe[7] \in 0 .. MaxSmpls /\ (u <= 6 => nr_pipe[7] = n)
  BY DEF TypeOK, Numbers
<1> HIDE DEF PctDataWrReq, S, X
<1>7. /\ HeaderLoad <=> S = 0 /\ PctDataWrReq
      /\ Shift <=> X # S
      /\ X # S => X = S + 1
      /\ PctDataWrReq => u < End /\ X = S + 1
  BY <1>1, <1>2 DEF HeaderLoad, Shift
<1>8. \A z, k : /\ PacketWord(n, z, 1) = Hdr0 /\ PacketWord(n, z, 2) = Hdr1(z)
                /\ k \in Nat /\ k >= 3 => PacketWord(n, z, k) = PayloadWord(n, k - 2)
  BY DEF PacketWord
<1>9. X >= 1 => /\ reg_0' = PacketWord(n, y, X)
                /\ X <= N + 1 => reg_1' = PacketWord(n, y, X + 1)
                /\ X <= N => reg_2' = PacketWord(n, y, X + 2)
  <2>1. CASE X = S
    BY <1>1, <1>3, <1>5, <1>7, <2>1
  <2>2. CASE X = S + 1 /\ S = 0
    <3>1. u < End /\ PctDataWrReq /\ HeaderLoad
      BY <1>1, <1>7, <2>2
    <3>2. y = nr_pipe[7] /\ reg_0' = Hdr0 /\ reg_1' = Hdr1(y) /\ reg_2' = PayloadWord(n, 1)
      BY <1>4, <1>5, <2>2, <3>1
    <3>3. PacketWord(n, y, 3) = PayloadWord(n, 1)
      BY <1>8
    <3> QED
      BY <1>8, <2>2, <3>2, <3>3
  <2>3. CASE X = S + 1 /\ S # 0
    <3>1. ~HeaderLoad /\ Shift /\ y = x
      BY <1>1, <1>7, <2>3
    <3>2. reg_0' = reg_1 /\ reg_1' = reg_2
      BY <1>5, <3>1
    <3>3. X <= N => PctDataWrReq
      BY <1>1, <2>3
    <3>4. PacketWord(n, x, S + 3) = PayloadWord(n, S + 1)
      <4> DEFINE k == S + 3
      <4>1. k \in Nat /\ k >= 3 /\ k - 2 = S + 1
        BY <1>1
      <4> HIDE DEF k
      <4>2. PacketWord(n, x, k) = PayloadWord(n, k - 2)
        BY <1>8, <4>1
      <4>3. PacketWord(n, x, k) = PayloadWord(n, S + 1)
        BY <4>1, <4>2, Zenon
      <4> QED
        BY <4>3 DEF k
    <3>5. X <= N => reg_2' = PacketWord(n, x, S + 3)
      BY <1>4, <1>5, <3>3, <3>4
    <3>6. S >= 1 /\ S <= N + 1 /\ (X <= N + 1 => S <= N) /\ X + 1 = S + 2 /\ X + 2 = S + 3
      BY <1>1, <2>3
    <3> QED
      BY <1>3, <2>3, <3>1, <3>2, <3>5, <3>6
  <2> QED
    BY <1>7, <2>1, <2>2, <2>3
<1>10. /\ y \in 0 .. MaxSmpls /\ (S # 0 => y = x)
       /\ sample_width # 14 => y = n
  BY <1>4, <1>6, <1>7
<1>11. N' = N /\ Shifted(u + 1)' = X /\ Shifted(u + 1 - 1)' = S
      /\ \A k : PacketWord(n, y, k)' = PacketWord(n, y, k)
  <2>1. sample_width' = sample_width /\ u + 1 - 1 = u
    BY DEF Tick
  <2> QED
    BY <2>1, SameSchedule DEF S, X
<1>12. pct_wrreq' <=> X # S
  BY <1>5, <1>7
<1>13. Registers(u + 1, n, y)'
  BY <1>1, <1>9, <1>11, <1>12 DEF Registers
<1> QED
  BY <1>10, <1>13 DEF S

\* Three cycles of a burst: nothing or one word at a time.
LEMMA ThreeShifts ==
  ASSUME sample_width \in Widths, NEW u \in 0 .. Last
  PROVE  /\ Shifted(u) \in 0 .. N + 2 /\ Shifted(u - 1) \in 0 .. N + 2
         /\ Shifted(u - 2) \in 0 .. N + 2
         /\ Shifted(u - 1) = Shifted(u - 2) \/ Shifted(u - 1) = Shifted(u - 2) + 1
         /\ Shifted(u) = Shifted(u - 1) \/ Shifted(u) = Shifted(u - 1) + 1
         /\ u < Last => Shifted(u - 2) <= N
         /\ u = Last => /\ Shifted(u - 2) = N + 1 /\ Shifted(u - 1) = N + 2
                        /\ Shifted(u) = N + 2
<1>1. /\ RdSize \in Nat /\ N \in Nat /\ Lat \in 1 .. 6 /\ N >= 4
      /\ End = RdSize + Lat + 1 /\ Last = RdSize + Lat + 4
  BY Sizes
<1>2. \A v \in -2 .. Last :
        /\ Shifted(v) \in 0 .. N + 2
        /\ Shifted(v + 1) = Shifted(v) \/ Shifted(v + 1) = Shifted(v) + 1
        /\ v < End => Shifted(v) <= N - 1
        /\ v = End => Shifted(v) = N
        /\ v = End + 1 => Shifted(v) = N + 1
        /\ v >= End + 2 => Shifted(v) = N + 2
  BY Shifts
<1>3. u - 2 \in -2 .. Last /\ u - 1 \in -2 .. Last /\ u \in -2 .. Last
  BY <1>1
<1>4. u - 2 + 1 = u - 1 /\ u - 1 + 1 = u
  BY <1>1
<1>5. /\ Shifted(u - 1) = Shifted(u - 2) \/ Shifted(u - 1) = Shifted(u - 2) + 1
      /\ Shifted(u) = Shifted(u - 1) \/ Shifted(u) = Shifted(u - 1) + 1
  BY <1>2, <1>3, <1>4
<1>6. /\ Shifted(u - 2) \in 0 .. N + 2
      /\ u - 2 < End => Shifted(u - 2) <= N - 1
      /\ u - 2 = End => Shifted(u - 2) = N
      /\ u - 2 = End + 1 => Shifted(u - 2) = N + 1
  BY <1>2, <1>3
<1>7. /\ Shifted(u - 1) \in 0 .. N + 2
      /\ u - 1 >= End + 2 => Shifted(u - 1) = N + 2
  BY <1>2, <1>3
<1>8. /\ Shifted(u) \in 0 .. N + 2
      /\ u >= End + 2 => Shifted(u) = N + 2
  BY <1>2, <1>3
<1>9. u < Last => Shifted(u - 2) <= N
  BY <1>1, <1>6
<1>10. u = Last => u - 2 = End + 1 /\ u - 1 >= End + 2 /\ u >= End + 2
  BY <1>1
<1> QED
  BY <1>5, <1>6, <1>7, <1>8, <1>9, <1>10

\* The FIFO to the host and what the host has of the packet, up to the last
\* cycle of the burst.
LEMMA HostStep ==
  ASSUME TypeOK, NEW u \in 0 .. Last - 1, NEW n \in 0 .. MaxSmpls, NEW x \in 0 .. MaxSmpls,
         Registers(u, n, x), Host(u, n, x), Tick, pct_buff_wr' = pct_buff_wr,
         NEW y, Shifted(u) # 0 => y = x
  PROVE  Host(u + 1, n, y)'
<1> DEFINE P == Shifted(u - 2)
           Q == Shifted(u - 1)
           S == Shifted(u)
<1>1. sample_width \in Widths
  BY DEF TypeOK
<1>2. N \in Nat /\ N >= 4 /\ PctSize = N + 2 /\ Last \in Nat /\ BuffWords \in Nat
  BY <1>1, Sizes
<1>3. /\ P \in 0 .. N /\ Q \in 0 .. N + 2 /\ S \in 0 .. N + 2
      /\ Q = P \/ Q = P + 1
      /\ S = Q \/ S = Q + 1
  <2>1. u \in 0 .. Last /\ u < Last
    BY <1>2
  <2> QED
    BY <1>1, <1>2, <2>1, ThreeShifts
<1>4. /\ pct_wrreq <=> S # Q
      /\ S >= 1 => reg_0 = PacketWord(n, x, S)
      /\ wr_reg <=> pct_buff_wr /\ Q # P
      /\ wr_reg => wrdata_reg = PacketWord(n, x, Q)
      /\ pct_buff_wr => /\ Len(pct) = P
                        /\ Len(pct) >= 2 => pct[2] = Hdr1(x)
                        /\ Len(pct) >= 3 => pct[3] = PayloadWord(n, 1)
                        /\ wrusedw + PctSize - P < BuffWords
      /\ ~pct_buff_wr => pct = <<>>
  BY DEF Registers, Host
<1> HIDE DEF P, Q, S
<1>5. /\ wrdata_reg' = reg_0
      /\ wr_reg' <=> pct_wrreq /\ pct_buff_wr
      /\ wrusedw' = IF wr_reg THEN wrusedw + 1 ELSE wrusedw
      /\ wr_reg /\ Len(pct) = PctSize - 1 => pct' = <<>>
      /\ wr_reg /\ Len(pct) # PctSize - 1 => pct' = Append(pct, wrdata_reg)
      /\ ~wr_reg => pct' = pct
  BY DEF Tick, Output
<1>6. /\ pct \in Seq(Contents) /\ wrdata_reg \in Contents
      /\ wrusedw \in Nat /\ pct_buff_wr \in BOOLEAN
  BY <1>2 DEF TypeOK
<1>7. wr_reg' <=> pct_buff_wr /\ S # Q
  BY <1>4, <1>5
<1>8. wr_reg' => wrdata_reg' = PacketWord(n, y, S)
  <2>1. S # Q => S >= 1 /\ y = x
    BY <1>2, <1>3 DEF S
  <2> QED
    BY <1>4, <1>5, <1>7, <2>1
<1>9. pct_buff_wr => /\ Len(pct') = Q
                     /\ Len(pct') >= 2 => pct'[2] = Hdr1(y)
                     /\ Len(pct') >= 3 => pct'[3] = PayloadWord(n, 1)
                     /\ wrusedw' + PctSize - Q < BuffWords
  <2>1. CASE pct_buff_wr /\ wr_reg
    <3>1. Q = P + 1 /\ Len(pct) = P /\ wrdata_reg = PacketWord(n, x, Q)
      BY <1>3, <1>4, <2>1
    <3>2. pct' = Append(pct, wrdata_reg) /\ wrusedw' = wrusedw + 1
      BY <1>2, <1>3, <1>5, <2>1, <3>1
    <3>3. /\ Len(pct') = P + 1 /\ pct'[P + 1] = wrdata_reg
          /\ \A i \in 1 .. P : pct'[i] = pct[i]
      BY <1>6, <3>1, <3>2, AppendProperties
    <3>4. wrusedw' + PctSize - Q < BuffWords
      BY <1>2, <1>3, <1>4, <1>6, <2>1, <3>1, <3>2
    <3>5. P >= 1 => y = x
      BY <1>2, <1>3 DEF S
    <3>6. P = 0 => Len(pct') = 1
      BY <3>3
    <3>7. P = 1 => Len(pct') = 2 /\ pct'[2] = Hdr1(y)
      <4>1. PacketWord(n, x, 2) = Hdr1(x)
        BY DEF PacketWord
      <4> QED
        BY <3>1, <3>3, <3>5, <4>1
    <3>8. P = 2 => Len(pct') = 3 /\ pct'[2] = Hdr1(y) /\ pct'[3] = PayloadWord(n, 1)
      <4>1. PacketWord(n, x, 3) = PayloadWord(n, 1)
        BY DEF PacketWord
      <4> QED
        BY <1>4, <2>1, <3>1, <3>3, <3>5, <4>1
    <3>9. P >= 3 => pct'[2] = Hdr1(y) /\ pct'[3] = PayloadWord(n, 1)
      BY <1>3, <1>4, <2>1, <3>1, <3>3, <3>5
    <3>10. P = 0 \/ P = 1 \/ P = 2 \/ P >= 3
      BY <1>3
    <3> QED
      BY <3>1, <3>3, <3>4, <3>6, <3>7, <3>8, <3>9, <3>10
  <2>2. CASE pct_buff_wr /\ ~wr_reg
    <3>1. Q = P /\ Len(pct) = P /\ pct' = pct /\ wrusedw' = wrusedw
      BY <1>3, <1>4, <1>5, <2>2
    <3>2. P >= 2 => y = x
      BY <1>2, <1>3 DEF S
    <3> QED
      BY <1>3, <1>4, <2>2, <3>1, <3>2
  <2> QED
    BY <2>1, <2>2
<1>10. ~pct_buff_wr => pct' = <<>>
  BY <1>4, <1>5
<1>11. /\ PctSize' = PctSize /\ Shifted(u + 1 - 1)' = S /\ Shifted(u + 1 - 2)' = Q
       /\ \A k : PacketWord(n, y, k)' = PacketWord(n, y, k)
       /\ PayloadWord(n, 1)' = PayloadWord(n, 1)
  <2>1. sample_width' = sample_width
    BY DEF Tick
  <2>2. u + 1 - 1 = u /\ u + 1 - 2 = u - 1
    BY <1>2
  <2> QED
    BY <2>1, <2>2, SameSchedule DEF S, Q
<1> QED
  BY <1>7, <1>8, <1>9, <1>10, <1>11 DEF Host

\* A clock edge within a burst.
LEMMA BusyStep ==
  ASSUME TypeOK, NEW u \in 0 .. Last - 1, NEW n \in 0 .. MaxSmpls, NEW x \in 0 .. MaxSmpls,
         Busy(u, n, x), Tick
  PROVE  \E y \in 0 .. MaxSmpls : Busy(u + 1, n, y)'
<1>1. /\ Reader(u, n) /\ Level(u) /\ Numbers(u, n) /\ Packer(u, n)
      /\ Framer(u) /\ Registers(u, n, x) /\ Host(u, n, x)
      /\ sample_width # 14 => x = n
  BY DEF Busy
<1>2. u \in 0 .. Last
  <2>1. sample_width \in Widths
    BY DEF TypeOK
  <2>2. Last \in Nat
    BY <2>1, Sizes
  <2> QED
    BY <2>2
<1>3. PICK y : y = IF HeaderLoad THEN nr_pipe[7] ELSE x
  OBVIOUS
<1>4. /\ Registers(u + 1, n, y)' /\ y \in 0 .. MaxSmpls
      /\ sample_width # 14 => y = n
      /\ Shifted(u) # 0 => y = x
  BY <1>1, <1>2, <1>3, RegistersStep
<1>5. Reader(u + 1, n)' /\ Level(u + 1)' /\ pct_buff_wr' = pct_buff_wr
  BY <1>1, ReaderStep
<1>6. Numbers(u + 1, n)' /\ Packer(u + 1, n)' /\ Framer(u + 1)'
  BY <1>1, <1>2, NumbersStep, PackerStep, FramerStep
<1>7. Host(u + 1, n, y)'
  BY <1>1, <1>4, <1>5, HostStep
<1>8. sample_width' = sample_width
  BY DEF Tick
<1>9. Busy(u + 1, n, y)'
  BY <1>4, <1>5, <1>6, <1>7, <1>8 DEF Busy
<1> QED
  BY <1>4, <1>9

\* The clock edge that ends a burst.
LEMMA LastStep ==
  ASSUME TypeOK, NEW u \in 0 .. Last, u = Last, NEW n \in 0 .. MaxSmpls,
         NEW x \in 0 .. MaxSmpls, Busy(u, n, x), Tick
  PROVE  Quiet'
<1>1. /\ Reader(u, n) /\ Level(u) /\ Numbers(u, n) /\ Packer(u, n)
      /\ Framer(u) /\ Registers(u, n, x) /\ Host(u, n, x)
      /\ sample_width # 14 => x = n
  BY DEF Busy
<1>2. sample_width \in Widths
  BY DEF TypeOK
<1>3. /\ RdSize \in Nat /\ N \in Nat /\ Lat \in 1 .. 6 /\ N >= 4 /\ PctSize = N + 2
      /\ RdSize > Lat + 2 /\ End = RdSize + Lat + 1 /\ u = RdSize + Lat + 4
  BY <1>2, Sizes
<1>4. u + 1 = RdSize + Lat + 5 /\ u + 1 >= End + 2 /\ u + 1 - 1 = u
  BY <1>3
<1>5. /\ Shifted(u - 2) = N + 1 /\ Shifted(u - 1) = N + 2 /\ Shifted(u) = N + 2
      /\ Shifted(u + 1) = N + 2
  <2>1. Shifted(u + 1) = N + 2
    BY <1>1, <1>3, <1>4, NextShift
  <2> QED
    BY <1>2, <1>3, <1>4, <2>1, ThreeShifts
<1>6. /\ sample_width' = sample_width /\ RdSize' = RdSize /\ Lat' = Lat /\ PctSize' = PctSize
      /\ N' = N /\ End' = End /\ Last' = Last
      /\ \A v : Shifted(v)' = Shifted(v)
      /\ \A m, s : Slot(m, s)' = Slot(m, s)
  BY SameSchedule DEF Tick
<1>7. rd_state' = "idle" /\ ~RdReq /\ smpl_cnt' = n + RdSize /\ smpl_rd_cnt' = 0 /\ ~smpl_rd_done'
  <2>1. /\ rd_state = "wait_data2packets_done" /\ d2p_done /\ smpl_cnt = n + RdSize
        /\ smpl_rd_cnt = 0
    BY <1>1, <1>3 DEF Reader
  <2>2. ~RdReq
    BY <2>1 DEF RdReq
  <2>3. smpl_rd_done' <=> smpl_rd_cnt >= RdSize - 2
    BY DEF Tick, RdCounters
  <2>4. ~smpl_rd_done'
    BY <1>3, <2>1, <2>3
  <2>5. smpl_cnt' = smpl_cnt
    BY <2>2 DEF Tick, SmplFifo
  <2>6. smpl_rd_cnt' = 0
    BY <2>2 DEF Tick, RdCounters
  <2>7. rd_state' = "idle"
    BY <2>1 DEF Tick, RdFsm, RdIdle, RdCheckPctBuff, RdSmplBuff, RdWaitDone
  <2> QED
    BY <2>1, <2>2, <2>4, <2>5, <2>6, <2>7
<1>8. /\ ~data_in_valid' /\ pack_cnt' = 0 /\ \A i \in 1 .. Lat : pack_pipe'[i] = NoWord
  <2>1. Packer(u + 1, n)'
    BY <1>1, <1>4, PackerStep
  <2>2. u + 1 \notin 1 .. RdSize
    BY <1>3
  <2>3. \A i \in 1 .. Lat : ~IsWord(u + 1 - i - 1)
    BY <1>3 DEF IsWord
  <2>4. ~data_in_valid' /\ pack_cnt' = 0
    BY <1>6, <2>1, <2>2 DEF Packer
  <2>5. \A i \in 1 .. Lat : pack_pipe'[i] = Slot(n, u + 1 - i - 1)
    BY <1>6, <2>1 DEF Packer
  <2> QED
    BY <2>3, <2>4, <2>5 DEF Slot
<1>9. pk_state' = "idle" /\ pct_data_wr_cnt' = 0
  <2>1. Framer(u + 1)'
    BY <1>1, <1>4, FramerStep
  <2>2. u + 1 >= End' + 2 /\ u + 1 >= End'
    BY <1>3, <1>4, <1>6
  <2> QED
    BY <2>1, <2>2 DEF Framer
<1>10. ~pct_wrreq' /\ ~wr_reg'
  <2>1. PICK y : y = IF HeaderLoad THEN nr_pipe[7] ELSE x
    OBVIOUS
  <2>2. Registers(u + 1, n, y)'
    BY <1>1, <1>4, <2>1, RegistersStep
  <2>3. ~pct_wrreq'
    BY <1>4, <1>5, <1>6, <2>2 DEF Registers
  <2>4. ~pct_wrreq
    BY <1>1, <1>5 DEF Registers
  <2>5. wr_reg' <=> pct_wrreq /\ pct_buff_wr
    BY DEF Tick, Output
  <2> QED
    BY <2>3, <2>4, <2>5
<1>11. pct' = <<>>
  <2>1. wr_reg /\ Len(pct) = PctSize - 1 => pct' = <<>>
    BY DEF Tick, Output
  <2>2. ~wr_reg => pct' = pct
    BY DEF Tick, Output
  <2>3. pct_buff_wr \in BOOLEAN
    BY DEF TypeOK
  <2>4. CASE pct_buff_wr
    <3>1. wr_reg /\ Len(pct) = N + 1
      BY <1>1, <1>3, <1>5, <2>4 DEF Host
    <3> QED
      BY <1>3, <2>1, <3>1
  <2>5. CASE ~pct_buff_wr
    BY <1>1, <2>2, <2>5 DEF Host
  <2> QED
    BY <2>4, <2>5
<1>12. smpl_used_reg' <= smpl_used' /\ (smpl_buff_rdy' => smpl_used' > RdSize)
  <2>1. smpl_used \in Nat /\ smpl_used_reg \in Nat
    BY MaxSmplsAssumption DEF TypeOK
  <2>2. PICK new \in {0, 1} :
          smpl_used' = smpl_used + new - (IF RdReq /\ smpl_used > 0 THEN 1 ELSE 0)
    BY DEF Tick, SmplFifo
  <2>3. smpl_used_reg' = smpl_used /\ (smpl_buff_rdy' <=> smpl_used_reg > RdSize)
    BY DEF Tick, Levels
  <2>4. smpl_used_reg <= smpl_used
    BY <1>1, <1>3 DEF Level
  <2> QED
    BY <1>3, <1>7, <2>1, <2>2, <2>3, <2>4
<1>13. \A i \in 1 .. 6 : nr_pipe'[i] = smpl_cnt'
  <2>1. Numbers(u + 1, n)'
    BY <1>1, <1>4, NumbersStep
  <2>2. \A i \in 1 .. 6 : i \in 1 .. 7 /\ i <= u + 1 - RdSize
    BY <1>3
  <2> QED
    BY <1>3, <1>6, <1>7, <2>1, <2>2 DEF Numbers
<1>14. NoWord' = NoWord
  BY DEF NoWord
<1> QED
  BY <1>6, <1>7, <1>8, <1>9, <1>10, <1>11, <1>12, <1>13, <1>14 DEF Quiet

\* Between two bursts nothing moves but the sample FIFO and the levels.
LEMMA QuietPipes ==
  ASSUME TypeOK, Quiet, Tick
  PROVE  /\ smpl_rd_cnt' = 0 /\ ~smpl_rd_done' /\ ~data_in_valid' /\ pack_cnt' = 0
         /\ \A i \in 1 .. Lat : pack_pipe'[i] = NoWord
         /\ pk_state' = "idle" /\ pct_data_wr_cnt' = 0 /\ ~pct_wrreq' /\ ~wr_reg'
         /\ pct' = <<>> /\ wrusedw' = wrusedw
         /\ smpl_cnt' = smpl_cnt /\ smpl_used <= smpl_used'
         /\ smpl_used_reg' <= smpl_used' /\ (smpl_buff_rdy' => smpl_used' > RdSize)
         /\ \A i \in 1 .. 6 : nr_pipe'[i] = smpl_cnt'
         /\ nr_pipe'[7] = smpl_cnt'
         /\ smpl_buff_rdy => smpl_used' > RdSize
<1>1. sample_width \in Widths
  BY DEF TypeOK
<1>2. /\ RdSize \in Nat /\ N \in Nat /\ Lat \in 1 .. 6 /\ N >= 4 /\ PctSize = N + 2
      /\ RdSize > Lat + 2
  BY <1>1, Sizes
<1>3. smpl_used \in Nat /\ smpl_used_reg \in Nat /\ smpl_cnt \in Nat
  BY MaxSmplsAssumption DEF TypeOK
<1>4. ~RdReq /\ PackOut = NoWord /\ ~PctDataWrReq
  BY <1>2 DEF Quiet, RdReq, PackOut, PctDataWrReq, Lat
<1>5. NewWord = NoWord
  BY DEF Quiet, NewWord
<1>6. smpl_rd_cnt' = 0 /\ ~smpl_rd_done'
  <2>1. smpl_rd_cnt = 0
    BY DEF Quiet
  <2>2. smpl_rd_cnt' = 0 /\ (smpl_rd_done' <=> smpl_rd_cnt >= RdSize - 2)
    BY <1>4 DEF Tick, RdCounters
  <2> QED
    BY <1>2, <2>1, <2>2
<1>7. ~data_in_valid' /\ pack_cnt' = 0
  <2>1. data_in_valid' <=> RdReq
    BY DEF Tick, BitPack
  <2> QED
    BY <1>4, <2>1 DEF Quiet, Tick, BitPack
<1>8. ASSUME NEW i \in 1 .. Lat
      PROVE  pack_pipe'[i] = NoWord
  <2>1. pack_pipe'[i] = IF i = 1 THEN NewWord ELSE pack_pipe[i - 1]
    BY DEF Tick, BitPack, Lat
  <2>2. i # 1 => i - 1 \in 1 .. Lat
    BY <1>2
  <2> QED
    BY <1>5, <2>1, <2>2 DEF Quiet
<1>9. pk_state' = "idle" /\ pct_data_wr_cnt' = 0
  BY <1>4 DEF Quiet, Tick, PkFsm, PkIdle, PkS0, PkS1, PkS2, PkCounters
<1>10. ~pct_wrreq' /\ ~wr_reg'
  <2>1. ~Shift
    BY <1>4 DEF Quiet, Shift
  <2>2. pct_wrreq' <=> Shift
    BY DEF Tick, PkRegs
  <2>3. wr_reg' <=> pct_wrreq /\ pct_buff_wr
    BY DEF Tick, Output
  <2> QED
    BY <2>1, <2>2, <2>3 DEF Quiet
<1>11. pct' = <<>> /\ wrusedw' = wrusedw
  BY DEF Quiet, Tick, Output
<1>12. smpl_cnt' = smpl_cnt /\ smpl_used <= smpl_used'
  <2>1. PICK new \in {0, 1} :
          /\ smpl_used' = smpl_used + new - (IF RdReq /\ smpl_used > 0 THEN 1 ELSE 0)
          /\ smpl_cnt' = IF RdReq /\ smpl_used > 0 THEN smpl_cnt + 1 ELSE smpl_cnt
    BY DEF Tick, SmplFifo
  <2> QED
    BY <1>3, <1>4, <2>1
<1>13. smpl_used' \in Int
  BY <1>3, <1>4 DEF Tick, SmplFifo
<1>14. smpl_used_reg' <= smpl_used' /\ (smpl_buff_rdy' => smpl_used' > RdSize)
  <2>1. smpl_used_reg' = smpl_used /\ (smpl_buff_rdy' <=> smpl_used_reg > RdSize)
    BY DEF Tick, Levels
  <2>2. smpl_used_reg <= smpl_used
    BY DEF Quiet
  <2> QED
    BY <1>2, <1>3, <1>12, <1>13, <2>1, <2>2
<1>15. ASSUME NEW i \in 1 .. 7
       PROVE  nr_pipe'[i] = smpl_cnt'
  <2>1. nr_pipe'[i] = IF i = 1 THEN smpl_cnt ELSE nr_pipe[i - 1]
    BY DEF Tick, SampleNr
  <2>2. i # 1 => i - 1 \in 1 .. 6
    OBVIOUS
  <2> QED
    BY <1>12, <2>1, <2>2 DEF Quiet
<1>16. smpl_buff_rdy => smpl_used' > RdSize
  BY <1>2, <1>3, <1>12, <1>13 DEF Quiet
<1> QED
  BY <1>6, <1>7, <1>8, <1>9, <1>10, <1>11, <1>12, <1>14, <1>15, <1>16

\* Waiting for samples, and taking notice of them.
LEMMA IdleStep ==
  ASSUME TypeOK, Quiet, Tick, rd_state = "idle"
  PROVE  Quiet'
<1>1. /\ RdSize' = RdSize /\ PctSize' = PctSize /\ Lat' = Lat /\ NoWord' = NoWord
  BY SameSchedule DEF Tick, NoWord
<1>2. /\ BuffWords \in Nat /\ PctSize \in Nat /\ wrusedw \in Nat
  <2>1. sample_width \in Widths
    BY DEF TypeOK
  <2>2. BuffWords \in Nat /\ N \in Nat /\ PctSize = N + 2
    BY <2>1, Sizes
  <2> QED
    BY <2>2 DEF TypeOK
<1>3. rd_state' = IF smpl_buff_rdy THEN "check_pct_buff" ELSE "idle"
  BY DEF Tick, RdFsm, RdIdle, RdCheckPctBuff, RdSmplBuff, RdWaitDone
<1>4. pct_buff_rdy' => wrusedw' + PctSize < BuffWords
  <2>1. pct_buff_rdy' <=> wrusedw < BuffWords - PctSize
    BY DEF Tick, Levels
  <2>2. wrusedw' = wrusedw
    BY QuietPipes
  <2> QED
    BY <1>2, <2>1, <2>2
<1>5. smpl_buff_rdy => smpl_used' > RdSize
  BY QuietPipes
<1> QED
  BY <1>1, <1>3, <1>4, <1>5, QuietPipes DEF Quiet

\* The first sample of a burst is the next one of the count.
LEMMA FirstStep ==
  ASSUME TypeOK, Quiet, Tick, rd_state = "check_pct_buff", NEW n \in 0 .. MaxSmpls, n = smpl_cnt
  PROVE  Busy(0, n, n)'
<1>1. sample_width \in Widths
  BY DEF TypeOK
<1>2. /\ RdSize \in Nat /\ N \in Nat /\ Lat \in 1 .. 6 /\ N >= 4 /\ PctSize = N + 2
      /\ RdSize > Lat + 2 /\ End = RdSize + Lat + 1 /\ Last = RdSize + Lat + 4
      /\ T \in {1, 4, 8} /\ BuffWords \in Nat
  BY <1>1, Sizes
<1>3. /\ sample_width' = sample_width /\ RdSize' = RdSize /\ PctSize' = PctSize /\ Lat' = Lat
      /\ T' = T /\ N' = N /\ End' = End /\ Last' = Last /\ NoWord' = NoWord
      /\ \A v : Shifted(v)' = Shifted(v)
      /\ \A m, s : Slot(m, s)' = Slot(m, s)
  BY SameSchedule DEF Tick, NoWord
<1>4. Shifted(0) = 0 /\ Shifted(0 - 1) = 0 /\ Shifted(0 - 2) = 0
  <2>1. 0 \in -2 .. Last /\ 0 - 1 \in -2 .. Last /\ 0 - 2 \in -2 .. Last
    BY <1>2
  <2>2. \A v \in -2 .. Last : v <= Lat + 1 => Shifted(v) = 0
    BY <1>1, Shifts
  <2> QED
    BY <1>2, <2>1, <2>2
<1>5. /\ smpl_rd_cnt' = 0 /\ ~smpl_rd_done' /\ ~data_in_valid' /\ pack_cnt' = 0
      /\ \A i \in 1 .. Lat : pack_pipe'[i] = NoWord
      /\ pk_state' = "idle" /\ pct_data_wr_cnt' = 0 /\ ~pct_wrreq' /\ ~wr_reg'
      /\ pct' = <<>> /\ wrusedw' = wrusedw /\ smpl_cnt' = n /\ smpl_used <= smpl_used'
      /\ \A i \in 1 .. 6 : nr_pipe'[i] = n
      /\ nr_pipe'[7] = n
  BY QuietPipes
<1>6. rd_state' = "rd_smpl_buff"
  BY DEF Tick, RdFsm, RdIdle, RdCheckPctBuff, RdSmplBuff, RdWaitDone
<1>7. Reader(0, n)'
  <2>1. /\ 0 <= RdSize /\ 0 < RdSize /\ n + 0 = n /\ ~(0 >= RdSize)
        /\ 0 \notin RdSize - 1 .. RdSize + 1
    BY <1>2, MaxSmplsAssumption
  <2> QED
    BY <1>3, <1>5, <1>6, <2>1 DEF Reader
<1>8. Level(0)'
  <2>1. smpl_used \in Nat /\ smpl_used > RdSize
    BY MaxSmplsAssumption DEF TypeOK, Quiet
  <2>2. smpl_used' \in Int
    BY <2>1 DEF Tick, SmplFifo
  <2>3. smpl_used' >= RdSize - 0
    BY <1>2, <1>5, <2>1, <2>2
  <2>4. ~(0 > RdSize) /\ ~(0 > RdSize + 1)
    BY <1>2
  <2> QED
    BY <1>3, <2>3, <2>4 DEF Level
<1>9. Numbers(0, n)'
  <2>1. \A i \in 1 .. 7 : nr_pipe'[i] = n
    BY <1>5
  <2>2. \A i \in 1 .. 7 : ~(i <= 0 - RdSize)
    BY <1>2
  <2> QED
    BY <1>2, <1>3, <2>1, <2>2 DEF Numbers
<1>10. Packer(0, n)'
  <2>1. \A i \in 1 .. Lat : ~IsWord(0 - i - 1)
    BY <1>2 DEF IsWord
  <2>2. \A i \in 1 .. Lat : pack_pipe'[i] = Slot(n, 0 - i - 1)
    BY <1>5, <2>1 DEF Slot
  <2>3. 0 \notin 1 .. RdSize
    BY <1>2
  <2> QED
    BY <1>3, <1>5, <2>2, <2>3 DEF Packer
<1>11. Framer(0)'
  <2>1. ~(0 >= End) /\ 0 # End + 1 /\ 0 # N - 1
    BY <1>2
  <2> QED
    BY <1>3, <1>4, <1>5, <2>1 DEF Framer
<1>12. Registers(0, n, n)'
  BY <1>3, <1>4, <1>5 DEF Registers
<1>13. Host(0, n, n)'
  <2>1. pct_buff_wr' <=> pct_buff_rdy
    BY DEF Tick, RdCounters
  <2>2. pct_buff_rdy => wrusedw + PctSize < BuffWords
    BY DEF Quiet
  <2>3. wrusedw \in Nat
    BY <1>2 DEF TypeOK
  <2>4. pct_buff_wr' => wrusedw' + PctSize - 0 < BuffWords
    BY <1>2, <1>5, <2>1, <2>2, <2>3
  <2>5. Len(pct') = 0
    BY <1>5
  <2> QED
    BY <1>3, <1>4, <1>5, <2>4, <2>5 DEF Host
<1> QED
  BY <1>3, <1>7, <1>8, <1>9, <1>10, <1>11, <1>12, <1>13 DEF Busy

-----------------------------------------------------------------------------
(* Type correctness, and the invariant.                                    *)

\* A clock edge keeps the types, with what the schedule says of five of the
\* registers.
LEMMA TypeStep ==
  ASSUME TypeOK, Received <= MaxSmpls, Tick,
         data_in_valid => smpl_cnt >= 1, wr_reg => wrusedw < BuffWords,
         smpl_rd_cnt' \in 0 .. RdSize, pct_data_wr_cnt' \in 0 .. PctSize - 3
  PROVE  TypeOK' /\ (Received <= MaxSmpls)'
<1>1. sample_width \in Widths /\ sample_width' = sample_width /\ MaxSmpls \in Nat
  BY MaxSmplsAssumption DEF TypeOK, Tick
<1>2. /\ RdSize \in Nat /\ N \in Nat /\ Lat \in 1 .. 6 /\ N >= 4 /\ PctSize = N + 2
      /\ T \in {1, 4, 8} /\ BuffWords \in Nat
  BY <1>1, Sizes
<1>3. RdSize' = RdSize /\ PctSize' = PctSize /\ T' = T /\ Lat' = Lat
  BY <1>1, SameSchedule
<1>4. /\ smpl_used' \in 0 .. MaxSmpls /\ smpl_cnt' \in 0 .. MaxSmpls
      /\ smpl_cnt' + smpl_used' <= MaxSmpls
  <2>1. /\ smpl_used \in Nat /\ smpl_cnt \in Nat /\ smpl_cnt + smpl_used <= MaxSmpls
    BY <1>1 DEF TypeOK, Received
  <2>2. PICK new \in {0, 1} :
          /\ smpl_cnt + smpl_used + new <= MaxSmpls
          /\ smpl_used' = smpl_used + new - (IF RdReq /\ smpl_used > 0 THEN 1 ELSE 0)
          /\ smpl_cnt' = IF RdReq /\ smpl_used > 0 THEN smpl_cnt + 1 ELSE smpl_cnt
    BY DEF Tick, SmplFifo, Received
  <2>3. CASE RdReq /\ smpl_used > 0
    BY <1>1, <2>1, <2>2, <2>3
  <2>4. CASE ~(RdReq /\ smpl_used > 0)
    BY <1>1, <2>1, <2>2, <2>4
  <2> QED
    BY <2>3, <2>4
<1>5. /\ smpl_used_reg' \in 0 .. MaxSmpls /\ smpl_buff_rdy' \in BOOLEAN
      /\ pct_buff_rdy' \in BOOLEAN /\ d2p_done' \in BOOLEAN
  BY DEF TypeOK, Tick, Levels
<1>6. smpl_rd_done' \in BOOLEAN /\ pct_buff_wr' \in BOOLEAN
  <2>1. smpl_rd_done' \in BOOLEAN
    BY DEF Tick, RdCounters
  <2>2. pct_buff_wr' = IF rd_state = "check_pct_buff" THEN pct_buff_rdy ELSE pct_buff_wr
    BY DEF Tick, RdCounters
  <2>3. pct_buff_wr \in BOOLEAN /\ pct_buff_rdy \in BOOLEAN
    BY DEF TypeOK
  <2> QED
    BY <2>1, <2>2, <2>3
<1>7. rd_state' \in {"idle", "check_pct_buff", "rd_smpl_buff", "wait_data2packets_done"}
  BY DEF Tick, RdFsm, RdIdle, RdCheckPctBuff, RdSmplBuff, RdWaitDone
<1>8. /\ data_in_valid' \in BOOLEAN /\ pack_cnt' \in 0 .. T - 1
  <2>1. pack_cnt \in 0 .. T - 1
    BY DEF TypeOK, T
  <2>2. pack_cnt' = IF data_in_valid THEN (pack_cnt + 1) % T ELSE pack_cnt
    BY DEF Tick, BitPack, T
  <2>3. (pack_cnt + 1) % T \in 0 .. T - 1
    <3>1. CASE T = 1
      BY <2>1, <3>1
    <3>2. CASE T = 4
      BY <2>1, <3>2
    <3>3. CASE T = 8
      BY <2>1, <3>3
    <3> QED
      BY <1>2, <3>1, <3>2, <3>3
  <2>4. data_in_valid' \in BOOLEAN
    BY DEF Tick, BitPack, RdReq
  <2> QED
    BY <2>1, <2>2, <2>3, <2>4
<1>9. pack_pipe' \in [1 .. Lat -> 0 .. NoWord]
  <2>1. NewWord \in 0 .. NoWord
    <3>1. smpl_cnt \in 0 .. MaxSmpls
      BY DEF TypeOK
    <3> QED
      BY <1>1, <3>1 DEF NewWord, NoWord
  <2>2. pack_pipe \in [1 .. Lat -> 0 .. NoWord]
    BY DEF TypeOK, Lat
  <2>3. pack_pipe' = [i \in 1 .. Lat |-> IF i = 1 THEN NewWord ELSE pack_pipe[i - 1]]
    BY DEF Tick, BitPack, Lat
  <2>4. ASSUME NEW i \in 1 .. Lat
        PROVE  (IF i = 1 THEN NewWord ELSE pack_pipe[i - 1]) \in 0 .. NoWord
    <3>1. i # 1 => i - 1 \in 1 .. Lat
      BY <1>2
    <3> QED
      BY <2>1, <2>2, <3>1
  <2> QED
    BY <2>3, <2>4
<1>10. nr_pipe' \in [1 .. 7 -> 0 .. MaxSmpls]
  <2>1. nr_pipe' = [i \in 1 .. 7 |-> IF i = 1 THEN smpl_cnt ELSE nr_pipe[i - 1]]
    BY DEF Tick, SampleNr
  <2>2. nr_pipe \in [1 .. 7 -> 0 .. MaxSmpls] /\ smpl_cnt \in 0 .. MaxSmpls
    BY DEF TypeOK
  <2> QED
    BY <2>1, <2>2
<1>11. pk_state' \in {"idle", "s0", "s1", "s2"}
  BY DEF Tick, PkFsm, PkIdle, PkS0, PkS1, PkS2
<1>12. pct_end_cnt' \in 0 .. 255
  <2>1. pct_end_cnt \in 0 .. 255
    BY DEF TypeOK
  <2>2. (pct_end_cnt + 255) % 256 \in 0 .. 255
    BY <2>1
  <2>3. pct_end_cnt' = IF pk_state = "s2" THEN (pct_end_cnt + 255) % 256 ELSE 1
    BY DEF Tick, PkCounters
  <2> QED
    BY <2>2, <2>3
<1>13. reg_0' \in Contents /\ reg_1' \in Contents /\ reg_2' \in Contents
  <2>1. /\ reg_0 \in Contents /\ reg_1 \in Contents /\ reg_2 \in Contents
        /\ nr_pipe[7] \in 0 .. MaxSmpls
    BY DEF TypeOK
  <2>2. Hdr0 \in Contents /\ Hdr1(nr_pipe[7]) \in Contents
    BY <2>1 DEF Contents
  <2>3. PctDataWrReq => Data(PackOut) \in Contents
    <3>1. PackOut \in 0 .. NoWord
      <4>1. pack_pipe \in [1 .. Lat -> 0 .. NoWord] /\ PackOut = pack_pipe[Lat]
        BY DEF TypeOK, PackOut, Lat
      <4>2. Lat \in 1 .. Lat
        BY <1>2
      <4> QED
        BY <4>1, <4>2
    <3>2. PctDataWrReq => PackOut \in 0 .. MaxSmpls
      BY <1>1, <3>1 DEF PctDataWrReq, NoWord
    <3> QED
      BY <3>2 DEF Contents
  <2>4. /\ reg_0' \in {Hdr0, reg_1, reg_0}
        /\ reg_1' \in {Hdr1(nr_pipe[7]), reg_2, reg_1}
        /\ reg_2' = IF PctDataWrReq THEN Data(PackOut) ELSE reg_2
    BY DEF Tick, PkRegs
  <2> QED
    BY <2>1, <2>2, <2>3, <2>4
<1>14. pct_wrreq' \in BOOLEAN /\ wr_reg' \in BOOLEAN /\ wrdata_reg' \in Contents
  <2>1. pct_wrreq' \in BOOLEAN
    BY DEF Tick, PkRegs, Shift
  <2>2. wr_reg' \in BOOLEAN /\ wrdata_reg' = reg_0
    BY DEF Tick, Output
  <2> QED
    BY <2>1, <2>2 DEF TypeOK
<1>15. wrusedw' \in 0 .. BuffWords
  <2>1. wrusedw \in 0 .. BuffWords
    BY DEF TypeOK
  <2>2. wrusedw' = IF wr_reg THEN wrusedw + 1 ELSE wrusedw
    BY DEF Tick, Output
  <2> QED
    BY <1>2, <2>1, <2>2
<1>16. pct' \in Seq(Contents) /\ Len(pct') < PctSize
  <2>1. pct \in Seq(Contents) /\ Len(pct) < PctSize /\ wrdata_reg \in Contents
    BY DEF TypeOK
  <2>2. /\ wr_reg /\ Len(pct) = PctSize - 1 => pct' = <<>>
        /\ wr_reg /\ Len(pct) # PctSize - 1 => pct' = Append(pct, wrdata_reg)
        /\ ~wr_reg => pct' = pct
    BY DEF Tick, Output
  <2>3. CASE pct' = <<>>
    BY <1>2, <2>3
  <2>4. CASE pct' = pct
    BY <2>1, <2>4
  <2>5. CASE pct' = Append(pct, wrdata_reg) /\ Len(pct) # PctSize - 1
    <3>1. Append(pct, wrdata_reg) \in Seq(Contents) /\ Len(Append(pct, wrdata_reg)) = Len(pct) + 1
      BY <2>1, AppendProperties
    <3>2. Len(pct) \in Nat
      BY <2>1, LenProperties
    <3> QED
      BY <1>2, <2>1, <2>5, <3>1, <3>2
  <2>6. wr_reg \in BOOLEAN
    BY DEF TypeOK
  <2> QED
    BY <2>2, <2>3, <2>4, <2>5, <2>6
<1>17. Contents' = Contents /\ NoWord' = NoWord
  BY DEF Contents, NoWord
<1>18. TypeOK'
  BY <1>1, <1>3, <1>4, <1>5, <1>6, <1>7, <1>8, <1>9, <1>10, <1>11, <1>12, <1>13, <1>14,
     <1>15, <1>16, <1>17 DEF TypeOK, T, Lat
<1> QED
  BY <1>4, <1>18 DEF Received

\* Within a burst the host FIFO has room for every word that is written.
LEMMA BusyBounds ==
  ASSUME TypeOK, NEW u \in 0 .. Last, NEW n \in 0 .. MaxSmpls, NEW x \in 0 .. MaxSmpls,
         Busy(u, n, x)
  PROVE  /\ data_in_valid => smpl_cnt >= 1
         /\ wr_reg => wrusedw < BuffWords
<1>1. sample_width \in Widths /\ MaxSmpls \in Nat
  BY MaxSmplsAssumption DEF TypeOK
<1>2. /\ RdSize \in Nat /\ N \in Nat /\ N >= 4 /\ PctSize = N + 2 /\ BuffWords \in Nat
  BY <1>1, Sizes
<1>3. Reader(u, n) /\ Packer(u, n) /\ Host(u, n, x)
  BY DEF Busy
<1>4. data_in_valid => smpl_cnt >= 1
  BY <1>1, <1>2, <1>3 DEF Reader, Packer
<1>5. wr_reg => wrusedw < BuffWords
  <2>1. Shifted(u - 2) \in 0 .. N + 1
    <3>1. u < Last \/ u = Last
      BY <1>1, <1>2, Sizes
    <3> QED
      BY <1>1, <1>2, <3>1, ThreeShifts
  <2>2. wr_reg => wrusedw + PctSize - Shifted(u - 2) < BuffWords
    BY <1>3 DEF Host
  <2>3. wrusedw \in Nat
    BY <1>2 DEF TypeOK
  <2> QED
    BY <1>2, <2>1, <2>2, <2>3
<1> QED
  BY <1>4, <1>5

\* The counters of the reader and of data2packets stay in range.
LEMMA NextBounds ==
  ASSUME TypeOK, sample_width' = sample_width, NEW u \in 0 .. Last - 1, NEW n \in 0 .. MaxSmpls,
         Reader(u + 1, n)', Framer(u + 1)'
  PROVE  smpl_rd_cnt' \in 0 .. RdSize /\ pct_data_wr_cnt' \in 0 .. PctSize - 3
<1>1. sample_width \in Widths
  BY DEF TypeOK
<1>2. /\ RdSize \in Nat /\ N \in Nat /\ N >= 4 /\ PctSize = N + 2 /\ Last \in Nat /\ End \in Nat
  BY <1>1, Sizes
<1>3. /\ RdSize' = RdSize /\ N' = N /\ End' = End /\ \A v : Shifted(v)' = Shifted(v)
  BY SameSchedule
<1>4. u + 1 \in -2 .. Last
  BY <1>2
<1>5. Shifted(u + 1) \in 0 .. N + 2 /\ (u + 1 < End => Shifted(u + 1) <= N - 1)
  BY <1>1, <1>4, Shifts
<1>6. smpl_rd_cnt' = IF u + 1 <= RdSize THEN u + 1 ELSE 0
  BY <1>3 DEF Reader
<1>7. /\ u + 1 < End /\ Shifted(u + 1) # N - 1 => pct_data_wr_cnt' = Shifted(u + 1)
      /\ u + 1 < End /\ Shifted(u + 1) = N - 1 => pct_data_wr_cnt' \in {0, N - 1}
      /\ u + 1 >= End => pct_data_wr_cnt' = 0
  BY <1>3 DEF Framer
<1> QED
  BY <1>2, <1>5, <1>6, <1>7

\* Nothing is under way when the path comes out of reset.
LEMMA InitInv == Init => IInv
<1> SUFFICES ASSUME Init PROVE IInv
  OBVIOUS
<1>1. sample_width \in Widths /\ MaxSmpls \in Nat
  BY MaxSmplsAssumption DEF Init
<1>2. /\ RdSize \in Nat /\ N \in Nat /\ Lat \in 1 .. 6 /\ N >= 4 /\ PctSize = N + 2
      /\ T \in {1, 4, 8} /\ BuffWords \in Nat
  BY <1>1, Sizes
<1>3. pack_pipe = [i \in 1 .. Lat |-> NoWord] /\ pack_pipe \in [1 .. Lat -> 0 .. NoWord]
  BY <1>1 DEF Init, Lat, NoWord
<1>4. nr_pipe = [i \in 1 .. 7 |-> 0] /\ nr_pipe \in [1 .. 7 -> 0 .. MaxSmpls]
  BY <1>1 DEF Init
<1>5. Zero \in Contents
  BY DEF Contents
<1>6. pct \in Seq(Contents) /\ Len(pct) = 0
  BY EmptySeq DEF Init
<1>7. /\ smpl_used \in 0 .. MaxSmpls /\ smpl_cnt \in 0 .. MaxSmpls
      /\ smpl_used_reg \in 0 .. MaxSmpls /\ Received <= MaxSmpls
  BY <1>1 DEF Init, Received
<1>8. /\ smpl_rd_cnt \in 0 .. RdSize /\ pack_cnt \in 0 .. T - 1
      /\ pct_data_wr_cnt \in 0 .. PctSize - 3 /\ pct_end_cnt \in 0 .. 255
      /\ wrusedw \in 0 .. BuffWords /\ Len(pct) < PctSize
  BY <1>2, <1>6 DEF Init
<1>9. TypeOK
  BY <1>1, <1>3, <1>4, <1>5, <1>6, <1>7, <1>8 DEF Init, TypeOK, T, Lat
<1>10. Quiet
  <2>1. \A i \in 1 .. Lat : pack_pipe[i] = NoWord
    BY <1>3
  <2>2. \A i \in 1 .. 6 : nr_pipe[i] = smpl_cnt
    BY <1>4 DEF Init
  <2>3. smpl_used_reg <= smpl_used
    BY DEF Init
  <2> QED
    BY <2>1, <2>2, <2>3 DEF Init, Quiet
<1> QED
  BY <1>7, <1>9, <1>10 DEF IInv

\* A clock edge keeps the invariant.
LEMMA TickInv ==
  ASSUME IInv, Tick
  PROVE  IInv'
<1>1. TypeOK /\ Received <= MaxSmpls
  BY DEF IInv
<1>2. sample_width \in Widths /\ sample_width' = sample_width
  BY <1>1 DEF TypeOK, Tick
<1>3. /\ RdSize \in Nat /\ N \in Nat /\ N >= 4 /\ PctSize = N + 2 /\ Last \in Nat
  BY <1>2, Sizes
<1>4. Last' = Last
  BY <1>2, SameSchedule
<1>5. CASE Quiet
  <2>1. TypeOK' /\ (Received <= MaxSmpls)'
    <3>1. smpl_rd_cnt' = 0 /\ pct_data_wr_cnt' = 0
      BY <1>1, <1>5, QuietPipes
    <3>2. smpl_rd_cnt' \in 0 .. RdSize /\ pct_data_wr_cnt' \in 0 .. PctSize - 3
      BY <1>3, <3>1
    <3>3. ~data_in_valid /\ ~wr_reg
      BY <1>5 DEF Quiet
    <3> QED
      BY <1>1, <3>2, <3>3, TypeStep
  <2>2. CASE rd_state = "idle"
    <3>1. Quiet'
      BY <1>1, <1>5, <2>2, IdleStep
    <3> QED
      BY <2>1, <3>1 DEF IInv
  <2>3. CASE rd_state = "check_pct_buff"
    <3>1. PICK n \in 0 .. MaxSmpls : n = smpl_cnt
      BY <1>1 DEF TypeOK
    <3>2. Busy(0, n, n)'
      BY <1>1, <1>5, <2>3, <3>1, FirstStep
    <3>3. 0 \in 0 .. Last'
      BY <1>3, <1>4
    <3> QED
      BY <2>1, <3>2, <3>3 DEF IInv
  <2> QED
    BY <1>5, <2>2, <2>3 DEF Quiet
<1>6. CASE \E u \in 0 .. Last, n, x \in 0 .. MaxSmpls : Busy(u, n, x)
  <2>1. PICK u \in 0 .. Last, n \in 0 .. MaxSmpls, x \in 0 .. MaxSmpls : Busy(u, n, x)
    BY <1>6
  <2>2. /\ data_in_valid => smpl_cnt >= 1
        /\ wr_reg => wrusedw < BuffWords
    BY <1>1, <2>1, BusyBounds
  <2>3. CASE u = Last
    <3>1. Quiet'
      BY <1>1, <2>1, <2>3, LastStep
    <3>2. smpl_rd_cnt' = 0 /\ pct_data_wr_cnt' = 0
      BY <3>1 DEF Quiet
    <3>3. smpl_rd_cnt' \in 0 .. RdSize /\ pct_data_wr_cnt' \in 0 .. PctSize - 3
      BY <1>3, <3>2
    <3>4. TypeOK' /\ (Received <= MaxSmpls)'
      BY <1>1, <2>2, <3>3, TypeStep
    <3> QED
      BY <3>1, <3>4 DEF IInv
  <2>4. CASE u # Last
    <3>1. u \in 0 .. Last - 1 /\ u + 1 \in 0 .. Last'
      BY <1>3, <1>4, <2>4
    <3>2. PICK y \in 0 .. MaxSmpls : Busy(u + 1, n, y)'
      BY <1>1, <2>1, <3>1, BusyStep
    <3>3. Reader(u + 1, n)' /\ Framer(u + 1)'
      BY <3>2 DEF Busy
    <3>4. smpl_rd_cnt' \in 0 .. RdSize /\ pct_data_wr_cnt' \in 0 .. PctSize - 3
      BY <1>1, <1>2, <3>1, <3>3, NextBounds
    <3>5. TypeOK' /\ (Received <= MaxSmpls)'
      BY <1>1, <2>2, <3>4, TypeStep
    <3> QED
      BY <3>1, <3>2, <3>5 DEF IInv
  <2> QED
    BY <2>3, <2>4
<1> QED
  BY <1>5, <1>6 DEF IInv

\* A word read by the host only makes room, and nothing else in the path
\* depends on the level of its FIFO.
LEMMA RoomInv ==
  ASSUME IInv, wrusedw' \in 0 .. wrusedw,
         UNCHANGED <<sample_width, smpl_used, smpl_cnt, smpl_used_reg, smpl_buff_rdy,
                     pct_buff_rdy, pct_buff_wr, rd_state, smpl_rd_cnt, smpl_rd_done,
                     d2p_done, data_in_valid, pack_cnt>>,
         UNCHANGED <<pack_pipe, nr_pipe, pk_state, pct_data_wr_cnt, pct_end_cnt, reg_0,
                     reg_1, reg_2, pct_wrreq, wr_reg, wrdata_reg, pct>>
  PROVE  IInv'
<1>1. TypeOK /\ Received <= MaxSmpls
  BY DEF IInv
<1>2. sample_width \in Widths
  BY <1>1 DEF TypeOK
<1>3. N \in Nat /\ PctSize = N + 2 /\ PctSize \in Nat /\ BuffWords \in Nat
  BY <1>2, Sizes
<1>4. wrusedw \in Nat /\ wrusedw' \in Nat /\ wrusedw' <= wrusedw /\ wrusedw <= BuffWords
  BY <1>1, <1>3 DEF TypeOK
<1>5. /\ RdSize' = RdSize /\ PctSize' = PctSize /\ T' = T /\ Lat' = Lat /\ N' = N
      /\ End' = End /\ Last' = Last /\ Contents' = Contents /\ NoWord' = NoWord
  BY SameSchedule DEF Contents, NoWord
<1>6. /\ \A v : Shifted(v)' = Shifted(v)
      /\ \A n, s : Slot(n, s)' = Slot(n, s)
      /\ \A n, j : PayloadWord(n, j)' = PayloadWord(n, j)
      /\ \A n, x, k : PacketWord(n, x, k)' = PacketWord(n, x, k)
  BY SameSchedule
<1>7. TypeOK' /\ (Received <= MaxSmpls)'
  <2>1. wrusedw' \in 0 .. BuffWords
    BY <1>3, <1>4
  <2>2. (Received <= MaxSmpls)'
    BY <1>1 DEF Received
  <2>3. /\ pack_cnt' \in 0 .. T' - 1 /\ pack_pipe' \in [1 .. Lat' -> 0 .. NoWord']
        /\ smpl_rd_cnt' \in 0 .. RdSize' /\ pct_data_wr_cnt' \in 0 .. PctSize' - 3
    <3>1. /\ pack_cnt \in 0 .. T - 1 /\ pack_pipe \in [1 .. Lat -> 0 .. NoWord]
          /\ smpl_rd_cnt \in 0 .. RdSize /\ pct_data_wr_cnt \in 0 .. PctSize - 3
      BY <1>1 DEF TypeOK, T, Lat
    <3> QED
      BY <1>5, <3>1
  <2>4. /\ pct' \in Seq(Contents') /\ Len(pct') < PctSize'
        /\ reg_0' \in Contents' /\ reg_1' \in Contents' /\ reg_2' \in Contents'
        /\ wrdata_reg' \in Contents'
    <3>1. /\ pct \in Seq(Contents) /\ Len(pct) < PctSize
          /\ reg_0 \in Contents /\ reg_1 \in Contents /\ reg_2 \in Contents
          /\ wrdata_reg \in Contents
      BY <1>1 DEF TypeOK
    <3> QED
      BY <1>5, <3>1
  <2>5. /\ sample_width' \in Widths
        /\ smpl_used' \in 0 .. MaxSmpls /\ smpl_cnt' \in 0 .. MaxSmpls
        /\ smpl_used_reg' \in 0 .. MaxSmpls
        /\ smpl_buff_rdy' \in BOOLEAN /\ pct_buff_rdy' \in BOOLEAN
        /\ pct_buff_wr' \in BOOLEAN /\ smpl_rd_done' \in BOOLEAN
        /\ rd_state' \in {"idle", "check_pct_buff", "rd_smpl_buff", "wait_data2packets_done"}
        /\ d2p_done' \in BOOLEAN /\ data_in_valid' \in BOOLEAN
        /\ nr_pipe' \in [1 .. 7 -> 0 .. MaxSmpls] /\ pk_state' \in {"idle", "s0", "s1", "s2"}
        /\ pct_end_cnt' \in 0 .. 255 /\ pct_wrreq' \in BOOLEAN /\ wr_reg' \in BOOLEAN
    BY <1>1 DEF TypeOK
  <2>6. TypeOK'
    BY <2>1, <2>3, <2>4, <2>5 DEF TypeOK, T, Lat
  <2> QED
    BY <2>2, <2>6
<1>8. CASE Quiet
  <2>1. wrusedw + PctSize < BuffWords => wrusedw' + PctSize < BuffWords
    <3>1. \A a, b, p, c \in Nat : b <= a => (a + p < c => b + p < c)
      OBVIOUS
    <3> QED
      BY <1>3, <1>4, <3>1
  <2>2. Quiet'
    BY <1>5, <1>8, <2>1 DEF Quiet
  <2> QED
    BY <1>7, <2>2 DEF IInv
<1>9. CASE \E u \in 0 .. Last, n, x \in 0 .. MaxSmpls : Busy(u, n, x)
  <2>1. PICK u \in 0 .. Last, n \in 0 .. MaxSmpls, x \in 0 .. MaxSmpls : Busy(u, n, x)
    BY <1>9
  <2>2. Reader(u, n)' /\ Level(u)'
    BY <1>5, <2>1 DEF Busy, Reader, Level
  <2>3. Numbers(u, n)' /\ Packer(u, n)'
    BY <1>5, <1>6, <2>1 DEF Busy, Numbers, Packer
  <2>4. Framer(u)' /\ Registers(u, n, x)'
    BY <1>5, <1>6, <2>1 DEF Busy, Framer, Registers
  <2>5. Host(u, n, x)'
    <3>1. Host(u, n, x)
      BY <2>1 DEF Busy
    <3>2. Shifted(u - 2) \in Nat
      BY <1>2, <1>3, ThreeShifts
    <3>3. pct_buff_wr => wrusedw' + PctSize - Shifted(u - 2) < BuffWords
      <4>1. pct_buff_wr => wrusedw + PctSize - Shifted(u - 2) < BuffWords
        BY <3>1 DEF Host
      <4> QED
        BY <1>3, <1>4, <3>2, <4>1
    <3> QED
      BY <1>5, <1>6, <3>1, <3>3 DEF Host
  <2>6. Busy(u, n, x)'
    BY <2>1, <2>2, <2>3, <2>4, <2>5 DEF Busy
  <2>7. u \in 0 .. Last'
    BY <1>5
  <2> QED
    BY <1>7, <2>6, <2>7 DEF IInv
<1> QED
  BY <1>8, <1>9 DEF IInv

\* Every step keeps the invariant, the stuttering step included.
LEMMA NextInv == IInv /\ [Next]_vars => IInv'
<1> SUFFICES ASSUME IInv, [Next]_vars PROVE IInv'
  OBVIOUS
<1>1. CASE Tick
  BY <1>1, TickInv
<1>2. wrusedw \in Nat
  <2>1. sample_width \in Widths
    BY DEF IInv, TypeOK
  <2> QED
    BY <2>1, Sizes DEF IInv, TypeOK
<1>3. CASE HostReads
  <2>1. wrusedw' \in 0 .. wrusedw
    BY <1>2, <1>3 DEF HostReads
  <2> QED
    BY <1>3, <2>1, RoomInv DEF HostReads
<1>4. CASE UNCHANGED vars
  <2>1. wrusedw' \in 0 .. wrusedw
    BY <1>2, <1>4 DEF vars
  <2> QED
    BY <1>4, <2>1, RoomInv DEF vars
<1> QED
  BY <1>1, <1>3, <1>4 DEF Next

-----------------------------------------------------------------------------
(* The theorems.                                                           *)

\* In every state the path is quiet or in a cycle of exactly one burst, and
\* every register holds what the schedule says of that cycle.
THEOREM RxInductive == Spec => []IInv
BY InitInv, NextInv, PTL DEF Spec

\* The first sample of a packet can be told from its first payload word.
LEMMA FirstOfPacket ==
  ASSUME sample_width \in Widths, NEW n \in 0 .. MaxSmpls
  PROVE  FirstSample(PayloadWord(n, 1)) = n
<1>1. n \in Int
  BY MaxSmplsAssumption
<1>2. RdSize \in Nat /\ N \in Nat /\ T \in {1, 4, 8} /\ RdSize > 2
  BY Sizes
<1>3. CASE T = 1
  <2>1. 0 \in 0 .. RdSize - 1
    BY <1>2
  <2>2. IsWord(0) /\ Words(0) = 0
    <3>1. 0 \div 1 = 0 /\ 0 % 1 = 0
      OBVIOUS
    <3>2. G \in Int
      BY WidthCases
    <3> QED
      BY <1>3, <2>1, <3>1, <3>2 DEF IsWord, Words
  <2>3. PayloadWord(n, 1) = Data(n + 0)
    <3>1. PayloadWord(n, Words(0) + 1) = Data(n + 0)
      BY <1>1, <2>1, <2>2, WordCount
    <3>2. Words(0) + 1 = 1
      BY <2>2
    <3> QED
      BY <3>1, <3>2
  <2> QED
    BY <1>1, <1>3, <2>3 DEF FirstSample, Data, T
<1>4. CASE T # 1
  <2>1. 1 \in 0 .. RdSize - 1
    BY <1>2
  <2>2. IsWord(1) /\ Words(1) = 0
    <3>1. 1 \div T = 0 /\ 1 % T = 1
      <4>1. CASE T = 4
        BY <4>1
      <4>2. CASE T = 8
        BY <4>2
      <4> QED
        BY <1>2, <1>4, <4>1, <4>2
    <3>2. G \in Int
      BY WidthCases
    <3> QED
      BY <1>4, <2>1, <3>1, <3>2 DEF IsWord, Words
  <2>3. PayloadWord(n, 1) = Data(n + 1)
    <3>1. PayloadWord(n, Words(1) + 1) = Data(n + 1)
      BY <1>1, <2>1, <2>2, WordCount
    <3>2. Words(1) + 1 = 1
      BY <2>2
    <3> QED
      BY <3>1, <3>2
  <2> QED
    BY <1>1, <1>4, <2>3 DEF FirstSample, Data, T
<1> QED
  BY <1>3, <1>4

\* What the host has got of a packet.
LEMMA PacketSoFar ==
  ASSUME TypeOK, NEW u \in 0 .. Last, NEW n \in 0 .. MaxSmpls, NEW x \in 0 .. MaxSmpls,
         Busy(u, n, x)
  PROVE  /\ wr_reg => wrdata_reg = PacketWord(n, x, Len(pct) + 1)
         /\ Len(pct) \in 0 .. N + 1
         /\ Len(pct) > 2 => pct[2] = Hdr1(x) /\ FirstSample(pct[3]) = n
         /\ sample_width # 14 => x = n
<1>1. sample_width \in Widths
  BY DEF TypeOK
<1>2. N \in Nat /\ Last \in Nat
  BY <1>1, Sizes
<1>3. /\ Host(u, n, x)
      /\ sample_width # 14 => x = n
  BY DEF Busy
<1>4. /\ Shifted(u - 1) = Shifted(u - 2) \/ Shifted(u - 1) = Shifted(u - 2) + 1
      /\ Shifted(u - 2) \in 0 .. N + 1
  <2>1. u < Last \/ u = Last
    BY <1>2
  <2> QED
    BY <1>1, <1>2, <2>1, ThreeShifts
<1>5. CASE pct_buff_wr
  <2>1. /\ Len(pct) = Shifted(u - 2)
        /\ Len(pct) >= 2 => pct[2] = Hdr1(x)
        /\ Len(pct) >= 3 => pct[3] = PayloadWord(n, 1)
    BY <1>3, <1>5 DEF Host
  <2>2. wr_reg => wrdata_reg = PacketWord(n, x, Shifted(u - 2) + 1)
    BY <1>3, <1>4, <1>5 DEF Host
  <2>3. Len(pct) > 2 => Len(pct) >= 2 /\ Len(pct) >= 3
    BY <1>2, <1>4, <2>1
  <2> QED
    BY <1>1, <1>3, <1>4, <2>1, <2>2, <2>3, FirstOfPacket DEF Busy
<1>6. CASE ~pct_buff_wr
  <2>1. ~wr_reg /\ Len(pct) = 0
    BY <1>3, <1>6 DEF Host
  <2> QED
    BY <1>2, <2>1 DEF Busy
<1> QED
  BY <1>5, <1>6

\* The words the host gets are whole packets: two header words and the samples
\* of one burst, in order.
THEOREM PacketsIntact == Spec => []PacketIntact
<1>1. IInv => PacketIntact
  <2> SUFFICES ASSUME IInv PROVE PacketIntact
    OBVIOUS
  <2>1. TypeOK
    BY DEF IInv
  <2>2. CASE Quiet
    BY <2>2 DEF Quiet, PacketIntact
  <2>3. CASE \E u \in 0 .. Last, n, x \in 0 .. MaxSmpls : Busy(u, n, x)
    <3>1. PICK u \in 0 .. Last, n \in 0 .. MaxSmpls, x \in 0 .. MaxSmpls : Busy(u, n, x)
      BY <2>3
    <3>2. /\ wr_reg => wrdata_reg = PacketWord(n, x, Len(pct) + 1)
          /\ Len(pct) \in Nat
          /\ Len(pct) > 2 => FirstSample(pct[3]) = n
      <4>1. N \in Nat
        BY <2>1, Sizes DEF TypeOK
      <4> QED
        BY <2>1, <3>1, <4>1, PacketSoFar
    <3>3. wr_reg /\ Len(pct) = 0 => wrdata_reg = Hdr0
      BY <3>2 DEF PacketWord
    <3>4. wr_reg /\ Len(pct) = 1 => wrdata_reg = Hdr1(x)
      BY <3>2 DEF PacketWord
    <3>5. wr_reg /\ Len(pct) >= 2 => wrdata_reg = PayloadWord(n, Len(pct) - 1)
      <4> DEFINE l == Len(pct)
      <4>1. l >= 2 => l + 1 # 1 /\ l + 1 # 2 /\ l + 1 - 2 = l - 1
        BY <3>2
      <4> QED
        BY <3>2, <4>1 DEF PacketWord
    <3>6. Hdr1(x)[1] = "hdr_1" /\ \A j : PayloadWord(n, j)[1] = "data"
      BY DEF Hdr1, PayloadWord, Data
    <3>7. wr_reg /\ Len(pct) = 2 => wrdata_reg[1] = "data"
      BY <3>5, <3>6
    <3>8. wr_reg /\ Len(pct) > 2 =>
            wrdata_reg = PayloadWord(FirstSample(pct[3]), Len(pct) - 1)
      BY <3>2, <3>5
    <3> QED
      BY <3>3, <3>4, <3>6, <3>7, <3>8 DEF PacketIntact
  <2> QED
    BY <2>2, <2>3 DEF IInv
<1> QED
  BY <1>1, RxInductive, PTL

\* A packet that the reader decided to write always finds the room it saw.
THEOREM NoRxOverflow == Spec => []NoOverflow
<1>1. IInv => NoOverflow
  <2> SUFFICES ASSUME IInv PROVE NoOverflow
    OBVIOUS
  <2>1. TypeOK
    BY DEF IInv
  <2>2. CASE Quiet
    BY <2>1, <2>2 DEF Quiet, NoOverflow
  <2>3. CASE \E u \in 0 .. Last, n, x \in 0 .. MaxSmpls : Busy(u, n, x)
    BY <2>1, <2>3, BusyBounds DEF NoOverflow
  <2> QED
    BY <2>2, <2>3 DEF IInv
<1> QED
  BY <1>1, RxInductive, PTL

\* With 12 and 16 bits the header has the number of the first sample.
THEOREM NumberOfFirstSample == Spec => []SampleNumber12or16
<1>1. IInv => SampleNumber12or16
  <2> SUFFICES ASSUME IInv, sample_width # 14, Len(pct) > 2
               PROVE  pct[2] = Hdr1(FirstSample(pct[3]))
    BY DEF SampleNumber12or16, SampleNumber
  <2>1. TypeOK
    BY DEF IInv
  <2>2. CASE Quiet
    <3>1. Len(pct) = 0
      BY <2>2, EmptySeq DEF Quiet
    <3> QED
      BY <3>1
  <2>3. CASE \E u \in 0 .. Last, n, x \in 0 .. MaxSmpls : Busy(u, n, x)
    BY <2>1, <2>3, PacketSoFar
  <2> QED
    BY <2>2, <2>3 DEF IInv
<1> QED
  BY <1>1, RxInductive, PTL
=============================================================================
