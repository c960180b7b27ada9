----------------------------- MODULE LossProofs -----------------------------
(***************************************************************************)
(* No false report of a loss, and none wiped out but a fresh one, for      *)
(* every length of a packet from eight cycles.                             *)
(*                                                                         *)
(* The argument is about time.  `Since' counts the edges of rx_clk since   *)
(* the header of the packet being formed, and a register that samples the  *)
(* other clock domain holds what was there between one and two edges ago,  *)
(* seen from `ahead'.  So the clear of a header is on its way for four     *)
(* edges at most, in which no other header starts.                         *)
(***************************************************************************)
EXTENDS LossReport, TLAPS

Since == PctTicks - left

\* Neither path has started before both are out of reset.
ResetInv ==
    /\ reset_rx > 0 => left = 0
    /\ reset_tx > 0 =>
         /\ left = 0 /\ ~cap[1] /\ ~cap[2] /\ ~cap_reg /\ ~pct_hdr_cap
         /\ ~loss[1] /\ ~loss[2] /\ ~pct_loss_flg /\ ~owed
         /\ ahead = IF reset_rx > 0 THEN (1 + reset_rx) - reset_tx ELSE 0
    /\ reset_tx > 1 => reset_rx > 0

\* The captured header on its way to tx_clk: where it must have arrived, and
\* where it cannot have.
CaptureInv ==
    /\ pct_hdr_cap <=> left >= 4 /\ Since >= 1
    /\ left >= 4 => /\ Since + ahead >= 3 => cap[1]
                    /\ Since + ahead >= 4 => cap[2]
                    /\ Since + ahead >= 5 => cap_reg
    /\ left > 0 => /\ Since + ahead <= 1 => ~cap[1]
                   /\ Since + ahead <= 2 => ~cap[2]
                   /\ Since + ahead <= 3 => ~cap_reg
    /\ left <= ahead + 1 => ~cap[1]
    /\ left <= ahead     => ~cap[2]
    /\ left + 1 <= ahead => ~cap_reg
    /\ left <= 3 => (cap[1] => cap[2]) /\ (cap[2] => cap_reg)

\* A loss that is owed is in the first register, in the second, or flagged, and
\* after a few edges more it is on rx_clk.
OwedInv ==
    owed => /\ age = 0 => data_clr /\ ~clr_flag
            /\ age = 1 => SetsFlag
            /\ age >= 2 => pct_loss_flg
            /\ age >= 2 + ahead => loss[1]
            /\ age >= 3 + ahead => loss[2]

\* A loss that is reported, and not yet cleared, is cleared after it has been
\* flagged, and soon.
ReportedInv ==
    ~owed /\ reset_tx = 0 =>
        /\ data_clr /\ ~clr_flag => left > 0 /\ ~cap[1] /\ Since + ahead <= 2
        /\ SetsFlag              => left > 0 /\ ~cap[2] /\ Since + ahead <= 3
        /\ pct_loss_flg          => left > 0 /\ ~cap_reg /\ Since + ahead <= 4
        /\ loss[1]               => left > 0 /\ Since <= 4
        /\ loss[2]               => left > 0 /\ Since <= 5

\* The header of the packet was too early for a loss that it does not report.
FreshInv ==
    left > 0 /\ owed /\ ~hidden => age <= 3 + ahead + Since

IInv == TypeOK /\ ResetInv /\ CaptureInv /\ OwedInv /\ ReportedInv /\ FreshInv

-----------------------------------------------------------------------------
\* Out of reset nothing is owed and no packet is under way.
LEMMA LossInit ==
  ASSUME Init
  PROVE  IInv
<1> USE LossReportAssumption DEF Init, Bits, RegAfterReset
<1>1. TypeOK
  <2>1. <<FALSE, FALSE>> \in BOOLEAN \X BOOLEAN
    OBVIOUS
  <2>2. cap \in BOOLEAN \X BOOLEAN /\ loss \in BOOLEAN \X BOOLEAN
    BY <2>1
  <2>3. left \in 0 .. PctTicks /\ age \in 0 .. MaxAge /\ {reset_tx, reset_rx, ahead} \subseteq 0 .. 2
    BY DEF MaxAge
  <2>4. {data_clr, clr_flag, clr_flag_reg, pct_loss_flg, cap_reg,
         pct_hdr_cap, owed, hidden} \subseteq BOOLEAN
    OBVIOUS
  <2> QED BY <2>2, <2>3, <2>4 DEF TypeOK
<1>2. ResetInv /\ CaptureInv
  BY DEF ResetInv, CaptureInv, Since
<1>3. OwedInv /\ ReportedInv /\ FreshInv
  BY DEF OwedInv, ReportedInv, FreshInv
<1> QED BY <1>1, <1>2, <1>3 DEF IInv

\* The numbers and the bits.
LEMMA Types ==
  ASSUME TypeOK
  PROVE  /\ reset_tx \in 0 .. 2 /\ reset_rx \in 0 .. 2 /\ ahead \in 0 .. 2
         /\ left \in Nat /\ left <= PctTicks /\ Since \in Nat /\ Since + left = PctTicks
         /\ age \in Nat /\ PctTicks \in Nat /\ PctTicks > 7
         /\ cap \in BOOLEAN \X BOOLEAN /\ loss \in BOOLEAN \X BOOLEAN
         /\ data_clr \in BOOLEAN /\ clr_flag \in BOOLEAN /\ clr_flag_reg \in BOOLEAN
         /\ pct_loss_flg \in BOOLEAN /\ cap_reg \in BOOLEAN /\ pct_hdr_cap \in BOOLEAN
         /\ owed \in BOOLEAN /\ hidden \in BOOLEAN
BY LossReportAssumption DEF TypeOK, Since

\* What an edge of tx_clk does.
LEMMA TxEffect ==
  ASSUME TypeOK, TxEdge
  PROVE  /\ ahead < 2 /\ ahead' = ahead + 1
         /\ UNCHANGED <<reset_rx, loss, left, pct_hdr_cap, Since>>
         /\ reset_tx' = IF reset_tx > 0 THEN reset_tx - 1 ELSE 0
         /\ clr_flag' = data_clr
         /\ cap'[1] = pct_hdr_cap /\ cap'[2] = cap[1]
         /\ reset_tx > 0 => ~pct_loss_flg' /\ clr_flag_reg' /\ ~cap_reg'
         /\ reset_tx = 0 => /\ pct_loss_flg' <=> FlagAfter
                           /\ clr_flag_reg' = clr_flag /\ cap_reg' = cap[2]
BY Types DEF TxEdge, LossFlag, Shift, RegAfterReset, Since

\* What an edge of rx_clk does.
LEMMA RxEffect ==
  ASSUME TypeOK, RxEdge
  PROVE  /\ ahead > 0 /\ ahead' = ahead - 1
         /\ UNCHANGED <<reset_tx, data_clr, clr_flag, clr_flag_reg, pct_loss_flg, cap,
                        cap_reg, age>>
         /\ reset_rx' = IF reset_rx > 0 THEN reset_rx - 1 ELSE 0
         /\ loss'[1] = pct_loss_flg /\ loss'[2] = loss[1]
         /\ pct_hdr_cap' <=> left > 4
         /\ \/ /\ left' = IF left > 0 THEN left - 1 ELSE 0
               /\ UNCHANGED <<owed, hidden>>
            \/ /\ reset_rx = 0 /\ left = 0 /\ left' = PctTicks
               /\ IF loss[2] THEN (~owed' /\ ~hidden') \/ ((hidden' <=> owed) /\ (owed' <=> owed))
                             ELSE UNCHANGED <<owed, hidden>>
         /\ Since' = PctTicks - left'
<1>1. /\ ahead > 0 /\ ahead' = ahead - 1
      /\ UNCHANGED <<reset_tx, data_clr, clr_flag, clr_flag_reg, pct_loss_flg, cap,
                     cap_reg, age>>
      /\ reset_rx' = IF reset_rx > 0 THEN reset_rx - 1 ELSE 0
      /\ loss'[1] = pct_loss_flg /\ loss'[2] = loss[1]
      /\ pct_hdr_cap' <=> left > 4
  BY Types DEF RxEdge, GoOn, StartPct, Shift, InPct
<1>2. CASE GoOn
  BY <1>1, <1>2 DEF GoOn, Since
<1>3. CASE reset_rx = 0 /\ StartPct
  <2>1. /\ reset_rx = 0 /\ left = 0 /\ left' = PctTicks
        /\ IF loss[2] THEN (~owed' /\ ~hidden') \/ ((hidden' <=> owed) /\ (owed' <=> owed))
                      ELSE UNCHANGED <<owed, hidden>>
    BY <1>3, Types DEF StartPct, HeaderBit
  <2> QED BY <1>1, <2>1 DEF Since
<1> QED BY <1>2, <1>3 DEF RxEdge

\* An edge of either clock keeps the registers in their types.
LEMMA TypesNext ==
  ASSUME TypeOK, Next
  PROVE  TypeOK'
<1>1. CASE TxEdge
  <2>1. reset_tx' \in 0 .. 2 /\ ahead' \in 0 .. 2 /\ reset_rx' \in 0 .. 2 /\ left' \in 0 .. PctTicks
    BY <1>1, Types, TxEffect
  <2>2. cap' = <<pct_hdr_cap, cap[1]>> /\ cap[1] \in BOOLEAN /\ cap[2] \in BOOLEAN
    BY <1>1, Types DEF TxEdge, Shift
  <2>3. cap' \in BOOLEAN \X BOOLEAN /\ loss' \in BOOLEAN \X BOOLEAN
    BY <1>1, <2>2, Types, TxEffect
  <2>4. clr_flag' \in BOOLEAN /\ data_clr' \in BOOLEAN /\ pct_hdr_cap' \in BOOLEAN
    BY <1>1, Types DEF TxEdge, Thrown
  <2>5. /\ pct_loss_flg' \in BOOLEAN /\ clr_flag_reg' \in BOOLEAN
        /\ cap_reg' \in BOOLEAN
    BY <1>1, <2>2, Types DEF TxEdge, LossFlag, FlagAfter, RegAfterReset
  <2>6. owed' \in BOOLEAN /\ hidden' \in BOOLEAN
    BY <1>1, Types DEF TxEdge, Thrown
  <2>7. age' \in 0 .. MaxAge
    BY <1>1, LossReportAssumption DEF TypeOK, TxEdge, Thrown, MaxAge
  <2> QED BY <2>1, <2>3, <2>4, <2>5, <2>6, <2>7 DEF TypeOK
<1>2. CASE RxEdge
  <2>1. reset_tx' \in 0 .. 2 /\ ahead' \in 0 .. 2 /\ reset_rx' \in 0 .. 2 /\ left' \in 0 .. PctTicks
    BY <1>2, Types, RxEffect
  <2>2. loss' = <<pct_loss_flg, loss[1]>> /\ loss[1] \in BOOLEAN
    BY <1>2, Types DEF RxEdge, Shift
  <2>3. cap' \in BOOLEAN \X BOOLEAN /\ loss' \in BOOLEAN \X BOOLEAN
    BY <1>2, <2>2, Types, RxEffect
  <2>4. /\ clr_flag' \in BOOLEAN /\ data_clr' \in BOOLEAN /\ pct_loss_flg' \in BOOLEAN
        /\ clr_flag_reg' \in BOOLEAN /\ cap_reg' \in BOOLEAN
    BY <1>2, Types, RxEffect
  <2>5. pct_hdr_cap' \in BOOLEAN
    BY <1>2 DEF RxEdge, InPct
  <2>6. owed' \in BOOLEAN /\ hidden' \in BOOLEAN
    BY <1>2, Types DEF RxEdge, GoOn, StartPct
  <2>7. age' \in 0 .. MaxAge
    BY <1>2, RxEffect DEF TypeOK
  <2> QED BY <2>1, <2>3, <2>4, <2>5, <2>6, <2>7 DEF TypeOK
<1> QED BY <1>1, <1>2 DEF Next

\* An edge keeps what is known while a reset is held.
LEMMA ResetNext ==
  ASSUME IInv, Next
  PROVE  ResetInv'
<1> USE DEF IInv
<1>1. CASE TxEdge
  <2>1. reset_tx > 0 => ~owed'
    BY <1>1, Types DEF TxEdge, Thrown, Erased, ResetInv
  <2> QED BY <1>1, <2>1, Types, TxEffect DEF ResetInv
<1>2. CASE RxEdge
  BY <1>2, Types, RxEffect DEF ResetInv
<1> QED BY <1>1, <1>2 DEF Next

\* An edge keeps the capture of the flag in step with its synchroniser.
LEMMA CaptureNext ==
  ASSUME IInv, Next
  PROVE  CaptureInv'
<1> USE DEF IInv
<1>1. CASE TxEdge
  <2>1. CASE reset_tx = 0
    BY <1>1, <2>1, Types, TxEffect DEF CaptureInv
  <2>2. CASE reset_tx > 0
    BY <1>1, <2>2, Types, TxEffect DEF CaptureInv, ResetInv
  <2> QED BY <2>1, <2>2, Types
<1>2. CASE RxEdge
  BY <1>2, Types, RxEffect DEF CaptureInv
<1> QED BY <1>1, <1>2 DEF Next

\* What an edge of tx_clk does to the losses: `new' is thrown away on it, and
\* `coming' has not yet reached the edge detector.
LEMMA ThrownEffect ==
  ASSUME TypeOK, TxEdge,
         NEW new, new = (data_clr' /\ ~data_clr /\ reset_tx = 0),
         NEW coming, coming = (data_clr /\ ~clr_flag)
  PROVE  /\ reset_tx = 1 => ~data_clr'
         /\ Erased  => /\ owed' <=> (new \/ (owed /\ coming))
                       /\ ~hidden' /\ age' = IF coming THEN 1 ELSE 0
         /\ ~Erased => /\ owed' <=> (owed \/ new)
                       /\ hidden' = hidden
                       /\ ~owed => age' = 0
                       /\ owed => \/ age < MaxAge /\ age' = age + 1
                                  \/ age = MaxAge /\ age' = age
<1>1. reset_tx = 1 => ~data_clr'
  BY DEF TxEdge, Thrown
<1>2. ASSUME Erased
      PROVE  /\ owed' <=> (new \/ (owed /\ coming))
             /\ ~hidden' /\ age' = IF coming THEN 1 ELSE 0
  BY <1>2, Types DEF TxEdge, Thrown
<1>3. ASSUME ~Erased
      PROVE  /\ owed' <=> (owed \/ new)
             /\ hidden' = hidden
             /\ ~owed => age' = 0
             /\ owed => \/ age < MaxAge /\ age' = age + 1
                        \/ age = MaxAge /\ age' = age
  <2>1. age <= MaxAge
    BY LossReportAssumption DEF TypeOK, MaxAge
  <2> QED BY <1>3, <2>1, Types, LossReportAssumption DEF TxEdge, Thrown, MaxAge
<1> QED BY <1>1, <1>2, <1>3

\* A clear on tx_clk is that of the header of the packet being formed, and the
\* header is recent.
LEMMA ClearIsRecent ==
  ASSUME TypeOK, CaptureInv, Clears
  PROVE  left >= 4 /\ Since + ahead <= 4
BY Types DEF CaptureInv, Clears

\* A loss that is owed goes its way to the header.
LEMMA OwedNext ==
  ASSUME IInv, Next
  PROVE  OwedInv'
<1> USE DEF IInv
<1>1. CASE TxEdge
  <2> DEFINE new == data_clr' /\ ~data_clr /\ reset_tx = 0
             coming == data_clr /\ ~clr_flag
  <2>1. TxEdge /\ TypeOK
    BY <1>1
  <2>2. /\ Erased  => /\ owed' <=> (new \/ (owed /\ coming))
                      /\ ~hidden' /\ age' = IF coming THEN 1 ELSE 0
        /\ ~Erased => /\ owed' <=> (owed \/ new)
                      /\ hidden' = hidden
                      /\ ~owed => age' = 0
                      /\ owed => \/ age < MaxAge /\ age' = age + 1
                                 \/ age = MaxAge /\ age' = age
    BY <2>1, ThrownEffect
  <2>3. SUFFICES ASSUME owed'
                 PROVE  OwedInv'
    BY DEF OwedInv
  <2>4. reset_tx = 0
    BY <2>2, <2>3, Types DEF ResetInv, Erased
  <2>5. CASE Erased
    BY <2>1, <2>2, <2>3, <2>4, <2>5, Types, TxEffect DEF OwedInv, SetsFlag
  <2>6. CASE ~Erased /\ ~owed
    BY <2>1, <2>2, <2>3, <2>4, <2>6, Types, TxEffect DEF OwedInv, SetsFlag
  <2>7. CASE ~Erased /\ owed
    <3>1. age = MaxAge => age > 7
      BY LossReportAssumption DEF MaxAge
    <3>2. /\ age = 0 => data_clr /\ ~clr_flag
          /\ age = 1 => SetsFlag
          /\ age >= 2 => pct_loss_flg
          /\ age >= 2 + ahead => loss[1]
          /\ age >= 3 + ahead => loss[2]
      BY <2>7 DEF OwedInv
    <3>3. age >= 2 => pct_loss_flg'
      BY <2>1, <2>4, <2>7, <3>2, Types, TxEffect DEF FlagAfter, Erased
    <3>4. age = 1 => pct_loss_flg'
      BY <2>1, <2>4, <3>2, TxEffect DEF FlagAfter
    <3>5. age = 0 => SetsFlag'
      BY <2>1, <2>4, <3>2, TxEffect DEF SetsFlag
    <3> QED BY <2>1, <2>2, <2>7, <3>1, <3>2, <3>3, <3>4, <3>5, Types, TxEffect DEF OwedInv
  <2> QED BY <2>5, <2>6, <2>7
<1>2. CASE RxEdge
  <2>1. owed' => owed
    BY <1>2, RxEffect
  <2> QED BY <1>2, <2>1, Types, RxEffect DEF OwedInv, SetsFlag
<1> QED BY <1>1, <1>2 DEF Next

\* A loss that is reported is cleared before the next header.
LEMMA ReportedNext ==
  ASSUME IInv, Next
  PROVE  ReportedInv'
<1> USE DEF IInv
<1>1. CASE TxEdge
  <2> DEFINE new == data_clr' /\ ~data_clr /\ reset_tx = 0
             coming == data_clr /\ ~clr_flag
  <2>1. TxEdge /\ TypeOK
    BY <1>1
  <2>2. /\ reset_tx = 1 => ~data_clr'
        /\ Erased  => (owed' <=> (new \/ (owed /\ coming)))
        /\ ~Erased => (owed' <=> (owed \/ new))
    BY <2>1, ThrownEffect
  <2>3. SUFFICES ASSUME ~owed', reset_tx' = 0
                 PROVE  ReportedInv'
    BY DEF ReportedInv
  <2>4. CASE reset_tx > 0
    <3>1. reset_tx = 1
      BY <2>1, <2>3, <2>4, Types, TxEffect
    <3> QED BY <2>1, <2>2, <2>4, <3>1, TxEffect DEF ReportedInv, SetsFlag, ResetInv
  <2>5. CASE reset_tx = 0
    <3>1. ~(data_clr' /\ ~clr_flag')
      BY <2>1, <2>2, <2>3, <2>5, TxEffect
    <3>2. CASE Erased
      <4>1. left >= 4 /\ Since + ahead <= 4
        BY <3>2, ClearIsRecent DEF Erased
      <4>2. ~pct_loss_flg'
        BY <2>1, <2>5, <3>2, TxEffect DEF Erased, FlagAfter
      <4>3. SetsFlag' => ~owed /\ coming
        BY <2>1, <2>2, <2>3, <2>5, <3>2, TxEffect DEF SetsFlag
      <4>4. SetsFlag' => left > 0 /\ ~cap[1] /\ Since + ahead <= 2
        BY <4>3, <2>5 DEF ReportedInv
      <4> QED BY <2>1, <3>1, <4>1, <4>2, <4>4, Types, TxEffect DEF ReportedInv
    <3>3. CASE ~Erased
      <4>1. ~owed
        BY <2>2, <2>3, <3>3
      <4>2. SetsFlag' => coming
        BY <2>1, <2>5, TxEffect DEF SetsFlag
      <4>3. SetsFlag' => left > 0 /\ ~cap[1] /\ Since + ahead <= 2
        BY <4>1, <4>2, <2>5 DEF ReportedInv
      <4>4. SetsFlag => left > 0 /\ ~cap[2] /\ Since + ahead <= 3
        BY <4>1, <2>5 DEF ReportedInv
      <4>5. pct_loss_flg /\ ~Clears => left > 0 /\ ~cap[2] /\ Since + ahead <= 3
        BY <4>1, <2>5, Types DEF ReportedInv, Clears, CaptureInv
      <4>6. pct_loss_flg' => left > 0 /\ ~cap[2] /\ Since + ahead <= 3
        BY <2>1, <2>5, <4>4, <4>5, TxEffect DEF FlagAfter
      <4> QED BY <2>1, <2>5, <3>1, <4>1, <4>3, <4>6, Types, TxEffect DEF ReportedInv
    <3> QED BY <3>2, <3>3
  <2> QED BY <2>4, <2>5, Types
<1>2. CASE RxEdge
  <2>1. SUFFICES ASSUME ~owed', reset_tx' = 0
                 PROVE  ReportedInv'
    BY DEF ReportedInv
  <2>2. SetsFlag' = SetsFlag /\ reset_tx = 0
    BY <1>2, <2>1, RxEffect DEF SetsFlag
  <2>3. CASE left' = IF left > 0 THEN left - 1 ELSE 0
    BY <1>2, <2>1, <2>2, <2>3, Types, RxEffect, LossReportAssumption DEF ReportedInv
  <2>4. CASE left = 0 /\ left' = PctTicks
    BY <1>2, <2>1, <2>2, <2>4, Types, RxEffect DEF ReportedInv, CaptureInv
  <2> QED BY <1>2, <2>3, <2>4, RxEffect
<1> QED BY <1>1, <1>2 DEF Next

\* A loss that no header reports was too late for the last one.
LEMMA FreshNext ==
  ASSUME IInv, Next
  PROVE  FreshInv'
<1> USE DEF IInv
<1>0. /\ age \in Nat /\ age' \in Nat /\ ahead \in Nat /\ ahead' \in Nat
      /\ Since \in Nat /\ Since' \in Nat
      /\ left \in Nat /\ left' \in Nat
  BY TypesNext, Types, LossReportAssumption DEF TypeOK, MaxAge, Since
<1>1. CASE TxEdge
  <2>1. age' <= 1 \/ (owed /\ hidden' = hidden /\ age' <= age + 1)
    BY <1>1, Types, ThrownEffect
  <2>2. Since' = Since /\ left' = left /\ ahead' = ahead + 1
    BY <1>1, TxEffect
  <2>3. CASE age' <= 1
    BY <1>0, <2>2, <2>3 DEF FreshInv
  <2>4. CASE owed /\ hidden' = hidden /\ age' <= age + 1
    BY <1>0, <2>2, <2>4 DEF FreshInv
  <2> QED BY <2>1, <2>3, <2>4
<1>2. CASE RxEdge
  <2>1. age' = age /\ ahead' = ahead - 1 /\ ahead > 0
    BY <1>2, RxEffect
  <2>2. CASE left' = IF left > 0 THEN left - 1 ELSE 0
    <3>1. left > 0 => Since' = Since + 1
      BY <1>2, <2>2, Types, RxEffect
    <3>2. left > 0 => (owed' <=> owed) /\ (hidden' <=> hidden)
      BY <1>0, <1>2, <2>2, RxEffect DEF IInv
    <3>3. left' > 0 => left > 0
      BY <1>0, <2>2
    <3>4. left' > 0 /\ owed' /\ ~hidden' => left > 0 /\ owed /\ ~hidden
      BY <1>0, <3>2, <3>3
    <3> QED BY <1>0, <2>1, <3>1, <3>4 DEF FreshInv
  <2>3. CASE left = 0 /\ left' = PctTicks
    <3>1. IF loss[2] THEN (~owed' /\ ~hidden') \/ ((hidden' <=> owed) /\ (owed' <=> owed))
                     ELSE UNCHANGED <<owed, hidden>>
      BY <1>2, <2>3, Types, RxEffect
    <3>2. CASE loss[2]
      <4>1. owed' => hidden'
        BY <3>1, <3>2
      <4> QED BY <4>1 DEF FreshInv
    <3>3. CASE ~loss[2]
      <4>1. owed' => owed
        BY <3>1, <3>3
      <4>2. owed' => age < 3 + ahead
        BY <1>0, <3>3, <4>1 DEF OwedInv
      <4>3. owed' => age' <= 3 + ahead' + Since'
        <5>1. ASSUME age < 3 + ahead
              PROVE  age' <= 3 + ahead' + Since'
          <6> DEFINE s == Since'
          <6>1. s \in Nat
            BY <1>0
          <6> HIDE DEF s
          <6>2. age <= 2 + ahead
            BY <1>0, <5>1
          <6>3. age' <= 3 + ahead' + s
            BY <1>0, <2>1, <6>1, <6>2
          <6> QED BY <6>3 DEF s
        <5> QED BY <4>2, <5>1
      <4> QED BY <4>3 DEF FreshInv
    <3> QED BY <3>2, <3>3
  <2> QED BY <1>2, <2>2, <2>3, RxEffect
<1> QED BY <1>1, <1>2 DEF Next

\* The invariant is inductive, and a stuttering step keeps it.
LEMMA LossNext ==
  ASSUME IInv, [Next]_vars
  PROVE  IInv'
<1>1. CASE Next
  BY <1>1, TypesNext, ResetNext, CaptureNext, OwedNext, ReportedNext, FreshNext DEF IInv
<1>2. CASE UNCHANGED vars
  BY <1>2 DEF vars, IInv, TypeOK, ResetInv, CaptureInv, OwedInv, ReportedInv, FreshInv,
              Since, SetsFlag
<1> QED BY <1>1, <1>2

-----------------------------------------------------------------------------
\* The two paths and the synchronisers between them are in the states the
\* argument about time allows.
THEOREM LossInductive == Spec => []IInv
BY LossInit, LossNext, PTL DEF Spec

\* A clear can wipe out unreported only a loss of the last few cycles, one its
\* header was too early to see, or one of a discarded header: all that tx_path_top
\* promises of pct_loss_flg, for packets of any length from eight cycles.
THEOREM OnlyFreshIsLost == Spec => []OnlyFreshLost
<1>1. ASSUME IInv
      PROVE  OnlyFreshLost
  <2>1. ASSUME Erased, owed, ~hidden
        PROVE  age <= Window
    <3>1. left >= 4 /\ Since + ahead <= 4
      BY <1>1, <2>1, ClearIsRecent DEF IInv, Erased
    <3>2. age <= 3 + ahead + Since
      BY <1>1, <2>1, <3>1, Types DEF IInv, FreshInv
    <3> QED BY <1>1, <3>1, <3>2, Types, LossReportAssumption DEF IInv
  <2> QED BY <1>1, <2>1 DEF IInv, OnlyFreshLost
<1> QED BY <1>1, LossInductive, PTL

\* No header says that a packet was lost when none was, or says it twice: the
\* clear of one header is back before the next one starts.
THEOREM NoFalseReports == Spec => NoFalseReport
<1> DEFINE Owes == (left = 0 /\ left' > 0 /\ HeaderBit) => owed
<1>1. ASSUME IInv, [Next]_vars
      PROVE  [Owes]_vars
  <2>1. ASSUME left = 0, left' > 0, HeaderBit, ~owed, Next
        PROVE  FALSE
    <3>1. CASE reset_tx > 0
      BY <1>1, <2>1, <3>1 DEF IInv, ResetInv, HeaderBit
    <3>2. CASE reset_tx = 0
      BY <1>1, <2>1, <3>2 DEF IInv, ReportedInv, HeaderBit
    <3> QED BY <1>1, <3>1, <3>2, Types DEF IInv
  <2> QED BY <1>1, <2>1
<1>2. IInv /\ [Next]_vars => [Owes]_vars
  BY <1>1
<1> QED BY <1>2, LossInductive, PTL DEF Spec, NoFalseReport
=============================================================================
