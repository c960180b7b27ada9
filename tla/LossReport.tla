----------------------------- MODULE LossReport -----------------------------
(***************************************************************************)
(* How the host learns that the TX path threw a packet away.  On tx_clk a  *)
(* rising edge of in_pct_clr_flag sets pct_loss_flg (tx_path_top.vhd); the *)
(* flag crosses to rx_clk and stands in the header of the RX packet that   *)
(* starts next (rx_path_top.vhd); that the header was captured crosses     *)
(* back, and its rising edge clears the flag (rxtx_top.vhd ties            *)
(* pct_loss_flg_clr to pct_hdr_cap).                                       *)
(*                                                                         *)
(* The two clocks have one frequency and any phase: neither is ever more   *)
(* than one edge ahead.  A synchroniser is its two registers; the jitter   *)
(* of the phase stands for the edge a changing input may be late.          *)
(***************************************************************************)
EXTENDS Naturals

CONSTANTS
    PctTicks,   \* rx_clk cycles from one header to the next, at least
    Window      \* age up to which a loss may be wiped out by a clear

ASSUME LossReportAssumption ==
    PctTicks \in Nat /\ PctTicks > 7 /\ Window \in Nat /\ Window > 6

VARIABLES
    reset_tx,       \* edges of tx_clk that reset_n_sync_iq_rdclk still takes
    reset_rx,       \* the same for reset_n_sync of the RX path
    data_clr,       \* inst1_pct_data_clr, or the writer's reset request
    clr_flag,       \* in_pct_clr_flag
    clr_flag_reg,   \* inst0_in_pct_clr_flag_reg
    pct_loss_flg,
    cap,            \* sync_reg7: pct_hdr_cap on tx_clk
    cap_reg,        \* pct_loss_flg_clr_sync_iq_rdclk_reg
    loss,           \* sync_reg1: pct_loss_flg on rx_clk
    left,           \* cycles the packet being formed still takes
    pct_hdr_cap,
    ahead,          \* edges tx_clk is ahead of rx_clk, plus one
    owed, age,      \* history: an unreported loss, and cycles since the first
    hidden          \* history: the header that reports it is of a discarded packet

vars == <<reset_tx, reset_rx, data_clr, clr_flag, clr_flag_reg, pct_loss_flg,
          cap, cap_reg, loss, left, pct_hdr_cap, ahead, owed, age, hidden>>

Bits == <<FALSE, FALSE>>
MaxAge == Window + 1

TypeOK ==
    /\ {reset_tx, reset_rx, ahead} \subseteq 0 .. 2
    /\ {data_clr, clr_flag, clr_flag_reg, pct_loss_flg, cap_reg,
        pct_hdr_cap, owed, hidden} \subseteq BOOLEAN
    /\ {cap, loss} \subseteq BOOLEAN \X BOOLEAN
    /\ left \in 0 .. PctTicks
    /\ age \in 0 .. MaxAge

\* Mutant: the delayed flag comes out of reset as 0.
RegLow(v) == v = FALSE

RegAfterReset(v) == v = TRUE

\* The streams have just been released from reset.
Init ==
    /\ reset_tx = 2 /\ reset_rx = 2
    /\ data_clr = FALSE /\ clr_flag = FALSE /\ RegAfterReset(clr_flag_reg)
    /\ pct_loss_flg = FALSE /\ cap = Bits /\ cap_reg = FALSE
    /\ loss = Bits /\ left = 0 /\ pct_hdr_cap = FALSE
    /\ ahead = 1 /\ owed = FALSE /\ age = 0 /\ hidden = FALSE

Shift(sync, bit) == <<bit, sync[1]>>
-----------------------------------------------------------------------------
(* tx_clk                                                                  *)

SetsFlag == clr_flag /\ ~clr_flag_reg

\* Mutant: the level of the captured header clears the flag.
ClearsLevel == cap[2]

Clears == cap[2] /\ ~cap_reg

\* Mutant: the clear comes before the set.
ClearFirst == ~Clears /\ (SetsFlag \/ pct_loss_flg)

FlagAfter == SetsFlag \/ (pct_loss_flg /\ ~Clears)

LossFlag ==
    IF reset_tx > 0
    THEN pct_loss_flg' = FALSE /\ RegAfterReset(clr_flag_reg') /\ cap_reg' = FALSE
    ELSE /\ pct_loss_flg' = FlagAfter
         /\ clr_flag_reg' = clr_flag
         /\ cap_reg' = cap[2]

\* The flag goes down: losses that no header has reported are forgotten.
Erased == reset_tx = 0 /\ pct_loss_flg /\ Clears /\ ~SetsFlag

\* A packet is thrown away (module TxPackets): data_clr goes up, not while the
\* path is still empty after reset.  The clear inputs of the packet buffers are
\* active during reset, and the first edge after it may still see them so.  A
\* loss whose edge is still to come is not forgotten with the older ones.
Thrown ==
    /\ data_clr' \in (IF reset_tx = 1 THEN {FALSE} ELSE BOOLEAN)
    /\ LET new == data_clr' /\ ~data_clr /\ reset_tx = 0
           coming == data_clr /\ ~clr_flag
       IN IF Erased
          THEN /\ owed' = (new \/ (owed /\ coming)) /\ hidden' = FALSE
               /\ age' = IF coming THEN 1 ELSE 0
          ELSE /\ owed' = (owed \/ new) /\ UNCHANGED hidden
               /\ age' = IF ~owed THEN 0 ELSE IF age < MaxAge THEN age + 1 ELSE age

TxEdge ==
    /\ ahead < 2 /\ ahead' = ahead + 1
    /\ reset_tx' = IF reset_tx > 0 THEN reset_tx - 1 ELSE 0
    /\ clr_flag' = data_clr
    /\ cap' = Shift(cap, pct_hdr_cap)
    /\ LossFlag /\ Thrown
    /\ UNCHANGED <<reset_rx, loss, left, pct_hdr_cap>>

-----------------------------------------------------------------------------
(* rx_clk                                                                  *)

\* The bit of the header that is captured when a packet starts.
HeaderBit == loss[2]

\* pct_state is "01" until the last word of the packet; that word, the two
\* cycles of s2 and idle follow.
InPct == left > 4

\* The first word of a packet loads the header register; a packet that is
\* discarded (the FIFO to the host is full) has one as well, and the host does
\* not see it.
StartPct ==
    /\ left = 0 /\ left' = PctTicks
    /\ IF HeaderBit THEN \/ owed' = FALSE /\ hidden' = FALSE
                         \/ hidden' = owed /\ UNCHANGED owed
                    ELSE UNCHANGED <<owed, hidden>>
    /\ UNCHANGED age

\* Samples come or do not come; a packet takes PctTicks cycles or more.
GoOn ==
    /\ left' = IF left > 0 THEN left - 1 ELSE 0
    /\ UNCHANGED <<owed, age, hidden>>

RxEdge ==
    /\ ahead > 0 /\ ahead' = ahead - 1
    /\ reset_rx' = IF reset_rx > 0 THEN reset_rx - 1 ELSE 0
    /\ loss' = Shift(loss, pct_loss_flg)
    /\ pct_hdr_cap' = InPct
    /\ GoOn \/ (reset_rx = 0 /\ StartPct)
    /\ UNCHANGED <<reset_tx, data_clr, clr_flag, clr_flag_reg, pct_loss_flg,
                   cap, cap_reg>>

Next == TxEdge \/ RxEdge

Spec == Init /\ [][Next]_vars

\* Both clocks run, and samples keep coming.
Fairness ==
    /\ WF_vars(TxEdge) /\ WF_vars(RxEdge)
    /\ SF_vars(RxEdge /\ StartPct)

FairSpec == Spec /\ Fairness

-----------------------------------------------------------------------------
(* Properties                                                              *)

\* No header reports a loss that did not happen, or one that was reported
\* before: not after reset, and not because the clear comes back too late for
\* the next header.
NoFalseReport ==
    [][(left = 0 /\ left' > 0 /\ HeaderBit) => owed]_vars

\* What the clear of one header can wipe out unreported is a loss of the last
\* few cycles only, one the header register was too early to see, or one that
\* stood in the header of a discarded packet.  (Variables are in their types.)
OnlyFreshLost ==
    TypeOK /\ (Erased /\ owed /\ ~hidden => age <= Window)

\* A loss that is older than that is put into a header.
OldLossReported == (owed /\ age > Window) ~> (~owed \/ hidden)
=============================================================================
