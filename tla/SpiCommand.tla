----------------------------- MODULE SpiCommand -----------------------------
(***************************************************************************)
(* alt_avalon_spi_command, with which the firmware reads and writes every  *)
(* chip on the board but those on I2C, on top of the SPI cores: a holding  *)
(* register, a shift register and a register for the byte received.  Three *)
(* cores share the pins of the board's SPI bus; each drives them while its *)
(* select is low.                                                          *)
(*                                                                         *)
(* A byte sent is its place in the command: 1 .. writes are write_data,    *)
(* the following ones zeros.  A byte received is the place, in the frame,  *)
(* of the byte the chip sent it during.                                    *)
(***************************************************************************)
EXTENDS Integers, Sequences

CONSTANTS
  Masters,   \* the SPI cores on the bus
  MaxWrite,  \* bound: write_length
  MaxRead    \* bound: read_length

None == 0

VARIABLES
  pc,       \* where the driver is
  master,   \* the core it was called for
  writes,   \* write_length
  reads,    \* read_length
  credits,  \* bytes it may send before one comes back
  sent,     \* bytes sent
  ignore,   \* read_ignore
  data,     \* bytes stored in read_data
  status,   \* the status register as it was last read
  core,     \* the registers of each core
  sso,      \* SSO_reg of each core
  frame     \* what the chip got since its select went low

vars == <<pc, master, writes, reads, credits, sent, ignore, data, status, core, sso,
          frame>>

call  == <<master, writes, reads>>
local == <<credits, sent, ignore, data, status>>

Places == 1 .. MaxWrite + MaxRead

TypeOK ==
  /\ pc \in {"idle", "select", "discard", "poll", "send", "receive", "finish",
             "release"}
  /\ master \in Masters /\ writes \in 0 .. MaxWrite /\ reads \in 0 .. MaxRead
  /\ credits \in (0 .. 1) \cup (-1024 .. -1)
  /\ sent \in 0 .. writes + reads /\ ignore \in 0 .. writes
  /\ data \in Seq(Places) /\ Len(data) <= reads
  /\ status \in [trdy : BOOLEAN, rrdy : BOOLEAN]
  /\ core \in [Masters -> [tx : Places \cup {None}, shift : Places \cup {None},
                           rx : Places \cup {None}, roe : BOOLEAN]]
  /\ sso \in [Masters -> BOOLEAN]
  /\ frame \in Seq(Places)

\* A byte an earlier program left behind may wait in a core.
Init ==
  /\ pc = "idle" /\ master \in Masters
  /\ writes = 0 /\ reads = 0
  /\ credits = 0 /\ sent = 0 /\ ignore = 0 /\ data = <<>>
  /\ status = [trdy |-> FALSE, rrdy |-> FALSE]
  /\ \E stale \in {None, 1} :
       core = [m \in Masters |-> [tx |-> None, shift |-> None, rx |-> stale,
                                  roe |-> FALSE]]
  /\ sso = [m \in Masters |-> FALSE] /\ frame = <<>>

\* Space for a byte somewhere, a byte received.
Trdy(m) == core[m].shift = None \/ core[m].tx = None
Rrdy(m) == core[m].rx # None

-----------------------------------------------------------------------------
(* The driver.                                                             *)

Credits == 1

Call(m, w, r) ==
  /\ pc = "idle"
  /\ master' = m /\ writes' = w /\ reads' = r
  /\ credits' = Credits /\ sent' = 0 /\ ignore' = w /\ data' = <<>>
  /\ pc' = "select"
  /\ UNCHANGED <<status, core, sso, frame>>

\* SLAVE_SEL, and SSO to hold the select low.
Select ==
  /\ pc = "select"
  /\ sso' = [sso EXCEPT ![master] = TRUE]
  /\ pc' = "discard"
  /\ UNCHANGED <<call, local, core, frame>>

\* Mutant: a stale byte is left in the core.
DiscardNot ==
  /\ pc = "discard"
  /\ pc' = "poll"
  /\ UNCHANGED <<call, local, core, sso, frame>>

Discard ==
  /\ pc = "discard"
  /\ core' = [core EXCEPT ![master].rx = None]
  /\ pc' = "poll"
  /\ UNCHANGED <<call, local, sso, frame>>

\* The loop over the status ends when there is something to do; what follows
\* looks at the status it read last.
Poll ==
  /\ pc = "poll"
  /\ status' = [trdy |-> Trdy(master), rrdy |-> Rrdy(master)]
  /\ pc' = IF (Trdy(master) /\ credits # 0) \/ Rrdy(master) THEN "send" ELSE "poll"
  /\ UNCHANGED <<call, credits, sent, ignore, data, core, sso, frame>>

\* One byte of write_data or a zero, or the note that all are sent.
Send ==
  /\ pc = "send"
  /\ IF status.trdy /\ credits > 0
       THEN IF sent < writes + reads
              THEN /\ core' = [core EXCEPT ![master].tx = sent + 1]
                   /\ sent' = sent + 1 /\ credits' = credits - 1
              ELSE credits' = -1024 /\ UNCHANGED <<core, sent>>
       ELSE UNCHANGED <<core, sent, credits>>
  /\ pc' = "receive"
  /\ UNCHANGED <<call, ignore, data, status, sso, frame>>

Store(byte) ==
  IF ignore > 0 THEN ignore' = ignore - 1 /\ UNCHANGED data
                ELSE data' = Append(data, byte) /\ UNCHANGED ignore

CreditBack == credits' = credits + 1

Receive ==
  /\ pc = "receive"
  /\ IF status.rrdy
       THEN /\ Store(core[master].rx)
            /\ core' = [core EXCEPT ![master].rx = None]
            /\ CreditBack
            /\ pc' = IF ignore' = 0 /\ Len(data') = reads THEN "finish" ELSE "poll"
       ELSE UNCHANGED <<ignore, data, core, credits>> /\ pc' = "poll"
  /\ UNCHANGED <<call, sent, status, sso, frame>>

\* Wait for TMT: nothing held, nothing shifted.
Finish ==
  /\ pc = "finish"
  /\ core[master].tx = None /\ core[master].shift = None
  /\ pc' = "release"
  /\ UNCHANGED <<call, local, core, sso, frame>>

\* Mutant: the select stays low.
ReleaseNot ==
  /\ pc = "release"
  /\ pc' = "idle"
  /\ UNCHANGED <<call, local, core, sso, frame>>

\* No caller asks for a merged command.  The function returns.
Release ==
  /\ pc = "release"
  /\ sso' = [sso EXCEPT ![master] = FALSE] /\ frame' = <<>>
  /\ writes' = 0 /\ reads' = 0
  /\ credits' = 0 /\ sent' = 0 /\ ignore' = 0 /\ data' = <<>>
  /\ status' = [trdy |-> FALSE, rrdy |-> FALSE]
  /\ pc' = "idle"
  /\ UNCHANGED <<master, core>>

Driver == Select \/ Discard \/ Poll \/ Send \/ Receive \/ Finish

-----------------------------------------------------------------------------
(* The cores.                                                              *)

Load(m) ==
  /\ core[m].tx # None /\ core[m].shift = None
  /\ core' = [core EXCEPT ![m].shift = core[m].tx, ![m].tx = None]
  /\ UNCHANGED <<pc, call, local, sso, frame>>

\* A byte is exchanged.  A byte received before and not read is lost.
Exchange(m) ==
  /\ core[m].shift # None
  /\ frame' = Append(frame, core[m].shift)
  /\ core' = [core EXCEPT ![m].shift = None, ![m].rx = Len(frame) + 1,
                          ![m].roe = @ \/ core[m].rx # None]
  /\ UNCHANGED <<pc, call, local, sso>>

Core == \E m \in Masters : Load(m) \/ Exchange(m)

Next ==
  \/ \E m \in Masters, w \in 1 .. MaxWrite, r \in 0 .. MaxRead : Call(m, w, r)
  \/ Driver \/ Release \/ Core

Spec == Init /\ [][Next]_vars

-----------------------------------------------------------------------------
\* When the select is released the chip has had exactly the bytes of this
\* command, in order, read_data holds what it sent during the last reads of
\* them, whatever the core held when the command began, and no byte has come in
\* on top of one that was not read ("We must not send more than two bytes to the
\* target before it has returned any as otherwise it will overflow").
Exchanged ==
  pc = "release" => /\ frame = [i \in 1 .. writes + reads |-> i]
                    /\ data = [i \in 1 .. reads |-> writes + i]
                    /\ ~core[master].roe

\* The cores share the pins: a core shifts only while it alone is selected.
BusIsOurs ==
  \A m, n \in Masters :
    core[m].shift # None => sso[m] /\ (sso[n] => n = m)
=============================================================================
