--------------------------- MODULE ControlChannel ---------------------------
(***************************************************************************)
(* The LMS64C control channel, word by word: a host program writes 64-byte *)
(* commands into a device file, the PCIe bridge puts their words into a    *)
(* FIFO (H2F_C0), the main loop of the Nios firmware reads one command,    *)
(* executes it and writes its answer into a second FIFO (F2H_C0), which    *)
(* the host reads through another device file.  Nothing but counting tells *)
(* either side where a packet begins.                                      *)
(*                                                                         *)
(* A word of a command is <<session, command, index>>; a word of an answer *)
(* is the command buffer the firmware answered, whatever it held, and the  *)
(* index of the word.                                                      *)
(***************************************************************************)
EXTENDS Naturals, Sequences

CONSTANTS
  PktWords,    \* 64 bytes in words of 32 bits
  H2FDepth,    \* words of the FIFO towards the firmware
  F2HDepth,    \* words of the FIFO towards the host
  Window,      \* commands a host sends before it reads the answer to the first
  MaxCmds,     \* bound: commands of a host program
  MaxSessions, \* bound: host programs, one after the other
  Kinds        \* kinds of host programs, of the three below

ASSUME PktAssumption    == PktWords \in Nat /\ PktWords > 1
ASSUME WindowAssumption == Window \in Nat \ {0}
\* The FIFO to the host (256 words) has room for the answers of a window.
ASSUME DepthAssumption  == /\ H2FDepth \in Nat \ {0} /\ F2HDepth \in Nat
                           /\ F2HDepth >= Window * PktWords
ASSUME BoundsAssumption == MaxCmds \in Nat /\ MaxSessions \in Nat
ASSUME KindsAssumption  == Kinds \subseteq {"polite", "abrupt", "slow"}

NoWord == <<0, 0, 0>>

VARIABLES
  host,       \* "up" while a program has the two files open, else "down"
  session,    \* host programs started
  kind,       \* of the program: "polite" ones read their answers before they exit,
              \* "slow" ones write a command slower than the firmware reads it
  w_open,     \* user_w_control0_write_32_open
  r_open,     \* user_r_control0_read_32_open
  next_word,  \* the next word the host writes
  rx,         \* the words of the answer the host is reading
  received,   \* answers this host program has read
  last,       \* history: the command the last one a polite program read was for
  h2f,        \* FIFO host to FPGA
  h2f_seen,   \* its words the read side knows of
  h2f_q,      \* its registered output
  f2h,        \* FIFO FPGA to host
  pc,         \* where the main loop is
  cnt,        \* words read, or written, of this packet
  buf,        \* glEp0Buffer_Rx
  answered    \* history: commands answered since this program was started

vars == <<host, session, kind, w_open, r_open, next_word, rx, received, last,
          h2f, h2f_seen, h2f_q, f2h, pc, cnt, buf, answered>>

fwVars   == <<pc, cnt, buf, answered>>
hostVars == <<host, session, kind, next_word, rx, received, last>>
openVars == <<w_open, r_open>>

Words == (1 .. MaxSessions) \X (1 .. MaxCmds) \X (1 .. PktWords)

Bufs == [1 .. PktWords -> Words \cup {NoWord}]

Command(s, c) == [i \in 1 .. PktWords |-> <<s, c, i>>]

\* The command a buffer holds.
Id(b) == IF \E s \in 1 .. MaxSessions, c \in 1 .. MaxCmds : b = Command(s, c)
           THEN <<b[1][1], b[1][2]>> ELSE <<0, 0>>

TypeOK ==
  /\ host \in {"up", "down"} /\ session \in 0 .. MaxSessions /\ kind \in Kinds
  /\ w_open \in BOOLEAN /\ r_open \in BOOLEAN
  /\ next_word[2] \in 1 .. MaxCmds + 1 /\ next_word[3] \in 1 .. PktWords
  /\ Len(rx) <= PktWords
  /\ received \in 0 .. MaxCmds
  /\ last \in (0 .. MaxSessions) \X (0 .. MaxCmds)
  /\ \A i \in DOMAIN h2f : h2f[i] \in Words
  /\ Len(h2f) <= H2FDepth /\ h2f_seen \in 0 .. Len(h2f)
  /\ h2f_q \in Words \cup {NoWord}
  /\ Len(f2h) <= F2HDepth
  /\ pc \in {"poll", "reset", "read", "execute", "answer"}
  /\ cnt \in 0 .. PktWords - 1
  /\ buf \in Bufs /\ answered \in Nat

Init ==
  /\ host = "down" /\ session = 0 /\ kind \in Kinds /\ w_open = FALSE /\ r_open = FALSE
  /\ next_word = <<0, 1, 1>> /\ rx = <<>> /\ received = 0
  /\ last = <<0, 0>>
  /\ h2f = <<>> /\ h2f_seen = 0 /\ h2f_q = NoWord /\ f2h = <<>>
  /\ pc = "poll" /\ cnt = 0 /\ buf = [i \in 1 .. PktWords |-> NoWord] /\ answered = 0

\* Commands begun and not answered, for the host.
Outstanding == next_word[2] - 1 + (IF next_word[3] > 1 THEN 1 ELSE 0) - received

-----------------------------------------------------------------------------
(* The host program and the bridge.                                        *)

\* A program opens both files.  Starting one takes longer than a command, so
\* the firmware has finished with what the last program left behind.
Start ==
  /\ host = "down" /\ ~w_open /\ ~r_open /\ session < MaxSessions
  /\ pc = "poll"
  /\ host' = "up" /\ session' = session + 1 /\ kind' \in Kinds
  /\ w_open' = TRUE /\ r_open' = TRUE
  /\ next_word' = <<session + 1, 1, 1>> /\ rx' = <<>> /\ received' = 0
  /\ answered' = 0
  /\ UNCHANGED <<last, h2f, h2f_seen, h2f_q, f2h, pc, cnt, buf>>

\* It exits, or is killed.
Exit ==
  /\ host = "up"
  /\ kind = "polite" => Outstanding = 0
  /\ host' = "down"
  /\ UNCHANGED <<session, kind, next_word, rx, received, last, openVars, h2f,
                 h2f_seen, h2f_q, f2h, fwVars>>

\* Its files are closed in either order; each closing holds one FIFO in reset.
CloseWrite ==
  /\ host = "down" /\ w_open
  /\ w_open' = FALSE
  /\ h2f' = <<>> /\ h2f_seen' = 0 /\ h2f_q' \in {h2f_q, NoWord}
  /\ UNCHANGED <<hostVars, r_open, f2h, fwVars>>

\* Mutant: the FIFO is not reset when the file is closed.
CloseReadKeeps ==
  /\ host = "down" /\ r_open
  /\ r_open' = FALSE
  /\ UNCHANGED <<hostVars, w_open, h2f, h2f_seen, h2f_q, f2h, fwVars>>

CloseRead ==
  /\ host = "down" /\ r_open
  /\ r_open' = FALSE
  /\ f2h' = <<>>
  /\ UNCHANGED <<hostVars, w_open, h2f, h2f_seen, h2f_q, fwVars>>

HostWrite ==
  /\ host = "up" /\ next_word[2] <= MaxCmds
  /\ next_word[3] = 1 => Outstanding < Window
  /\ Len(h2f) < H2FDepth
  /\ h2f' = Append(h2f, next_word)
  /\ next_word' = IF next_word[3] < PktWords
                    THEN [next_word EXCEPT ![3] = @ + 1]
                    ELSE <<session, next_word[2] + 1, 1>>
  /\ UNCHANGED <<host, session, kind, rx, received, last, openVars, h2f_seen, h2f_q,
                 f2h, fwVars>>

\* The write pointer reaches the clock of the processor.
SeeWritten ==
  /\ h2f_seen < Len(h2f)
  /\ h2f_seen' \in h2f_seen + 1 .. Len(h2f)
  /\ UNCHANGED <<hostVars, openVars, h2f, h2f_q, f2h, fwVars>>

\* It reads while it expects an answer.
HostRead ==
  /\ host = "up" /\ f2h # <<>> /\ Outstanding > 0
  /\ f2h' = Tail(f2h)
  /\ rx' = IF Len(rx) = PktWords THEN <<Head(f2h)>> ELSE Append(rx, Head(f2h))
  /\ IF Len(rx) = PktWords - 1
       THEN /\ received' = received + 1
            /\ last' = IF kind = "polite" THEN Id(Head(f2h)[1]) ELSE last
       ELSE UNCHANGED <<received, last>>
  /\ UNCHANGED <<host, session, kind, next_word, openVars, h2f, h2f_seen, h2f_q,
                 fwVars>>

-----------------------------------------------------------------------------
(* The main loop.                                                          *)

\* IORD(AV_FIFO_INT_0_BASE, 2): bit 0 is rdempty.  The rest of the loop does
\* not touch the two FIFOs.
Poll ==
  /\ pc = "poll" /\ h2f_seen > 0
  /\ pc' = "reset"
  /\ UNCHANGED <<hostVars, openVars, h2f, h2f_seen, h2f_q, f2h, cnt, buf, answered>>

\* Mutant: the reset output of the FIFO interface is connected.
ResetConnected == f2h' = <<>>

\* The firmware toggles the reset bit; the top level takes it to F2H_C0_aclrn
\* of pcie_top, where no FIFO uses it.
FifoReset == UNCHANGED f2h

ToggleReset ==
  /\ pc = "reset"
  /\ FifoReset
  /\ pc' = "read"
  /\ UNCHANGED <<hostVars, openVars, h2f, h2f_seen, h2f_q, cnt, buf, answered>>

\* No more words of this command are on their way.
NothingComes == ~w_open \/ next_word[3] = 1

\* The loop of getFifoData.
ReadLoop ==
  IF cnt + 1 < PktWords THEN cnt' = cnt + 1 /\ UNCHANGED pc
                        ELSE cnt' = 0 /\ pc' = "execute"

\* One IORD of address 1, without a look at the status: an empty FIFO is not
\* read and its output register is returned again.
ReadWord ==
  /\ pc = "read"
  /\ kind # "slow" => h2f_seen > 0 \/ (NothingComes /\ h2f = <<>>)
  /\ LET word == IF h2f_seen > 0 THEN Head(h2f) ELSE h2f_q IN
       /\ h2f_q' = word
       /\ buf' = [buf EXCEPT ![cnt + 1] = word]
  /\ IF h2f_seen > 0 THEN h2f' = Tail(h2f) /\ h2f_seen' = h2f_seen - 1
                     ELSE UNCHANGED <<h2f, h2f_seen>>
  /\ ReadLoop
  /\ UNCHANGED <<hostVars, openVars, f2h, answered>>

\* The dispatcher: see module Dispatcher.
Execute ==
  /\ pc = "execute"
  /\ pc' = "answer"
  /\ UNCHANGED <<hostVars, openVars, h2f, h2f_seen, h2f_q, f2h, cnt, buf, answered>>

\* A write is dropped while the FIFO is full or held in reset.
Put(word) == f2h' = IF r_open /\ Len(f2h) < F2HDepth THEN Append(f2h, word)
                                                     ELSE f2h

AnswerLoop ==
  IF cnt + 1 < PktWords THEN cnt' = cnt + 1 /\ UNCHANGED <<pc, answered>>
                        ELSE cnt' = 0 /\ pc' = "poll" /\ answered' = answered + 1

Answer ==
  /\ pc = "answer"
  /\ Put(<<buf, cnt + 1>>)
  /\ AnswerLoop
  /\ UNCHANGED <<hostVars, openVars, h2f, h2f_seen, h2f_q, buf>>

Firmware == Poll \/ ToggleReset \/ ReadWord \/ Execute \/ Answer

Next ==
  \/ Start \/ Exit \/ CloseWrite \/ CloseRead
  \/ HostWrite \/ SeeWritten \/ HostRead
  \/ Firmware

Spec == Init /\ [][Next]_vars

\* The processor runs, the synchroniser settles, and a host program finishes
\* the command it began and reads the answers it gets, when it is a polite one.
Fairness ==
  /\ WF_vars(Firmware) /\ WF_vars(SeeWritten)
  /\ WF_vars(kind = "polite" /\ HostRead)
  /\ WF_vars(kind = "polite" /\ HostWrite /\ next_word[3] > 1)

FairSpec == Spec /\ Fairness

-----------------------------------------------------------------------------
\* The n-th answer a program reads is, word for word, the answer to the n-th
\* command it wrote, whatever programs before it left in the FIFOs when they
\* exited and whatever they made the firmware execute; only a slow program is
\* not told the truth.  (Variables, the FIFOs among them, stay in their types.)
AnswerMatches ==
  /\ TypeOK
  /\ host = "up" /\ kind # "slow" =>
       \A i \in 1 .. Len(rx) :
         rx[i] = <<Command(session, IF Len(rx) = PktWords THEN received
                                                         ELSE received + 1), i>>

-----------------------------------------------------------------------------
(* The channel implements RequestReply for polite programs: a request is   *)
(* sent with the last word of a command, served with the last word of its  *)
(* answer and received when the host takes that word; which one that is,   *)
(* last, is read from the word.  The other programs are invisible,         *)
(* whatever they do to the channel.                                        *)

Asked == next_word[2] - 1

\* The n commands of a program that come after its c-th.
Following(s, c, n) == [i \in 1 .. n |-> <<s, c + i>>]

requestsBar ==
  IF kind = "polite" THEN Following(session, answered, Asked - answered) ELSE <<>>

repliesBar ==
  IF kind = "polite" THEN Following(session, received, answered - received) ELSE <<>>

Abstract == INSTANCE RequestReply WITH
  Requests <- (1 .. MaxSessions) \X (1 .. MaxCmds), NoRequest <- <<0, 0>>,
  requests <- requestsBar, replies <- repliesBar, received <- last

\* Every command of a polite program is answered once and in order, and the
\* answer comes: safety and liveness of the abstract specification.
RequestsReplied == Abstract!Spec
=============================================================================
