------------------------------ MODULE WfmPlayer ------------------------------
(***************************************************************************)
(* The waveform player: words the host loads go from the input FIFO to the *)
(* external memory, and are read back in a loop into the output FIFO while *)
(* the host asks for play.  One step of Clock is one cycle of afi_half_clk *)
(* of wfm_player.vhd (state machine, counters, addresses) together with    *)
(* avalon_traffic_gen.sv, which turns its commands into Avalon beats.      *)
(* The host, the memory's answers and the reader of the output FIFO act    *)
(* between two cycles.                                                     *)
(*                                                                         *)
(* A word is the pair of the loading it belongs to and its position there. *)
(* The output FIFO is a count: the player looks at nothing else of it.     *)
(***************************************************************************)
EXTENDS Integers, Sequences

CONSTANTS
    MaxLoads,      \* loadings of a waveform
    Shortest,      \* words of the shortest waveform the host loads
    MaxWords,      \* words of the longest one
    InSize,        \* words the input FIFO holds
    Depth,         \* entries at which the generator's buffer reports full
    MaxStall,      \* cycles in a row the memory refuses a beat
    Latency,       \* words the memory has accepted to read and not returned
    OutSize        \* words the output FIFO holds

ASSUME WfmPlayerAssumption ==
    /\ {MaxLoads, Shortest, InSize, Depth, Latency} \subseteq Nat \ {0}
    /\ MaxWords \in Nat /\ MaxWords >= Shortest
    /\ MaxStall \in Nat
    /\ OutSize \in Nat /\ OutSize > Latency + Depth

VARIABLES
    load, play,         \* wfm_load and wfm_play of the register file
    loading, sent,      \* number of this loading, words the host sent for it
    infifo, used,       \* wfm_infifo and its rdusedw, one cycle behind
    state,              \* current_state
    burst_cnt_max, burst_wr_cnt, do_write_idle_cnt,
    write_addr, write_max_words, known_words, read_addr,
    command,            \* the generator's do_write_reg, do_read_reg
    rest,               \* the beats it still owes to a write burst
    buffer,             \* its Avalon FIFO, output register included
    stalled,            \* cycles in a row avl_ready has been 0
    memory, returning,  \* the memory, and the words read and not returned yet
    phase, out,         \* bit_unpack_64, words in the output FIFO
    taken, due          \* words taken from infifo; position to be played next

host == <<load, play, loading, sent>>
fsm == <<state, burst_cnt_max, burst_wr_cnt, do_write_idle_cnt, write_addr,
         write_max_words, known_words, read_addr, used>>
generator == <<command, rest, buffer, stalled, memory>>
vars == <<host, infifo, fsm, generator, returning, phase, out, taken, due>>

None == [op |-> "none", addr |-> 0, size |-> 0]
Addresses == MaxWords + 4
Garbage == <<0, 0>>
States == {"idle", "check_wfm_infifo", "do_write", "do_burst_write",
           "do_write_idle", "check_wfm_outfifo", "do_read"}

\* Playing is forced off while a waveform is loaded.
play_stop == play /\ ~load

\* Mutant: no room is kept.
ReserveNothing == 0

\* Mutant: the reserve leaves no room at all.
ReserveTwice == 2 * (Latency + Depth)

\* Room kept for the reads under way, in words of the output FIFO.
Reserve == Latency + Depth
wrwords_limit == OutSize - Reserve

TypeOK ==
    /\ load \in BOOLEAN /\ play \in BOOLEAN
    /\ loading \in 0 .. MaxLoads /\ sent \in 0 .. MaxWords
    /\ Len(infifo) <= InSize /\ used \in 0 .. InSize
    /\ state \in States
    /\ burst_cnt_max \in 0 .. InSize \div 2
    /\ burst_wr_cnt \in 0 .. InSize \div 2
    /\ do_write_idle_cnt \in 0 .. 5
    /\ {write_addr, write_max_words, known_words, read_addr} \subseteq 0 .. Addresses
    /\ taken \in 0 .. sent
    /\ rest.size \in 0 .. 1 /\ Len(buffer) <= Depth + 1
    /\ Len(returning) <= Latency
    /\ phase \in 0 .. 2
    /\ due \in 1 .. Addresses

Init ==
    /\ load = FALSE /\ play = FALSE /\ loading = 0 /\ sent = 0
    /\ infifo = <<>> /\ used = 0
    /\ state = "idle"
    /\ burst_cnt_max = 0 /\ burst_wr_cnt = 0 /\ do_write_idle_cnt = 0
    /\ write_addr = 0 /\ write_max_words = 0 /\ known_words = 0 /\ read_addr = 0
    /\ command = None /\ rest = None /\ buffer = <<>> /\ stalled = 0
    /\ memory = [a \in 0 .. Addresses - 1 |-> Garbage]
    /\ returning = <<>> /\ phase = 0 /\ out = 0
    /\ taken = 0 /\ due = 1

-----------------------------------------------------------------------------
(* The generator (avalon_traffic_gen)                                      *)

Full == Len(buffer) >= Depth

ready == IF Full THEN command = None ELSE rest = None \/ command = None

\* A word is taken from wfm_infifo for the beat that enters the buffer.
wdata_req == ~Full /\ (rest # None \/ command.op = "write")

Word == IF infifo = <<>> THEN Garbage ELSE Head(infifo)

\* The entry that enters the buffer in this cycle, if one does.
Entering ==
    IF Full THEN <<>>
    ELSE IF rest # None
         THEN << [op |-> "write", addr |-> rest.addr, word |-> Word] >>
         ELSE CASE command.op = "write" ->
                     << [op |-> "write", addr |-> command.addr, word |-> Word] >>
                [] command.op = "read" -> << command >>
                [] OTHER -> <<>>

\* The beats still owed after this cycle.
Owed ==
    IF Full THEN rest
    ELSE IF rest # None THEN None
         ELSE IF command.op = "write" /\ command.size > 1
              THEN [op |-> "write", addr |-> command.addr + 1, size |-> command.size - 1]
              ELSE None

\* The memory takes the oldest entry: it writes the word, or reads the words
\* of the burst and returns them some time later, in order.
Take(entry) ==
    /\ stalled' = 0
    /\ buffer' = Tail(buffer) \o Entering
    /\ IF entry.op = "write"
       THEN /\ memory' = [memory EXCEPT ![entry.addr] = entry.word]
            /\ UNCHANGED returning
       ELSE /\ Len(returning) + entry.size <= Latency
            /\ returning' = returning \o
                   [i \in 1 .. entry.size |-> memory[(entry.addr + i - 1) % Addresses]]
            /\ UNCHANGED memory

MemoryWaits ==
    /\ buffer' = buffer \o Entering
    /\ UNCHANGED <<memory, returning>>
    /\ IF buffer # <<>> /\ Head(buffer).op = "write"
       THEN stalled < MaxStall /\ stalled' = stalled + 1
       ELSE stalled' = 0

Memory == MemoryWaits \/ (buffer # <<>> /\ Take(Head(buffer)))

-----------------------------------------------------------------------------
(* The state machine and its counters (wfm_player)                         *)

burstcount == IF state = "do_burst_write" THEN 2 ELSE 1

DoWrite == state \in {"do_write", "do_burst_write"} /\ ready
DoRead == state = "do_read" /\ ready

\* Registered bounds of the waveform, as the address compares them: the
\* subtractions wrap.
read_burst_max_addr == (known_words - 2) % Addresses
read_max_addr == (known_words - 1) % Addresses

\* Mutant: the last read of an uneven waveform takes two words as well.
ReadAlwaysTwo == 2

read_burstcount ==
    IF read_addr = read_max_addr /\ write_max_words % 2 = 1 THEN 1 ELSE 2

Issued ==
    IF DoWrite THEN [op |-> "write", addr |-> write_addr, size |-> burstcount]
    ELSE IF DoRead THEN [op |-> "read", addr |-> read_addr, size |-> read_burstcount]
         ELSE None

Generator ==
    /\ command' = IF ready THEN Issued ELSE command
    /\ rest' = Owed
    /\ infifo' = IF wdata_req /\ infifo # <<>> THEN Tail(infifo) ELSE infifo
    /\ taken' = IF wdata_req /\ infifo # <<>> THEN taken + 1 ELSE taken
    /\ Memory

\* Another burst follows if the input FIFO is known to hold its words.  The
\* subtraction wraps: a count of 0 lets bursts follow without end, and a count
\* that was too high when the burst began may fall to 0 during it.
MoreBursts == burst_cnt_max = 0 \/ burst_wr_cnt < burst_cnt_max - 1

\* Mutant: a bound the 8 bits of the counter do not reach.
SettledLater == do_write_idle_cnt > 255

\* Cycles between a write and the next look at the input FIFO: time for the
\* beats of the last commands to be taken, if the generator can take them.
Settled == do_write_idle_cnt > 3

HasRoom == out < wrwords_limit /\ ready

NextState ==
    CASE state = "idle" ->
            IF load \/ infifo # <<>> THEN "check_wfm_infifo"
            ELSE IF play_stop THEN "check_wfm_outfifo" ELSE "idle"
      [] state = "check_wfm_infifo" ->
            IF infifo # <<>> /\ ready
            THEN IF burst_cnt_max > 0 THEN "do_burst_write" ELSE "do_write"
            ELSE "idle"
      [] state = "do_burst_write" ->
            IF ~ready \/ MoreBursts THEN "do_burst_write" ELSE "do_write_idle"
      [] state = "do_write" -> "do_write_idle"
      [] state = "do_write_idle" ->
            IF Settled THEN "check_wfm_infifo" ELSE "do_write_idle"
      [] state = "check_wfm_outfifo" -> IF HasRoom THEN "do_read" ELSE "idle"
      [] state = "do_read" ->
            IF ~play_stop THEN "idle"
            ELSE IF HasRoom THEN "do_read" ELSE "check_wfm_outfifo"

WriteAddr == IF DoWrite THEN write_addr + burstcount ELSE write_addr

ReadAddr ==
    IF ~play_stop THEN 0
    ELSE IF ~DoRead THEN read_addr
         ELSE IF read_addr < read_burst_max_addr THEN read_addr + 2 ELSE 0

Counters ==
    /\ used' = Len(infifo)
    /\ burst_cnt_max' = used \div 2
    /\ burst_wr_cnt' = IF state # "do_burst_write" THEN 0
                       ELSE IF ready THEN burst_wr_cnt + 1 ELSE burst_wr_cnt
    /\ do_write_idle_cnt' = IF state = "do_write_idle" THEN (do_write_idle_cnt + 1) % 256 ELSE 0
    /\ write_addr' = WriteAddr
    /\ write_max_words' = IF wdata_req THEN write_max_words + 1 ELSE write_max_words
    /\ known_words' = write_max_words
    /\ read_addr' = ReadAddr

\* One cycle of the player's clock.
Clock ==
    /\ state' = NextState
    /\ Counters
    /\ Generator
    /\ UNCHANGED <<host, phase, out, due>>

-----------------------------------------------------------------------------
(* The memory's answers and the reader of the output FIFO                  *)

\* A word comes back.  While playing it is unpacked: three words of 64 bits
\* give two of 128 bits.  Otherwise the unpacker is in reset and the word is
\* lost.
Return ==
    /\ returning # <<>>
    /\ returning' = Tail(returning)
    /\ IF play_stop
       THEN /\ phase' = (phase + 1) % 3
            /\ out' = IF phase = 0 THEN out ELSE out + 1
            /\ due' = IF due >= write_max_words THEN 1 ELSE due + 1
       ELSE UNCHANGED <<phase, out, due>>
    /\ UNCHANGED <<host, infifo, fsm, generator, taken>>

Drain ==
    /\ out > 0
    /\ out' = out - 1
    /\ UNCHANGED <<host, infifo, fsm, generator, returning, phase, taken, due>>

-----------------------------------------------------------------------------
(* The host                                                                *)

\* The player has seen that it is to stop reading, and nothing it asked of the
\* memory is still to come.
NoReads ==
    /\ state # "do_read" /\ read_addr = 0
    /\ command.op # "read" /\ returning = <<>>
    /\ \A i \in DOMAIN buffer : buffer[i].op # "read"

\* A rising edge of wfm_load resets the player and its generator for a cycle.
\* The host starts a loading when the words of the last one are stored; it may
\* well be playing.
StartLoad ==
    /\ ~load /\ loading < MaxLoads
    /\ infifo = <<>> /\ \A i \in DOMAIN buffer : buffer[i].op = "read"
    /\ command.op # "write" /\ rest = None
    /\ load' = TRUE /\ loading' = loading + 1 /\ sent' = 0
    /\ state' = "idle"
    /\ burst_cnt_max' = 0 /\ burst_wr_cnt' = 0 /\ do_write_idle_cnt' = 0
    /\ write_addr' = 0 /\ write_max_words' = 0 /\ known_words' = 0
    /\ read_addr' = 0
    /\ command' = None /\ rest' = None /\ buffer' = <<>> /\ stalled' = 0
    /\ phase' = 0 /\ out' = 0
    /\ taken' = 0 /\ due' = 1
    /\ UNCHANGED <<play, infifo, used, memory, returning>>

HostSend ==
    /\ load /\ sent < MaxWords /\ Len(infifo) < InSize
    /\ sent' = sent + 1
    /\ infifo' = Append(infifo, <<loading, sent + 1>>)
    /\ UNCHANGED <<play, load, loading, fsm, generator, returning, phase, out, taken, due>>

\* The host ends the loading when it has sent a waveform; words may still be in
\* the input FIFO.  Before it lets play go on, what an earlier playing asked the
\* memory for has come back.
EndLoad ==
    /\ load /\ sent >= Shortest
    /\ play => NoReads
    /\ load' = FALSE
    /\ UNCHANGED <<play, loading, sent, infifo, fsm, generator, returning,
                   phase, out, taken, due>>

StartPlay ==
    /\ ~play /\ loading > 0 /\ sent >= Shortest
    /\ load \/ NoReads
    /\ play' = TRUE
    /\ UNCHANGED <<load, loading, sent, infifo, fsm, generator, returning,
                   phase, out, taken, due>>

\* Stopping resets the unpacker and the output FIFO.
StopPlay ==
    /\ play
    /\ play' = FALSE
    /\ phase' = 0 /\ out' = 0 /\ due' = 1
    /\ UNCHANGED <<load, loading, sent, infifo, fsm, generator, returning, taken>>

Next ==
    \/ Clock \/ Return \/ Drain
    \/ StartLoad \/ HostSend \/ EndLoad \/ StartPlay \/ StopPlay

Spec == Init /\ [][Next]_vars

\* The clock runs, the memory returns what it has read, and does not refuse for
\* ever (MaxStall bounds writes; a read may be refused only while another is
\* out); samples are played.
Fairness ==
    /\ WF_vars(Clock) /\ WF_vars(Return) /\ WF_vars(Drain)
    /\ SF_vars(Clock /\ buffer # <<>> /\ Take(Head(buffer)))

FairSpec == Spec /\ Fairness

-----------------------------------------------------------------------------
(* Properties                                                              *)

\* write_max_words counts the words written to the memory exactly: every beat
\* carries a word that was in the input FIFO.  The player decides what to ask
\* for from a count of the FIFO that is three cycles old, while the generator is
\* still taking the words of earlier commands.  A memory that refuses beats
\* until the generator's buffer is full breaks it: the generator is ready with
\* a beat still owed, and the word of that beat is counted on twice.
ExactCount == write_max_words = taken

\* A word that comes back while playing is the next of the present waveform:
\* played from its first word, to its last, and over again, and never a word of
\* an earlier loading, as long as this waveform was counted exactly.
PlaysWaveform ==
    play_stop /\ returning # <<>> /\ ExactCount => Head(returning) = <<loading, due>>

\* The output FIFO has room for every read under way when the player decides to
\* read: it looks at the fill level before the words it asked for arrive.  The
\* reserve counts a buffered command as one word, and it reads two: what saves
\* it is that three words read give two to the FIFO, on all of the Latency.
\* (The counters of the player stay in their types, too.)
NoOverflow == TypeOK /\ out <= OutSize

\* Every word the host has sent leaves the input FIFO for the memory in the
\* end, an odd one that makes up no burst included.
WordsStored == taken < sent ~> taken = sent

\* Playing goes on to the end of the waveform, and round again.
PlayGoesOn ==
    /\ play_stop /\ due > 1 ~> ~play_stop \/ due = 1
    /\ play_stop /\ due = 1 ~> ~play_stop \/ due > 1
=============================================================================
