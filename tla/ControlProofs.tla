--------------------------- MODULE ControlProofs ---------------------------
(***************************************************************************)
(* The control channel answers every command of a program that does not    *)
(* write too slowly with its own answer, for every length of a packet,     *)
(* depth of the FIFOs, window and number of programs and commands; and it  *)
(* implements the safety part of RequestReply.                             *)
(*                                                                         *)
(* Nothing in either FIFO marks the beginning of a packet.  The argument   *)
(* is that each FIFO holds a chain of words, without a gap: from the place *)
(* the reader has counted to, to the place the writer has.  Files that are *)
(* closed leave the FIFOs empty, so every program starts both chains anew. *)
(***************************************************************************)
EXTENDS ControlChannel, SequenceTheorems, TLAPS

\* The place of a word: program, command or answer, word of it.
Places == Nat \X Nat \X (1 .. PktWords)

Succ(w) == IF w[3] < PktWords THEN <<w[1], w[2], w[3] + 1>>
                              ELSE <<w[1], w[2] + 1, 1>>

Before(v, w) == v[2] < w[2] \/ (v[2] = w[2] /\ v[3] < w[3])

\* Words up to a place, the ones before command 1 not counted.
Flat(w) == (w[2] - 1) * PktWords + w[3]

\* The places of q follow one another from first to the one before next.
Chain(q, first, next) ==
  /\ q \in Seq(Places)
  /\ IF q = <<>> THEN first = next ELSE q[1] = first /\ Succ(q[Len(q)]) = next
  /\ \A i \in 1 .. Len(q) - 1 : q[i + 1] = Succ(q[i])
  /\ \A i \in 1 .. Len(q) : Before(q[i], next) /\ q[i][1] = next[1]
  /\ Len(q) = Flat(next) - Flat(first)

AnswerWords == Bufs \X (1 .. PktWords)

\* The place of a word of an answer, which is that of the first word of the
\* command it answers, moved on.
PlaceOf(w)  == <<w[1][1][1], w[1][1][2], w[2]>>
Places2h(q) == [i \in 1 .. Len(q) |-> PlaceOf(q[i])]

Types ==
  /\ TypeOK
  /\ h2f \in Seq(Words) /\ f2h \in Seq(AnswerWords) /\ rx \in Seq(AnswerWords)
  /\ next_word \in (0 .. MaxSessions) \X (1 .. MaxCmds + 1) \X (1 .. PktWords)
  /\ next_word[1] = session
  /\ next_word[3] > 1 => next_word[2] <= MaxCmds
  /\ host = "up" => session > 0 /\ w_open /\ r_open

\* A closed file, and a firmware between two packets.
RestInv ==
  /\ ~w_open => h2f = <<>>
  /\ ~r_open => f2h = <<>>
  /\ pc \notin {"read", "answer"} => cnt = 0

\* What the firmware reads next, what it writes next, what the host reads next.
ToRead   == <<session, answered + (IF pc \in {"execute", "answer"} THEN 2 ELSE 1),
              IF pc = "read" THEN cnt + 1 ELSE 1>>
ToAnswer == <<session, answered + 1, IF pc = "answer" THEN cnt + 1 ELSE 1>>
ToTake   == <<session, received + 1, IF Len(rx) = PktWords THEN 1 ELSE Len(rx) + 1>>

\* A program that keeps its commands whole.
Whole == host = "up" /\ kind # "slow"

CommandInv ==
  /\ Chain(h2f, ToRead, next_word)
  /\ pc = "reset" \/ (pc = "read" /\ cnt = 0) => h2f # <<>>
  /\ pc = "read" => \A i \in 1 .. cnt : buf[i] = <<session, answered + 1, i>>
  /\ pc \in {"execute", "answer"} => buf = Command(session, answered + 1)
  /\ answered + (IF pc \in {"execute", "answer"} THEN 2 ELSE 1) <= next_word[2]

AnswerInv ==
  /\ Chain(Places2h(f2h), ToTake, ToAnswer)
  /\ \A i \in 1 .. Len(f2h) :
       f2h[i][1] = Command(f2h[i][1][1][1], f2h[i][1][1][2])
  /\ received <= answered
  /\ Outstanding <= Window

\* A polite program exits when everything is answered.
Settled ==
  /\ h2f = <<>> /\ pc = "poll"
  /\ next_word[2] - 1 = answered /\ answered = received

ChannelInv ==
  /\ Whole => CommandInv /\ AnswerInv
  /\ host = "down" /\ kind = "polite" => Settled

IInv == Types /\ RestInv /\ ChannelInv /\ AnswerMatches

-----------------------------------------------------------------------------
(* Chains.                                                                 *)

\* The place after a place.
LEMMA SuccFacts ==
  ASSUME NEW w \in Places
  PROVE  /\ Succ(w) \in Places /\ Succ(w)[1] = w[1]
         /\ Before(w, Succ(w)) /\ Flat(Succ(w)) = Flat(w) + 1
         /\ Flat(w) \in Int
         /\ \A v \in Places : Before(v, w) => Before(v, Succ(w))
<1>1. /\ w[1] \in Nat /\ w[2] \in Nat /\ w[3] \in 1 .. PktWords
      /\ PktWords \in Nat /\ PktWords > 1
  BY PktAssumption DEF Places
<1>2. CASE w[3] < PktWords
  <2>1. Succ(w) = <<w[1], w[2], w[3] + 1>>
    BY <1>2 DEF Succ
  <2>2. Succ(w) \in Places
    BY <1>1, <1>2, <2>1 DEF Places
  <2>3. (w[2] - 1) * PktWords \in Int
    BY <1>1
  <2>4. Flat(Succ(w)) = Flat(w) + 1 /\ Flat(w) \in Int
    BY <1>1, <2>1, <2>3 DEF Flat
  <2> QED BY <1>1, <2>1, <2>2, <2>4 DEF Before, Places
<1>3. CASE ~(w[3] < PktWords)
  <2>1. Succ(w) = <<w[1], w[2] + 1, 1>> /\ w[3] = PktWords
    BY <1>1, <1>3 DEF Succ
  <2>2. Succ(w) \in Places
    BY <1>1, <2>1 DEF Places
  <2>3. (w[2] - 1) * PktWords \in Int /\ ((w[2] + 1) - 1) * PktWords = (w[2] - 1) * PktWords + PktWords
    BY <1>1
  <2>4. Flat(Succ(w)) = Flat(w) + 1 /\ Flat(w) \in Int
    BY <1>1, <2>1, <2>3 DEF Flat
  <2> QED BY <1>1, <2>1, <2>2, <2>4 DEF Before, Places
<1> QED BY <1>2, <1>3

\* Nothing is under way when reader and writer are at the same place.
LEMMA ChainEmpty ==
  ASSUME NEW f \in Places
  PROVE  Chain(<<>>, f, f)
<1>1. <<>> \in Seq(Places) /\ Len(<<>>) = 0
  BY EmptySeq
<1>2. Flat(f) \in Int
  BY SuccFacts
<1> QED BY <1>1, <1>2 DEF Chain

\* The writer puts the word it has counted to.
LEMMA ChainAppend ==
  ASSUME NEW q, NEW f \in Places, NEW n \in Places, Chain(q, f, n)
  PROVE  Chain(Append(q, n), f, Succ(n))
<1> DEFINE t == Append(q, n)
<1>1. q \in Seq(Places) /\ Len(q) \in Nat
  BY LenProperties DEF Chain
<1>2. /\ t \in Seq(Places) /\ Len(t) = Len(q) + 1 /\ t[Len(q) + 1] = n
      /\ \A i \in 1 .. Len(q) : t[i] = q[i]
  BY <1>1, AppendProperties
<1>3. /\ \A i \in 1 .. Len(q) - 1 : q[i + 1] = Succ(q[i])
      /\ \A i \in 1 .. Len(q) : Before(q[i], n) /\ q[i][1] = n[1] /\ q[i] \in Places
      /\ Len(q) = Flat(n) - Flat(f)
      /\ q = <<>> <=> Len(q) = 0
      /\ q = <<>> => f = n
      /\ q # <<>> => q[1] = f /\ Succ(q[Len(q)]) = n
  BY <1>1, EmptySeq, ElementOfSeq DEF Chain
<1> HIDE DEF t
<1>4. t # <<>> /\ t[1] = f /\ Succ(t[Len(t)]) = Succ(n)
  <2>1. t # <<>>
    BY <1>1, <1>2, EmptySeq
  <2>2. CASE q = <<>>
    BY <1>2, <1>3, <2>1, <2>2
  <2>3. CASE q # <<>>
    <3>1. 1 \in 1 .. Len(q)
      BY <1>1, <1>3, <2>3
    <3> QED BY <1>2, <1>3, <2>1, <2>3, <3>1
  <2> QED BY <2>2, <2>3
<1>5. ASSUME NEW i \in 1 .. Len(t) - 1 PROVE t[i + 1] = Succ(t[i])
  <2>1. CASE i = Len(q)
    BY <1>1, <1>2, <1>3, <1>5, <2>1
  <2>2. CASE i # Len(q)
    <3>1. i \in 1 .. Len(q) /\ i + 1 \in 1 .. Len(q) /\ i \in 1 .. Len(q) - 1
      BY <1>1, <1>2, <1>5, <2>2
    <3> QED BY <1>2, <1>3, <3>1
  <2> QED BY <2>1, <2>2
<1>6. ASSUME NEW i \in 1 .. Len(t) PROVE Before(t[i], Succ(n)) /\ t[i][1] = Succ(n)[1]
  <2>1. CASE i = Len(q) + 1
    BY <1>2, <2>1, SuccFacts
  <2>2. CASE i # Len(q) + 1
    <3>1. i \in 1 .. Len(q)
      BY <1>1, <1>2, <1>6, <2>2
    <3> QED BY <1>2, <1>3, <3>1, SuccFacts
  <2> QED BY <2>1, <2>2
<1>7. Len(t) = Flat(Succ(n)) - Flat(f)
  <2>1. Flat(n) \in Int /\ Flat(f) \in Int /\ Flat(Succ(n)) = Flat(n) + 1
    BY SuccFacts
  <2> QED BY <1>2, <1>3, <2>1
<1> QED BY <1>2, <1>4, <1>5, <1>6, <1>7 DEF Chain, t

\* The reader takes the word it has counted to.
LEMMA ChainTail ==
  ASSUME NEW q, NEW f \in Places, NEW n \in Places, Chain(q, f, n), q # <<>>
  PROVE  /\ Head(q) = f /\ Chain(Tail(q), Succ(f), n)
         /\ Before(f, n) /\ f[1] = n[1]
<1> DEFINE t == Tail(q)
<1>1. q \in Seq(Places) /\ Len(q) \in Nat /\ Len(q) > 0
  BY LenProperties, EmptySeq DEF Chain
<1>2. /\ t \in Seq(Places) /\ Len(t) = Len(q) - 1 /\ Head(q) = q[1]
      /\ \A i \in 1 .. Len(t) : t[i] = q[i + 1]
  BY <1>1, HeadTailProperties
<1>3. /\ \A i \in 1 .. Len(q) - 1 : q[i + 1] = Succ(q[i])
      /\ \A i \in 1 .. Len(q) : Before(q[i], n) /\ q[i][1] = n[1]
      /\ Len(q) = Flat(n) - Flat(f) /\ q[1] = f /\ Succ(q[Len(q)]) = n
  BY DEF Chain
<1>4. t = <<>> <=> Len(t) = 0
  BY <1>2, EmptySeq
<1> HIDE DEF t
<1>5. IF t = <<>> THEN Succ(f) = n ELSE t[1] = Succ(f) /\ Succ(t[Len(t)]) = n
  <2>1. CASE Len(q) = 1
    BY <1>2, <1>3, <1>4, <2>1
  <2>2. CASE Len(q) # 1
    <3>1. t # <<>> /\ 1 \in 1 .. Len(t) /\ Len(t) \in 1 .. Len(t) /\ 1 \in 1 .. Len(q) - 1
          /\ Len(t) + 1 = Len(q)
      BY <1>1, <1>2, <1>4, <2>2
    <3>2. t[1] = q[1 + 1] /\ q[1 + 1] = Succ(q[1]) /\ t[Len(t)] = q[Len(q)]
      BY <1>2, <1>3, <3>1
    <3> QED BY <1>3, <3>1, <3>2
  <2> QED BY <2>1, <2>2
<1>6. ASSUME NEW i \in 1 .. Len(t) - 1 PROVE t[i + 1] = Succ(t[i])
  <2>1. i \in 1 .. Len(t) /\ i + 1 \in 1 .. Len(t) /\ i + 1 \in 1 .. Len(q) - 1
    BY <1>1, <1>2, <1>6
  <2> QED BY <1>2, <1>3, <2>1
<1>7. ASSUME NEW i \in 1 .. Len(t) PROVE Before(t[i], n) /\ t[i][1] = n[1]
  <2>1. i + 1 \in 1 .. Len(q)
    BY <1>1, <1>2, <1>7
  <2> QED BY <1>2, <1>3, <2>1
<1>8. Len(t) = Flat(n) - Flat(Succ(f))
  <2>1. Flat(n) \in Int /\ Flat(f) \in Int /\ Flat(Succ(f)) = Flat(f) + 1
    BY SuccFacts
  <2> QED BY <1>2, <1>3, <2>1
<1>9. Before(f, n) /\ f[1] = n[1] /\ Head(q) = f
  <2>1. 1 \in 1 .. Len(q)
    BY <1>1
  <2> QED BY <1>2, <1>3, <2>1
<1>10. Chain(t, Succ(f), n)
  BY <1>2, <1>5, <1>6, <1>7, <1>8 DEF Chain
<1> QED BY <1>9, <1>10 DEF t

\* The places of the answers, when one word more is put.
LEMMA PlacesAppend ==
  ASSUME NEW q \in Seq(AnswerWords), NEW w \in AnswerWords
  PROVE  Places2h(Append(q, w)) = Append(Places2h(q), PlaceOf(w))
<1>1. /\ Len(q) \in Nat /\ Len(Append(q, w)) = Len(q) + 1
      /\ Append(q, w)[Len(q) + 1] = w
      /\ \A i \in 1 .. Len(q) : Append(q, w)[i] = q[i]
  BY AppendProperties, LenProperties
<1>2. Len(Places2h(q)) = Len(q)
  BY <1>1 DEF Places2h
<1>3. Append(Places2h(q), PlaceOf(w)) =
        [i \in 1 .. Len(q) + 1 |-> IF i <= Len(q) THEN PlaceOf(q[i]) ELSE PlaceOf(w)]
  BY <1>1, <1>2 DEF Places2h
<1>4. ASSUME NEW i \in 1 .. Len(q) + 1
      PROVE  PlaceOf(Append(q, w)[i]) = IF i <= Len(q) THEN PlaceOf(q[i]) ELSE PlaceOf(w)
  BY <1>1
<1> QED BY <1>1, <1>3, <1>4 DEF Places2h

\* And when one is taken.
LEMMA PlacesTail ==
  ASSUME NEW q \in Seq(AnswerWords), q # <<>>
  PROVE  /\ Places2h(Tail(q)) = Tail(Places2h(q))
         /\ Head(Places2h(q)) = PlaceOf(Head(q)) /\ Places2h(q) # <<>>
<1>1. /\ Len(q) \in Nat /\ Len(q) > 0 /\ Len(Tail(q)) = Len(q) - 1 /\ Head(q) = q[1]
      /\ \A i \in 1 .. Len(Tail(q)) : Tail(q)[i] = q[i + 1]
  BY HeadTailProperties, LenProperties, EmptySeq
<1>2. Len(Places2h(q)) = Len(q) /\ DOMAIN Places2h(q) = 1 .. Len(q)
  BY <1>1 DEF Places2h
<1>3. Tail(Places2h(q)) = [i \in 1 .. Len(q) - 1 |-> Places2h(q)[i + 1]]
  <2> DEFINE t == Places2h(q)
  <2> DEFINE S == {PlaceOf(q[i]) : i \in 1 .. Len(q)}
  <2>1. Len(t) = Len(q) /\ t \in [1 .. Len(q) -> S]
    BY <1>2 DEF Places2h
  <2> HIDE DEF t, S
  <2>2. t \in Seq(S) /\ t # <<>>
    BY <1>1, <2>1, SeqDef, EmptySeq
  <2>3. /\ Tail(t) \in [1 .. Len(t) - 1 -> S]
        /\ \A i \in 1 .. Len(t) - 1 : Tail(t)[i] = t[i + 1]
    BY <2>2, HeadTailProperties, LenProperties
  <2> QED BY <2>1, <2>3 DEF t
<1>4. ASSUME NEW i \in 1 .. Len(q) - 1
      PROVE  Places2h(q)[i + 1] = PlaceOf(Tail(q)[i])
  BY <1>1 DEF Places2h
<1>5. Places2h(Tail(q)) = Tail(Places2h(q))
  BY <1>1, <1>3, <1>4 DEF Places2h
<1>6. Head(Places2h(q)) = PlaceOf(Head(q))
  BY <1>1, <1>2 DEF Places2h
<1>7. Places2h(q) # <<>>
  <2> DEFINE t == Places2h(q)
  <2>1. Len(t) > 0 /\ Len(<<>>) = 0
    BY <1>1, <1>2, EmptySeq
  <2> HIDE DEF t
  <2>2. t # <<>>
    BY <2>1
  <2> QED BY <2>2 DEF t
<1> QED BY <1>5, <1>6, <1>7

-----------------------------------------------------------------------------
(* The types.                                                              *)

\* Nothing has been started.
LEMMA ChannelInit ==
  ASSUME Init
  PROVE  IInv
<1>1. PktWords \in Nat /\ PktWords > 1 /\ MaxSessions \in Nat /\ MaxCmds \in Nat /\ F2HDepth \in Nat
  BY PktAssumption, BoundsAssumption, DepthAssumption
<1>2. buf \in Bufs
  BY DEF Init, Bufs
<1>8. Len(<<>>) = 0 /\ DOMAIN <<>> = {}
  BY EmptySeq
<1>3. TypeOK
  <2>1. next_word[2] = 1 /\ next_word[3] = 1 /\ last \in (0 .. MaxSessions) \X (0 .. MaxCmds)
    BY <1>1 DEF Init
  <2>2. /\ \A i \in DOMAIN h2f : h2f[i] \in Words
        /\ Len(rx) <= PktWords /\ Len(h2f) <= H2FDepth /\ h2f_seen \in 0 .. Len(h2f)
        /\ Len(f2h) <= F2HDepth
    <3>1. h2f = <<>> /\ rx = <<>> /\ f2h = <<>> /\ h2f_seen = 0
      BY DEF Init
    <3>2. 0 <= PktWords /\ 0 <= H2FDepth /\ 0 <= F2HDepth /\ 0 \in 0 .. 0
      BY <1>1, DepthAssumption
    <3> QED BY <1>8, <3>1, <3>2
  <2>3. /\ host \in {"up", "down"} /\ session \in 0 .. MaxSessions /\ kind \in Kinds
        /\ w_open \in BOOLEAN /\ r_open \in BOOLEAN /\ received \in 0 .. MaxCmds
        /\ h2f_q \in Words \cup {NoWord} /\ pc = "poll" /\ cnt \in 0 .. PktWords - 1
        /\ answered \in Nat /\ next_word[2] \in 1 .. MaxCmds + 1
        /\ next_word[3] \in 1 .. PktWords
    <3>1. /\ 0 \in 0 .. MaxSessions /\ 0 \in 0 .. MaxCmds /\ 0 \in 0 .. PktWords - 1
          /\ 1 \in 1 .. MaxCmds + 1 /\ 1 \in 1 .. PktWords /\ 0 \in Nat
      BY <1>1
    <3> QED BY <2>1, <3>1 DEF Init
  <2> QED BY <1>2, <2>1, <2>2, <2>3 DEF TypeOK
<1>4. Types
  BY <1>1, <1>3, EmptySeq DEF Types, Init
<1>5. RestInv
  BY DEF RestInv, Init
<1>6. ChannelInv
  BY <1>1 DEF ChannelInv, Whole, Settled, Init
<1>7. AnswerMatches
  BY <1>3 DEF AnswerMatches, Init
<1> QED BY <1>4, <1>5, <1>6, <1>7 DEF IInv

\* What a FIFO gives and takes.
LEMMA FifoTypes ==
  /\ \A S : \A q \in Seq(S) : \A w \in S : Append(q, w) \in Seq(S) /\ Len(Append(q, w)) = Len(q) + 1
  /\ \A S : \A q \in Seq(S) : Len(q) \in Nat /\ \A i \in DOMAIN q : q[i] \in S
  /\ \A S : \A q \in Seq(S) : q # <<>> =>
       Head(q) \in S /\ Tail(q) \in Seq(S) /\ Len(Tail(q)) = Len(q) - 1 /\ Len(q) > 0
  /\ \A S : <<>> \in Seq(S)
BY AppendProperties, HeadTailProperties, LenProperties, ElementOfSeq, EmptySeq

\* The command in a buffer of answers is one of the host, or none.
LEMMA IdType ==
  ASSUME NEW b \in Bufs
  PROVE  Id(b) \in (0 .. MaxSessions) \X (0 .. MaxCmds)
<1>1. MaxSessions \in Nat /\ MaxCmds \in Nat /\ 1 \in 1 .. PktWords
  BY BoundsAssumption, PktAssumption
<1>2. b[1] \in Words \cup {NoWord}
  BY <1>1 DEF Bufs
<1> QED BY <1>1, <1>2 DEF Id, Words, NoWord

\* A number counts from one.
LEMMA IdOfCommand ==
  ASSUME NEW s \in 1 .. MaxSessions, NEW c \in 1 .. MaxCmds
  PROVE  Id(Command(s, c)) = <<s, c>>
<1>1. 1 \in 1 .. PktWords
  BY PktAssumption
<1>2. Command(s, c)[1] = <<s, c, 1>>
  BY <1>1 DEF Command
<1> QED BY <1>2 DEF Id

\* The numbers and lengths that the types imply.
Sizes ==
  /\ PktWords \in Nat /\ PktWords > 1 /\ MaxSessions \in Nat /\ MaxCmds \in Nat
  /\ F2HDepth \in Nat /\ H2FDepth \in Nat /\ 1 \in 1 .. PktWords
  /\ cnt \in Nat /\ cnt < PktWords /\ cnt + 1 \in 1 .. PktWords
  /\ session \in Nat /\ session <= MaxSessions
  /\ received \in Nat /\ received <= MaxCmds /\ answered \in Nat
  /\ Len(h2f) \in Nat /\ Len(h2f) <= H2FDepth
  /\ h2f_seen \in Nat /\ h2f_seen <= Len(h2f)
  /\ Len(rx) \in Nat /\ Len(rx) <= PktWords
  /\ Len(f2h) \in Nat /\ Len(f2h) <= F2HDepth
  /\ next_word = <<session, next_word[2], next_word[3]>>
  /\ next_word[2] \in 1 .. MaxCmds + 1 /\ next_word[3] \in 1 .. PktWords
  /\ next_word[3] > 1 => next_word[2] <= MaxCmds

\* They are implied by the types.
LEMMA Numbers ==
  ASSUME Types
  PROVE  Sizes
<1>1. TypeOK
  BY DEF Types
<1>2. /\ PktWords \in Nat /\ PktWords > 1 /\ MaxSessions \in Nat /\ MaxCmds \in Nat
      /\ F2HDepth \in Nat /\ H2FDepth \in Nat
  BY PktAssumption, BoundsAssumption, DepthAssumption
<1>3. cnt \in Nat /\ cnt < PktWords
  BY <1>1, <1>2 DEF TypeOK
<1>4. session \in Nat /\ session <= MaxSessions
  BY <1>1, <1>2 DEF TypeOK
<1>5. received \in Nat /\ received <= MaxCmds /\ answered \in Nat
  BY <1>1, <1>2 DEF TypeOK
<1>6. Len(h2f) \in Nat /\ Len(rx) \in Nat /\ Len(f2h) \in Nat
  BY FifoTypes DEF Types
<1>7. Len(h2f) <= H2FDepth /\ Len(rx) <= PktWords /\ Len(f2h) <= F2HDepth
  BY <1>1 DEF TypeOK
<1>8. h2f_seen \in Nat /\ h2f_seen <= Len(h2f)
  BY <1>1, <1>6 DEF TypeOK
<1>9. /\ next_word = <<session, next_word[2], next_word[3]>>
      /\ next_word[2] \in 1 .. MaxCmds + 1 /\ next_word[3] \in 1 .. PktWords
      /\ next_word[3] > 1 => next_word[2] <= MaxCmds
  BY DEF Types
<1>10. cnt + 1 \in 1 .. PktWords /\ 1 \in 1 .. PktWords
  BY <1>2, <1>3
<1> QED BY <1>2, <1>3, <1>4, <1>5, <1>6, <1>7, <1>8, <1>9, <1>10 DEF Sizes

\* Every step keeps the types.
LEMMA TypesStep ==
  ASSUME Types, Next
  PROVE  Types'
<1>12. Sizes
  BY Numbers
<1> USE DEF Types
<1>0. /\ PktWords \in Nat /\ PktWords > 1 /\ MaxSessions \in Nat /\ MaxCmds \in Nat
      /\ F2HDepth \in Nat /\ H2FDepth \in Nat /\ 1 \in 1 .. PktWords
  BY <1>12 DEF Sizes
<1>11. /\ <<>> \in Seq(Words) /\ <<>> \in Seq(AnswerWords)
      /\ Len(<<>>) = 0 /\ DOMAIN <<>> = {} /\ 0 \in 0 .. 0
  BY EmptySeq
<1>1. CASE Start
  <2>1. /\ host' = "up" /\ session' \in 1 .. MaxSessions /\ kind' \in Kinds
        /\ w_open' = TRUE /\ r_open' = TRUE /\ rx' = <<>> /\ received' = 0
        /\ next_word' = <<session', 1, 1>> /\ answered' = 0
        /\ UNCHANGED <<last, h2f, h2f_seen, h2f_q, f2h, pc, cnt, buf>>
    BY <1>0, <1>1 DEF Start, TypeOK
  <2>2. last' \in (0 .. MaxSessions) \X (0 .. MaxCmds)
    BY <2>1 DEF TypeOK
  <2>3. TypeOK'
    BY <1>0, <2>1, <2>2, <1>11 DEF TypeOK
  <2> QED BY <1>0, <2>1, <2>3, <1>11
<1>2. CASE Exit
  <2>1. host' = "down" /\ UNCHANGED <<session, kind, next_word, rx, received, last,
          w_open, r_open, h2f, h2f_seen, h2f_q, f2h, pc, cnt, buf, answered>>
    BY <1>2 DEF Exit, openVars, fwVars
  <2> QED BY <2>1 DEF TypeOK
<1>3. CASE CloseWrite
  <2>1. /\ host = "down" /\ w_open' = FALSE /\ h2f' = <<>> /\ h2f_seen' = 0
        /\ h2f_q' \in {h2f_q, NoWord}
        /\ UNCHANGED <<host, session, kind, next_word, rx, received, last, r_open, f2h,
                       pc, cnt, buf, answered>>
    BY <1>3 DEF CloseWrite, hostVars, fwVars
  <2>2. /\ \A i \in DOMAIN h2f' : h2f'[i] \in Words
        /\ Len(h2f') <= H2FDepth /\ h2f_seen' \in 0 .. Len(h2f')
    BY <1>0, <2>1, <1>11
  <2>3. TypeOK'
    BY <2>1, <2>2 DEF TypeOK
  <2>4. host' # "up"
    BY <2>1
  <2> QED BY <2>1, <2>3, <2>4, <1>11
<1>4. CASE CloseRead
  <2>1. /\ host = "down" /\ r_open' = FALSE /\ f2h' = <<>>
        /\ UNCHANGED <<host, session, kind, next_word, rx, received, last, w_open,
                       h2f, h2f_seen, h2f_q, pc, cnt, buf, answered>>
    BY <1>4 DEF CloseRead, hostVars, fwVars
  <2>2. Len(f2h') <= F2HDepth
    BY <1>0, <2>1, <1>11
  <2>3. TypeOK'
    BY <2>1, <2>2 DEF TypeOK
  <2>4. host' # "up"
    BY <2>1
  <2> QED BY <2>1, <2>3, <2>4, <1>11
<1>5. CASE HostWrite
  <2>1. next_word \in Words
    BY <1>0, <1>5 DEF HostWrite, Words, TypeOK
  <2>2. /\ h2f' \in Seq(Words) /\ Len(h2f') <= H2FDepth /\ h2f_seen <= Len(h2f')
        /\ \A i \in DOMAIN h2f' : h2f'[i] \in Words
    <3>1. h2f' = Append(h2f, next_word) /\ Len(h2f) < H2FDepth
      BY <1>5 DEF HostWrite
    <3>2. h2f' \in Seq(Words) /\ Len(h2f') = Len(h2f) + 1
      BY <2>1, <3>1, FifoTypes
    <3>3. \A i \in DOMAIN h2f' : h2f'[i] \in Words
      BY <3>2, FifoTypes
    <3> QED BY SMTT(30), <3>1, <3>2, <3>3, <1>12 DEF Sizes
  <2>3. /\ next_word' \in (0 .. MaxSessions) \X (1 .. MaxCmds + 1) \X (1 .. PktWords)
        /\ next_word'[1] = session
        /\ next_word'[3] > 1 => next_word'[2] <= MaxCmds
    <3>1. next_word[2] <= MaxCmds
      BY <1>5 DEF HostWrite
    <3>2. CASE next_word[3] < PktWords
      <4>1. next_word' = <<next_word[1], next_word[2], next_word[3] + 1>>
        BY <1>5, <3>2 DEF HostWrite
      <4> QED BY <1>0, <3>1, <3>2, <4>1
    <3>3. CASE ~(next_word[3] < PktWords)
      <4>1. next_word' = <<session, next_word[2] + 1, 1>>
        BY <1>5, <3>3 DEF HostWrite
      <4>2. session \in 0 .. MaxSessions /\ next_word[2] + 1 \in 1 .. MaxCmds + 1
        BY SMTT(30), <3>1, <1>12 DEF Sizes
      <4> QED BY <1>0, <4>1, <4>2
    <3> QED BY <3>2, <3>3
  <2>4. UNCHANGED <<host, session, kind, rx, received, last, w_open, r_open, h2f_seen,
                    h2f_q, f2h, pc, cnt, buf, answered>>
    BY <1>5 DEF HostWrite, openVars, fwVars
  <2>5. h2f_seen \in 0 .. Len(h2f')
    BY <2>2, FifoTypes, <1>12 DEF Sizes
  <2>6. TypeOK'
    <3>1. next_word'[2] \in 1 .. MaxCmds + 1 /\ next_word'[3] \in 1 .. PktWords
      BY <2>3
    <3> QED BY <2>2, <2>4, <2>5, <3>1 DEF TypeOK
  <2>7. rx' \in Seq(AnswerWords) /\ f2h' \in Seq(AnswerWords)
        /\ (host' = "up" => session' > 0 /\ w_open' /\ r_open')
    BY <2>4
  <2> QED BY <2>2, <2>3, <2>4, <2>6, <2>7
<1>6. CASE SeeWritten
  <2>1. /\ h2f_seen' \in 0 .. Len(h2f)
        /\ UNCHANGED <<host, session, kind, next_word, rx, received, last, w_open,
                       r_open, h2f, h2f_q, f2h, pc, cnt, buf, answered>>
    BY <1>6, FifoTypes DEF SeeWritten, TypeOK, hostVars, openVars, fwVars
  <2> QED BY <2>1 DEF TypeOK
<1>7. CASE HostRead
  <2>1. /\ f2h # <<>> /\ f2h' = Tail(f2h)
        /\ UNCHANGED <<host, session, kind, next_word, w_open, r_open, h2f, h2f_seen,
                       h2f_q, pc, cnt, buf, answered>>
    BY <1>7 DEF HostRead, openVars, fwVars
  <2>2. /\ Head(f2h) \in AnswerWords /\ f2h' \in Seq(AnswerWords)
        /\ Len(f2h') <= F2HDepth
    BY <1>0, <2>1, FifoTypes DEF TypeOK
  <2>3. rx' \in Seq(AnswerWords) /\ Len(rx') <= PktWords
    <3>1. CASE Len(rx) = PktWords
      <4>1. rx' = Append(<<>>, Head(f2h))
        BY <1>7, <3>1 DEF HostRead
      <4> QED BY <1>0, <2>2, <4>1, FifoTypes, EmptySeq
    <3>2. CASE Len(rx) # PktWords
      <4>1. rx' = Append(rx, Head(f2h))
        BY <1>7, <3>2 DEF HostRead
      <4> QED BY <1>0, <2>2, <3>2, <4>1, FifoTypes DEF TypeOK
    <3> QED BY <3>1, <3>2
  <2>4. received' \in 0 .. MaxCmds
    <3>1. received + 1 <= MaxCmds
      <4>1. next_word[2] - 1 + (IF next_word[3] > 1 THEN 1 ELSE 0) - received > 0
        BY <1>7 DEF HostRead, Outstanding
      <4> QED BY SMTT(30), <4>1, <1>12 DEF Sizes
    <3>2. received' \in {received, received + 1}
      BY <1>7 DEF HostRead
    <3> QED BY SMTT(30), <3>1, <3>2, <1>12 DEF Sizes
  <2>5. last' \in (0 .. MaxSessions) \X (0 .. MaxCmds)
    <3>1. Head(f2h)[1] \in Bufs
      BY <2>2 DEF AnswerWords
    <3> QED BY <1>7, <3>1, IdType DEF HostRead, TypeOK
  <2> QED BY <2>1, <2>2, <2>3, <2>4, <2>5 DEF TypeOK
<1>8. CASE Poll \/ ToggleReset \/ Execute
  <2>1. /\ pc' \in {"reset", "read", "answer"}
        /\ UNCHANGED <<host, session, kind, next_word, rx, received, last, w_open,
                       r_open, h2f, h2f_seen, h2f_q, f2h, cnt, buf, answered>>
    BY <1>8 DEF Poll, ToggleReset, FifoReset, Execute, hostVars, openVars
  <2> QED BY <2>1 DEF TypeOK
<1>9. CASE ReadWord
  <2> DEFINE word == IF h2f_seen > 0 THEN Head(h2f) ELSE h2f_q
  <2>1. /\ h2f_q' = word /\ buf' = [buf EXCEPT ![cnt + 1] = word]
        /\ IF h2f_seen > 0 THEN h2f' = Tail(h2f) /\ h2f_seen' = h2f_seen - 1
                           ELSE UNCHANGED <<h2f, h2f_seen>>
        /\ ReadLoop /\ pc = "read"
        /\ UNCHANGED <<host, session, kind, next_word, rx, received, last, w_open,
                       r_open, f2h, answered>>
    BY <1>9 DEF ReadWord, hostVars, openVars
  <2>2. h2f_seen > 0 => h2f # <<>>
    BY FifoTypes, EmptySeq DEF TypeOK
  <2>3. word \in Words \cup {NoWord}
    BY <2>2, FifoTypes DEF TypeOK
  <2> HIDE DEF word
  <2>4. buf' \in Bufs
    BY <2>1, <2>3 DEF TypeOK, Bufs
  <2>5. cnt' \in 0 .. PktWords - 1 /\ pc' \in {"read", "execute"}
    BY SMTT(30), <2>1, <1>12 DEF ReadLoop, Sizes
  <2>6. /\ h2f' \in Seq(Words) /\ Len(h2f') <= H2FDepth /\ h2f_seen' \in 0 .. Len(h2f')
        /\ \A i \in DOMAIN h2f' : h2f'[i] \in Words
    <3>1. CASE h2f_seen > 0
      <4>1. h2f' = Tail(h2f) /\ h2f_seen' = h2f_seen - 1
        BY <2>1, <3>1
      <4>2. h2f' \in Seq(Words) /\ Len(h2f') = Len(h2f) - 1
        BY <2>2, <3>1, <4>1, FifoTypes
      <4>3. \A i \in DOMAIN h2f' : h2f'[i] \in Words
        BY <4>2, FifoTypes
      <4> QED BY <3>1, <4>1, <4>2, <4>3, <1>12 DEF Sizes
    <3>2. CASE ~(h2f_seen > 0)
      BY <2>1, <3>2 DEF TypeOK
    <3> QED BY <3>1, <3>2
  <2> QED BY <2>1, <2>3, <2>4, <2>5, <2>6 DEF TypeOK
<1>10. CASE Answer
  <2>1. /\ Put(<<buf, cnt + 1>>) /\ AnswerLoop /\ pc = "answer"
        /\ UNCHANGED <<host, session, kind, next_word, rx, received, last, w_open,
                       r_open, h2f, h2f_seen, h2f_q, buf>>
    BY <1>10 DEF Answer, hostVars, openVars
  <2>2. <<buf, cnt + 1>> \in AnswerWords
    BY SMTT(30), <1>0 DEF TypeOK, AnswerWords
  <2>3. f2h' \in Seq(AnswerWords) /\ Len(f2h') <= F2HDepth
    BY <1>0, <2>1, <2>2, FifoTypes DEF Put, TypeOK
  <2>4. cnt' \in 0 .. PktWords - 1 /\ pc' \in {"answer", "poll"} /\ answered' \in Nat
    <3>1. CASE cnt + 1 < PktWords
      BY <2>1, <3>1, <1>12 DEF AnswerLoop, Sizes
    <3>2. CASE ~(cnt + 1 < PktWords)
      BY <2>1, <3>2, <1>12 DEF AnswerLoop, Sizes
    <3> QED BY <3>1, <3>2
  <2> QED BY <2>1, <2>3, <2>4 DEF TypeOK
<1> QED
  BY <1>1, <1>2, <1>3, <1>4, <1>5, <1>6, <1>7, <1>8, <1>9, <1>10 DEF Next, Firmware

-----------------------------------------------------------------------------
(* The commands, as far as the firmware.                                   *)

\* The places both sides have counted to are places.
LEMMA PlacesTyped ==
  ASSUME Types
  PROVE  ToRead \in Places /\ ToAnswer \in Places /\ ToTake \in Places /\ next_word \in Places
<1>1. Sizes
  BY Numbers
<1>2. ToRead \in Places /\ ToAnswer \in Places
  <2>1. /\ session \in Nat /\ answered + 1 \in Nat /\ answered + 2 \in Nat
        /\ cnt + 1 \in 1 .. PktWords /\ 1 \in 1 .. PktWords
    BY <1>1 DEF Sizes
  <2>2. ToRead \in Places
    BY <2>1 DEF ToRead, Places
  <2> QED BY <2>1, <2>2 DEF ToAnswer, Places
<1>3. Len(rx) # PktWords => Len(rx) + 1 \in 1 .. PktWords
  BY <1>1 DEF Sizes
<1>4. ToTake \in Places
  BY SMTT(30), <1>1, <1>3 DEF Sizes, ToTake, Places
<1>5. next_word[2] \in Nat
  BY <1>1 DEF Sizes
<1>6. next_word \in Places
  BY <1>1, <1>5 DEF Sizes, Places
<1> QED BY <1>2, <1>4, <1>6

\* What is known to be in the FIFO to the firmware is there.
LEMMA SeenIsThere ==
  ASSUME Types, h2f_seen > 0
  PROVE  h2f # <<>>
<1>1. Sizes /\ Len(<<>>) = 0
  BY Numbers, EmptySeq
<1> QED BY <1>1 DEF Sizes

\* Closed files leave nothing in the FIFOs, and a packet begins at word one.
LEMMA RestStep ==
  ASSUME Types, RestInv, Next
  PROVE  RestInv'
<1>1. h2f = <<>> => ~(h2f_seen > 0)
  BY SeenIsThere
<1>2. host = "up" => w_open /\ r_open
  BY DEF Types
<1>3. ~w_open' => h2f' = <<>>
  <2>1. CASE Start \/ Exit \/ CloseWrite \/ CloseRead
    BY <2>1 DEF Start, Exit, CloseWrite, CloseRead, openVars, RestInv
  <2>2. CASE HostWrite \/ SeeWritten \/ HostRead
    BY <1>2, <2>2 DEF HostWrite, SeeWritten, HostRead, openVars, RestInv
  <2>3. CASE Poll \/ ToggleReset \/ Execute \/ Answer
    BY <2>3 DEF Poll, ToggleReset, Execute, Answer, openVars, RestInv
  <2>4. CASE ReadWord
    BY <1>1, <2>4 DEF ReadWord, openVars, RestInv
  <2> QED BY <2>1, <2>2, <2>3, <2>4 DEF Next, Firmware
<1>4. ~r_open' => f2h' = <<>>
  <2>1. CASE Start \/ Exit \/ CloseWrite \/ CloseRead
    BY <2>1 DEF Start, Exit, CloseWrite, CloseRead, openVars, RestInv
  <2>2. CASE HostWrite \/ SeeWritten \/ HostRead
    BY <1>2, <2>2 DEF HostWrite, SeeWritten, HostRead, openVars, RestInv
  <2>3. CASE Poll \/ ToggleReset \/ Execute \/ ReadWord
    BY <2>3 DEF Poll, ToggleReset, FifoReset, Execute, ReadWord, openVars, RestInv
  <2>4. CASE Answer
    BY <2>4 DEF Answer, Put, openVars, RestInv
  <2> QED BY <2>1, <2>2, <2>3, <2>4 DEF Next, Firmware
<1>5. pc' \notin {"read", "answer"} => cnt' = 0
  <2>1. CASE Start \/ Exit \/ CloseWrite \/ CloseRead
    BY <2>1 DEF Start, Exit, CloseWrite, CloseRead, fwVars, RestInv
  <2>2. CASE HostWrite \/ SeeWritten \/ HostRead
    BY <2>2 DEF HostWrite, SeeWritten, HostRead, fwVars, RestInv
  <2>3. CASE Poll \/ ToggleReset \/ Execute
    BY <2>3 DEF Poll, ToggleReset, Execute, RestInv
  <2>4. CASE ReadWord
    BY <2>4 DEF ReadWord, ReadLoop, RestInv
  <2>5. CASE Answer
    BY <2>5 DEF Answer, AnswerLoop, RestInv
  <2> QED BY <2>1, <2>2, <2>3, <2>4, <2>5 DEF Next, Firmware
<1> QED BY <1>3, <1>4, <1>5 DEF RestInv

\* A program begins with both FIFOs empty and the firmware waiting.
LEMMA StartStep ==
  ASSUME Types, RestInv, Start
  PROVE  CommandInv' /\ AnswerInv'
<1>1. /\ h2f' = <<>> /\ f2h' = <<>> /\ pc' = "poll" /\ rx' = <<>> /\ received' = 0
      /\ answered' = 0 /\ next_word' = <<session', 1, 1>>
  BY DEF Start, RestInv
<1>2. Len(<<>>) = 0 /\ PktWords \in Nat /\ PktWords > 1 /\ session' \in Nat
      /\ Window \in Nat /\ Window > 0
  <2>1. Sizes
    BY Numbers
  <2>2. session' = session + 1
    BY DEF Start
  <2>3. session' \in Nat
    BY <2>1, <2>2 DEF Sizes
  <2> QED BY <2>3, EmptySeq, PktAssumption, WindowAssumption
<1>3. ToRead' = <<session', 1, 1>> /\ ToAnswer' = <<session', 1, 1>> /\ ToTake' = <<session', 1, 1>>
  BY <1>1, <1>2 DEF ToRead, ToAnswer, ToTake
<1>4. <<session', 1, 1>> \in Places
  BY <1>2 DEF Places
<1>5. Places2h(<<>>) = <<>>
  BY <1>2 DEF Places2h
<1>6. Chain(<<>>, <<session', 1, 1>>, <<session', 1, 1>>)
  BY <1>4, ChainEmpty
<1>7. CommandInv'
  BY <1>1, <1>3, <1>6 DEF CommandInv
<1>8. Outstanding' = 0
  BY <1>1 DEF Outstanding
<1>9. AnswerInv'
  BY <1>1, <1>2, <1>3, <1>5, <1>6, <1>8 DEF AnswerInv
<1> QED BY <1>7, <1>9

\* The host puts the word it has counted to.
LEMMA WriteEffect ==
  ASSUME Types, HostWrite
  PROVE  /\ h2f' = Append(h2f, next_word) /\ next_word' = Succ(next_word) /\ h2f' # <<>>
         /\ next_word[2] <= next_word'[2]
         /\ UNCHANGED <<host, session, kind, rx, received, f2h, pc, cnt, buf, answered>>
<1>1. Sizes
  BY Numbers
<1>2. h2f' = Append(h2f, next_word)
  BY DEF HostWrite
<1>3. next_word' = Succ(next_word) /\ next_word[2] <= next_word'[2]
  <2>1. CASE next_word[3] < PktWords
    <3>1. next_word' = <<session, next_word[2], next_word[3] + 1>>
      BY SMTT(30), <1>1, <2>1 DEF HostWrite, Sizes
    <3> QED BY <1>1, <2>1, <3>1 DEF Succ, Sizes
  <2>2. CASE ~(next_word[3] < PktWords)
    <3>1. next_word' = <<session, next_word[2] + 1, 1>>
      BY <2>2 DEF HostWrite
    <3> QED BY <1>1, <2>2, <3>1 DEF Succ, Sizes
  <2> QED BY <2>1, <2>2
<1>4. Len(h2f') = Len(h2f) + 1 /\ Len(h2f) \in Nat /\ Len(<<>>) = 0
  <2>1. next_word \in Words
    BY <1>1 DEF HostWrite, Words, Sizes, Types
  <2> QED BY <1>1, <1>2, <2>1, FifoTypes, EmptySeq DEF Types
<1>5. h2f' # <<>>
  BY <1>4
<1> QED BY <1>2, <1>3, <1>5 DEF HostWrite, fwVars

\* The firmware takes the word it has counted to: an empty FIFO is never read.
LEMMA ReadEffect ==
  ASSUME Types, Whole, CommandInv, ReadWord
  PROVE  /\ h2f # <<>> /\ h2f' = Tail(h2f) /\ Head(h2f) = ToRead
         /\ Chain(h2f', Succ(ToRead), next_word) /\ Before(ToRead, next_word)
         /\ ToRead = <<session, answered + 1, cnt + 1>>
         /\ buf' = [buf EXCEPT ![cnt + 1] = ToRead]
         /\ ReadLoop /\ pc = "read"
         /\ UNCHANGED <<host, session, kind, next_word, rx, received, f2h, answered>>
<1>1. Sizes
  BY Numbers
<1>2. pc = "read" /\ ToRead = <<session, answered + 1, cnt + 1>>
  BY DEF ReadWord, ToRead
<1>3. h2f_seen > 0
  <2>1. SUFFICES ASSUME ~(h2f_seen > 0) PROVE FALSE
    OBVIOUS
  <2>2. h2f = <<>> /\ NothingComes
    BY <2>1 DEF ReadWord, Whole
  <2>3. next_word = ToRead
    BY <2>2 DEF CommandInv, Chain
  <2>4. w_open
    BY DEF Types, Whole
  <2>5. cnt = 0
    BY <1>1, <1>2, <2>2, <2>3, <2>4 DEF NothingComes, Sizes
  <2> QED BY <1>2, <2>2, <2>5 DEF CommandInv
<1>4. h2f # <<>>
  BY <1>3, SeenIsThere
<1>5. Head(h2f) = ToRead /\ Chain(Tail(h2f), Succ(ToRead), next_word) /\ Before(ToRead, next_word)
  BY <1>4, ChainTail, PlacesTyped DEF CommandInv
<1>6. h2f' = Tail(h2f) /\ buf' = [buf EXCEPT ![cnt + 1] = Head(h2f)] /\ ReadLoop
  BY <1>3 DEF ReadWord
<1> QED BY <1>2, <1>4, <1>5, <1>6 DEF ReadWord, hostVars

\* What the firmware has read and will read stays the command of the host.
LEMMA CommandStep ==
  ASSUME Types, RestInv, Whole, CommandInv, Next, ~Start, host' = "up"
  PROVE  CommandInv'
<1>1. Sizes
  BY Numbers
<1>2. host = "up"
  BY DEF Whole
<1>3. CASE HostWrite
  <2>1. Chain(h2f', ToRead, next_word')
    BY <1>3, WriteEffect, ChainAppend, PlacesTyped DEF CommandInv
  <2>2. ToRead' = ToRead
    BY <1>3, WriteEffect DEF ToRead
  <2>3. answered' + (IF pc' \in {"execute", "answer"} THEN 2 ELSE 1) <= next_word'[2]
    <3>1. next_word[2] \in Nat /\ next_word[2] <= next_word'[2] /\ pc' = pc /\ answered' = answered
          /\ answered \in Nat
      BY SMTT(30), <1>1, <1>3, WriteEffect DEF Sizes
    <3>2. next_word'[2] \in Int
      <4>1. next_word'[2] \in {next_word[2], next_word[2] + 1}
        BY <1>3, WriteEffect DEF Succ
      <4> QED BY <3>1, <4>1
    <3> QED BY <3>1, <3>2 DEF CommandInv
  <2> QED BY <1>3, <2>1, <2>2, <2>3, WriteEffect DEF CommandInv, Command
<1>4. CASE SeeWritten \/ HostRead
  <2>1. UNCHANGED <<session, next_word, h2f, pc, cnt, buf, answered>>
    BY <1>4 DEF SeeWritten, HostRead, hostVars, fwVars
  <2> QED BY <2>1 DEF CommandInv, ToRead, Command
<1>5. CASE Poll
  <2>1. h2f # <<>>
    BY <1>5, SeenIsThere DEF Poll
  <2>2. pc = "poll" /\ pc' = "reset" /\ UNCHANGED <<session, next_word, h2f, answered>>
    BY <1>5 DEF Poll, hostVars
  <2>3. ToRead' = ToRead
    BY <2>2 DEF ToRead
  <2> QED BY <2>1, <2>2, <2>3 DEF CommandInv
<1>6. CASE ToggleReset
  <2>1. pc = "reset" /\ pc' = "read" /\ UNCHANGED <<session, next_word, h2f, cnt, answered>>
    BY <1>6 DEF ToggleReset, hostVars
  <2>2. cnt' = 0 /\ h2f' # <<>>
    BY <2>1 DEF RestInv, CommandInv
  <2>3. ToRead' = ToRead
    BY <2>1, <2>2 DEF ToRead
  <2> QED BY <2>1, <2>2, <2>3 DEF CommandInv
<1>7. CASE ReadWord
  <2>1. /\ pc = "read" /\ ReadLoop /\ UNCHANGED <<session, next_word, answered>>
        /\ ToRead = <<session, answered + 1, cnt + 1>>
        /\ buf' = [buf EXCEPT ![cnt + 1] = ToRead]
        /\ Chain(h2f', Succ(ToRead), next_word)
    BY <1>7, ReadEffect
  <2>2. /\ \A i \in 1 .. cnt : buf[i] = <<session, answered + 1, i>>
        /\ answered + 1 <= next_word[2]
    BY <2>1 DEF CommandInv
  <2>3. DOMAIN buf = 1 .. PktWords /\ buf = [i \in 1 .. PktWords |-> buf[i]]
    BY DEF Types, TypeOK, Bufs
  <2>4. \A i \in 1 .. cnt + 1 : buf'[i] = <<session, answered + 1, i>>
    <3>1. cnt \in Nat /\ cnt + 1 \in 1 .. PktWords /\ PktWords \in Nat
      BY <1>1 DEF Sizes
    <3>2. buf'[cnt + 1] = ToRead
      BY <2>1, <2>3, <3>1
    <3>3. ASSUME NEW i \in 1 .. cnt PROVE buf'[i] = buf[i]
      BY <2>1, <2>3, <3>1
    <3>4. ASSUME NEW i \in 1 .. cnt + 1 PROVE i \in 1 .. cnt \/ i = cnt + 1
      BY <3>1
    <3> QED BY <2>1, <2>2, <3>2, <3>3, <3>4
  <2>5. CASE cnt + 1 < PktWords
    <3>1. pc' = "read" /\ cnt' = cnt + 1
      BY <2>1, <2>5 DEF ReadLoop
    <3>2. ToRead' = Succ(ToRead)
      BY <1>1, <2>1, <2>5, <3>1 DEF ToRead, Succ, Sizes
    <3>3. cnt' # 0
      BY <1>1, <3>1 DEF Sizes
    <3> QED BY <2>1, <2>2, <2>4, <3>1, <3>2, <3>3 DEF CommandInv
  <2>6. CASE ~(cnt + 1 < PktWords)
    <3>1. pc' = "execute" /\ cnt' = 0 /\ cnt + 1 = PktWords
      BY <1>1, <2>1, <2>6 DEF ReadLoop, Sizes
    <3>2. ToRead' = <<session, answered + 2, 1>>
      BY <2>1, <3>1 DEF ToRead
    <3>3. Succ(ToRead) = <<session, (answered + 1) + 1, 1>>
      BY <2>1, <2>6 DEF Succ
    <3>4. (answered + 1) + 1 = answered + 2
      BY <1>1 DEF Sizes
    <3>5. buf' = Command(session, answered + 1)
      <4>1. buf' = [i \in 1 .. PktWords |-> buf'[i]]
        BY <2>1, <2>3
      <4> QED BY <2>4, <3>1, <4>1 DEF Command
    <3>6. answered + 2 <= next_word[2]
      <4>1. Before(ToRead, next_word)
        BY <1>7, ReadEffect
      <4> QED BY SMTT(30), <1>1, <2>1, <3>1, <4>1 DEF Before, Sizes
    <3>7. Command(session, answered + 1) = Command(session, answered + 1)'
      BY <2>1 DEF Command
    <3> QED BY <2>1, <3>1, <3>2, <3>3, <3>4, <3>5, <3>6, <3>7 DEF CommandInv
  <2> QED BY <2>5, <2>6
<1>8. CASE Execute
  <2>1. pc = "execute" /\ pc' = "answer" /\ UNCHANGED <<session, next_word, h2f, cnt, buf, answered>>
    BY <1>8 DEF Execute, hostVars
  <2>2. ToRead' = ToRead
    BY <2>1 DEF ToRead
  <2> QED BY <2>1, <2>2 DEF CommandInv, Command
<1>9. CASE Answer
  <2>1. pc = "answer" /\ AnswerLoop /\ UNCHANGED <<session, next_word, h2f, buf>>
    BY <1>9 DEF Answer, hostVars
  <2>2. CASE cnt + 1 < PktWords
    <3>1. pc' = pc /\ answered' = answered
      BY <2>1, <2>2 DEF AnswerLoop
    <3>2. ToRead' = ToRead
      BY <2>1, <3>1 DEF ToRead
    <3> QED BY <2>1, <3>1, <3>2 DEF CommandInv, Command
  <2>3. CASE ~(cnt + 1 < PktWords)
    <3>1. pc' = "poll" /\ answered' = answered + 1
      BY <2>1, <2>3 DEF AnswerLoop
    <3>2. (answered + 1) + 1 = answered + 2
      BY <1>1 DEF Sizes
    <3>3. ToRead' = ToRead
      BY <2>1, <3>1, <3>2 DEF ToRead
    <3> QED BY <2>1, <3>1, <3>2, <3>3 DEF CommandInv
  <2> QED BY <2>2, <2>3
<1>10. CASE Exit \/ CloseWrite \/ CloseRead
  BY <1>2, <1>10 DEF Exit, CloseWrite, CloseRead
<1> QED
  BY <1>3, <1>4, <1>5, <1>6, <1>7, <1>8, <1>9, <1>10 DEF Next, Firmware

-----------------------------------------------------------------------------
(* The answers, as far as the host.                                        *)

\* An answer under way leaves room for its next word: no word is dropped.
LEMMA Room ==
  ASSUME Types, CommandInv, AnswerInv, pc = "answer"
  PROVE  Len(f2h) < F2HDepth
<1>1. Sizes /\ Window \in Nat /\ Window > 0 /\ F2HDepth >= Window * PktWords
  BY Numbers, WindowAssumption, DepthAssumption
<1>2. ToAnswer = <<session, answered + 1, cnt + 1>> /\ answered + 2 <= next_word[2]
  BY DEF ToAnswer, CommandInv
<1>3. PICK n \in 0 .. PktWords - 1 : ToTake = <<session, received + 1, n + 1>>
  <2>1. CASE Len(rx) = PktWords
    <3>1. ToTake = <<session, received + 1, 0 + 1>>
      BY <2>1 DEF ToTake
    <3>2. 0 \in 0 .. PktWords - 1
      BY <1>1 DEF Sizes
    <3> QED BY <3>1, <3>2
  <2>2. CASE Len(rx) # PktWords
    <3>1. ToTake = <<session, received + 1, Len(rx) + 1>>
      BY <2>2 DEF ToTake
    <3>2. Len(rx) \in 0 .. PktWords - 1
      BY <1>1, <2>2 DEF Sizes
    <3> QED BY <3>1, <3>2
  <2> QED BY <2>1, <2>2
<1>4. Len(f2h) = Flat(ToAnswer) - Flat(ToTake)
  <2>1. Len(Places2h(f2h)) = Flat(ToAnswer) - Flat(ToTake)
    BY DEF AnswerInv, Chain
  <2>2. Len(Places2h(f2h)) = Len(f2h)
    BY <1>1 DEF Places2h, Sizes
  <2> QED BY <2>1, <2>2
<1>5. answered + 1 - received <= Window /\ answered \in Nat /\ received \in Nat
  <2>1. next_word[2] - 1 + (IF next_word[3] > 1 THEN 1 ELSE 0) - received <= Window
    BY DEF AnswerInv, Outstanding
  <2>2. answered \in Nat /\ received \in Nat /\ next_word[2] \in Nat
    BY <1>1 DEF Sizes
  <2>3. next_word[2] - 1 - received <= Window
    BY <1>1, <2>1, <2>2
  <2> QED BY <1>1, <1>2, <2>2, <2>3
<1>6. Flat(ToAnswer) = answered * PktWords + (cnt + 1) /\ Flat(ToTake) = received * PktWords + (n + 1)
  <2>1. (answered + 1) - 1 = answered /\ (received + 1) - 1 = received
    BY <1>5
  <2> QED BY <1>2, <1>3, <2>1 DEF Flat
<1> DEFINE d == answered - received
<1>7. d \in Int /\ d <= Window - 1 /\ PktWords \in Nat /\ PktWords > 1
  BY <1>1, <1>5 DEF Sizes
<1>8. answered * PktWords = received * PktWords + d * PktWords
  <2>1. answered = received + d
    BY <1>5
  <2> HIDE DEF d
  <2>2. (received + d) * PktWords = received * PktWords + d * PktWords
    BY <1>5, <1>7
  <2> QED BY <2>1, <2>2
<1> HIDE DEF d
<1>9. d * PktWords <= (Window - 1) * PktWords
  <2>1. (Window - 1) - d \in Nat
    BY <1>1, <1>7
  <2>2. ((Window - 1) - d) * PktWords \in Nat
    BY <1>7, <2>1
  <2>3. ((Window - 1) - d) * PktWords = (Window - 1) * PktWords - d * PktWords
    BY <1>1, <1>7
  <2>4. (Window - 1) * PktWords \in Int /\ d * PktWords \in Int
    BY <1>1, <1>7
  <2> QED BY <2>2, <2>3, <2>4
<1>10. (Window - 1) * PktWords = Window * PktWords - PktWords
  BY <1>1, <1>7
<1>11. /\ answered * PktWords \in Int /\ received * PktWords \in Int /\ d * PktWords \in Int
       /\ Window * PktWords \in Int
  BY <1>1, <1>5, <1>7
<1>12. Len(f2h) = d * PktWords + cnt - n
  <2>1. cnt \in Nat
    BY <1>1 DEF Sizes
  <2> DEFINE x == answered * PktWords
             y == received * PktWords
             z == d * PktWords
  <2>2. /\ x \in Int /\ y \in Int /\ z \in Int /\ x = y + z
        /\ Len(f2h) = (x + (cnt + 1)) - (y + (n + 1))
    BY <1>4, <1>6, <1>8, <1>11
  <2> HIDE DEF x, y, z
  <2>3. Len(f2h) = z + cnt - n
    BY <2>1, <2>2
  <2> QED BY <2>3 DEF z
<1>13. cnt \in Nat /\ cnt < PktWords /\ F2HDepth \in Nat
  BY <1>1 DEF Sizes
<1> DEFINE z == d * PktWords
           y == Window * PktWords
<1>14. z \in Int /\ y \in Int /\ z <= y - PktWords /\ Len(f2h) = z + cnt - n /\ F2HDepth >= y
  BY <1>1, <1>9, <1>10, <1>11, <1>12
<1> HIDE DEF z, y
<1> QED BY <1>7, <1>13, <1>14

\* The host takes the word it has counted to: the next one of the answer to
\* the command it waits for.
LEMMA TakeEffect ==
  ASSUME Types, AnswerInv, HostRead
  PROVE  /\ f2h # <<>> /\ f2h' = Tail(f2h)
         /\ Head(f2h) = <<Command(session, received + 1), ToTake[3]>>
         /\ Chain(Places2h(f2h'), Succ(ToTake), ToAnswer) /\ Before(ToTake, ToAnswer)
         /\ ToTake' = Succ(ToTake)
         /\ received' = (IF ToTake[3] = PktWords THEN received + 1 ELSE received)
         /\ rx' = IF Len(rx) = PktWords THEN <<Head(f2h)>> ELSE Append(rx, Head(f2h))
         /\ Len(rx') = ToTake[3] /\ ToTake[3] \in 1 .. PktWords
         /\ ToTake = <<session, received + 1, ToTake[3]>>
         /\ UNCHANGED <<host, session, kind, next_word, h2f, pc, cnt, buf, answered>>
<1>1. Sizes
  BY Numbers
<1>2. /\ f2h # <<>> /\ f2h' = Tail(f2h)
      /\ rx' = IF Len(rx) = PktWords THEN <<Head(f2h)>> ELSE Append(rx, Head(f2h))
      /\ UNCHANGED <<host, session, kind, next_word, h2f, pc, cnt, buf, answered>>
  BY DEF HostRead, fwVars
<1>3. /\ Places2h(f2h') = Tail(Places2h(f2h)) /\ Head(Places2h(f2h)) = PlaceOf(Head(f2h))
      /\ Places2h(f2h) # <<>>
  BY <1>2, PlacesTail DEF Types
<1>4. /\ PlaceOf(Head(f2h)) = ToTake /\ Chain(Places2h(f2h'), Succ(ToTake), ToAnswer)
      /\ Before(ToTake, ToAnswer)
  <2>1. Chain(Places2h(f2h), ToTake, ToAnswer)
    BY DEF AnswerInv
  <2>2. ToTake \in Places /\ ToAnswer \in Places
    BY PlacesTyped
  <2> DEFINE q == Places2h(f2h)
  <2>3. Chain(q, ToTake, ToAnswer) /\ q # <<>>
    BY <1>3, <2>1
  <2> HIDE DEF q
  <2>4. Head(q) = ToTake /\ Chain(Tail(q), Succ(ToTake), ToAnswer) /\ Before(ToTake, ToAnswer)
    BY <2>2, <2>3, ChainTail
  <2> QED BY <1>3, <2>4 DEF q
<1>5. ToTake[1] = session /\ ToTake[2] = received + 1
  BY DEF ToTake
<1>6. Head(f2h) = <<Command(session, received + 1), ToTake[3]>>
  <2> DEFINE w == Head(f2h)
  <2>1. w \in AnswerWords /\ w = f2h[1] /\ 1 \in 1 .. Len(f2h)
    BY <1>1, <1>2, FifoTypes, EmptySeq, HeadTailProperties DEF Types
  <2>2. w[1] = Command(w[1][1][1], w[1][1][2])
    BY <2>1 DEF AnswerInv
  <2>3. w = <<w[1], w[2]>>
    BY <2>1 DEF AnswerWords
  <2> HIDE DEF w
  <2>4. w[1][1][1] = session /\ w[1][1][2] = received + 1 /\ w[2] = ToTake[3]
    <3>1. <<w[1][1][1], w[1][1][2], w[2]>> = ToTake
      BY <1>4 DEF PlaceOf, w
    <3> QED BY <1>5, <3>1
  <2> QED BY <2>2, <2>3, <2>4 DEF w
<1>7. CASE Len(rx) = PktWords
  <2>1. received' = received /\ Len(rx') = 1 /\ ToTake = <<session, received + 1, 1>>
    BY <1>1, <1>2, <1>7 DEF HostRead, ToTake, Sizes
  <2>2. ToTake' = <<session, received + 1, 2>>
    BY <1>1, <1>2, <2>1 DEF ToTake, Sizes
  <2>3. Succ(ToTake) = <<session, received + 1, 2>> /\ ToTake[3] # PktWords
        /\ ToTake[3] \in 1 .. PktWords
    BY <1>1, <2>1 DEF Succ, Sizes
  <2> QED BY <1>2, <1>4, <1>6, <2>1, <2>2, <2>3
<1>8. CASE Len(rx) # PktWords
  <2>1. /\ rx' = Append(rx, Head(f2h)) /\ ToTake = <<session, received + 1, Len(rx) + 1>>
        /\ Len(rx) + 1 \in 1 .. PktWords
    BY SMTT(30), <1>1, <1>2, <1>8 DEF ToTake, Sizes
  <2>2. Len(rx') = Len(rx) + 1
    <3>1. Head(f2h) \in AnswerWords
      BY <1>2, FifoTypes DEF Types
    <3> QED BY <2>1, <3>1, FifoTypes DEF Types
  <2>3. CASE Len(rx) + 1 = PktWords
    <3>1. received' = received + 1
      BY <1>1, <2>3 DEF HostRead, Sizes
    <3>2. ToTake' = <<session, (received + 1) + 1, 1>>
      BY <1>2, <2>2, <2>3, <3>1 DEF ToTake
    <3>3. Succ(ToTake) = <<session, (received + 1) + 1, 1>>
      BY SMTT(30), <1>1, <2>1, <2>3 DEF Succ, Sizes
    <3> QED BY <1>2, <1>4, <1>6, <2>1, <2>2, <2>3, <3>1, <3>2, <3>3
  <2>4. CASE Len(rx) + 1 # PktWords
    <3>1. received' = received
      BY <1>1, <2>4 DEF HostRead, Sizes
    <3>2. ToTake' = <<session, received + 1, (Len(rx) + 1) + 1>>
      BY <1>2, <2>2, <2>4, <3>1 DEF ToTake
    <3>3. Succ(ToTake) = <<session, received + 1, (Len(rx) + 1) + 1>>
      BY SMTT(30), <1>1, <2>1, <2>4 DEF Succ, Sizes
    <3> QED BY <1>2, <1>4, <1>6, <2>1, <2>2, <2>4, <3>1, <3>2, <3>3
  <2> QED BY <2>3, <2>4
<1> QED BY <1>7, <1>8

\* An answer word is put at the place the firmware has counted to.
LEMMA PutEffect ==
  ASSUME Types, Whole, CommandInv, AnswerInv, Answer
  PROVE  /\ f2h' = Append(f2h, <<Command(session, answered + 1), cnt + 1>>)
         /\ Chain(Places2h(f2h'), ToTake, Succ(ToAnswer))
         /\ ToAnswer' = Succ(ToAnswer) /\ answered' \in {answered, answered + 1}
         /\ UNCHANGED <<host, session, kind, next_word, rx, received>>
<1>1. Sizes
  BY Numbers
<1>2. /\ pc = "answer" /\ AnswerLoop /\ Put(<<buf, cnt + 1>>)
      /\ UNCHANGED <<host, session, kind, next_word, rx, received>>
  BY DEF Answer, hostVars
<1>3. buf = Command(session, answered + 1) /\ r_open
  BY <1>2 DEF CommandInv, Whole, Types
<1> DEFINE w == <<buf, cnt + 1>>
<1>4. f2h' = Append(f2h, w)
  BY <1>2, <1>3, Room DEF Put
<1>5. w \in AnswerWords
  <2>1. buf \in Bufs
    BY DEF Types, TypeOK
  <2> QED BY <1>1, <2>1 DEF AnswerWords, Sizes
<1>6. PlaceOf(w) = ToAnswer
  <2>1. buf[1] = <<session, answered + 1, 1>>
    BY <1>1, <1>3 DEF Command, Sizes
  <2> QED BY <1>2, <2>1 DEF PlaceOf, ToAnswer
<1>7. Places2h(f2h') = Append(Places2h(f2h), ToAnswer)
  BY <1>4, <1>5, <1>6, PlacesAppend DEF Types
<1>8. Chain(Places2h(f2h'), ToTake, Succ(ToAnswer))
  <2> DEFINE q == Places2h(f2h)
  <2>1. Chain(q, ToTake, ToAnswer) /\ ToTake \in Places /\ ToAnswer \in Places
    BY PlacesTyped DEF AnswerInv
  <2> HIDE DEF q
  <2>2. Chain(Append(q, ToAnswer), ToTake, Succ(ToAnswer))
    BY <2>1, ChainAppend
  <2> QED BY <1>7, <2>2 DEF q
<1>9. ToAnswer' = Succ(ToAnswer) /\ answered' \in {answered, answered + 1}
  <2>1. ToAnswer = <<session, answered + 1, cnt + 1>> /\ cnt \in Nat
    BY <1>1, <1>2 DEF ToAnswer, Sizes
  <2>2. CASE cnt + 1 < PktWords
    <3>1. pc' = "answer" /\ cnt' = cnt + 1 /\ answered' = answered
      BY <1>2, <2>2 DEF AnswerLoop
    <3> QED BY <1>2, <2>1, <2>2, <3>1 DEF ToAnswer, Succ
  <2>3. CASE ~(cnt + 1 < PktWords)
    <3>1. pc' = "poll" /\ answered' = answered + 1
      BY <1>2, <2>3 DEF AnswerLoop
    <3> QED BY <1>2, <2>1, <2>3, <3>1 DEF ToAnswer, Succ
  <2> QED BY <2>2, <2>3
<1> QED BY <1>2, <1>3, <1>4, <1>8, <1>9

\* The answers under way stay those of the commands, in order.
LEMMA AnswerStep ==
  ASSUME Types, RestInv, Whole, CommandInv, AnswerInv, Next, ~Start, host' = "up"
  PROVE  AnswerInv'
<1>1. Sizes
  BY Numbers
<1>2. host = "up"
  BY DEF Whole
<1>3. CASE HostWrite
  <2>1. UNCHANGED <<session, rx, received, f2h, pc, cnt, answered>>
    BY <1>3, WriteEffect
  <2>2. Outstanding' <= Window
    <3>1. /\ next_word[2] \in Nat /\ next_word[3] \in 1 .. PktWords /\ received \in Nat
          /\ PktWords \in Nat /\ PktWords > 1 /\ Window \in Nat
      BY <1>1, WindowAssumption DEF Sizes
    <3>2. CASE next_word[3] < PktWords
      <4>1. next_word'[2] = next_word[2] /\ next_word'[3] = next_word[3] + 1
        BY <1>3, <3>2, WriteEffect DEF Succ
      <4>2. CASE next_word[3] = 1
        <5>1. next_word[2] - 1 + 0 - received < Window
          BY <1>3, <4>2 DEF HostWrite, Outstanding
        <5>2. Outstanding' = next_word[2] - 1 + 1 - received
          BY <2>1, <4>1, <4>2 DEF Outstanding
        <5> QED BY <3>1, <5>1, <5>2
      <4>3. CASE next_word[3] > 1
        <5>1. Outstanding' = Outstanding
          BY <2>1, <3>1, <4>1, <4>3 DEF Outstanding
        <5> QED BY <5>1 DEF AnswerInv
      <4> QED BY <3>1, <4>2, <4>3
    <3>3. CASE ~(next_word[3] < PktWords)
      <4>1. next_word'[2] = next_word[2] + 1 /\ next_word'[3] = 1 /\ next_word[3] > 1
        BY <1>3, <3>1, <3>3, WriteEffect DEF Succ
      <4>2. Outstanding' = (next_word[2] + 1) - 1 + 0 - received
        BY <2>1, <4>1 DEF Outstanding
      <4>3. next_word[2] - 1 + 1 - received <= Window
        BY <4>1 DEF AnswerInv, Outstanding
      <4> QED BY <3>1, <4>2, <4>3
    <3> QED BY <3>2, <3>3
  <2>3. ToTake' = ToTake /\ ToAnswer' = ToAnswer
    BY <2>1 DEF ToTake, ToAnswer
  <2> QED BY <2>1, <2>2, <2>3 DEF AnswerInv, Command
<1>4. CASE HostRead
  <2>1. /\ f2h # <<>> /\ f2h' = Tail(f2h)
        /\ Chain(Places2h(f2h'), Succ(ToTake), ToAnswer) /\ Before(ToTake, ToAnswer)
        /\ ToTake' = Succ(ToTake)
        /\ ToTake = <<session, received + 1, ToTake[3]>>
        /\ received' = (IF ToTake[3] = PktWords THEN received + 1 ELSE received)
        /\ UNCHANGED <<session, next_word, pc, cnt, answered>>
    BY <1>4, TakeEffect
  <2>2. ToAnswer' = ToAnswer
    BY <2>1 DEF ToAnswer
  <2>3. \A i \in 1 .. Len(f2h') :
          f2h'[i][1] = Command(f2h'[i][1][1][1], f2h'[i][1][1][2])
    <3>1. /\ Len(f2h) \in Nat /\ Len(f2h') = Len(f2h) - 1
          /\ \A i \in 1 .. Len(f2h') : f2h'[i] = f2h[i + 1]
      BY <1>1, <2>1, HeadTailProperties DEF Types, Sizes
    <3>2. ASSUME NEW i \in 1 .. Len(f2h') PROVE i + 1 \in 1 .. Len(f2h)
      BY <3>1
    <3>3. \A i \in 1 .. Len(f2h) : f2h[i][1] = Command(f2h[i][1][1][1], f2h[i][1][1][2])
      BY DEF AnswerInv
    <3> QED BY <3>1, <3>2, <3>3
  <2>4. received' <= answered' /\ received' \in Nat
    <3>1. received \in Nat /\ answered \in Nat /\ PktWords \in Nat /\ received <= answered
      BY <1>1 DEF Sizes, AnswerInv
    <3>2. ToAnswer[3] \in 1 .. PktWords /\ ToAnswer[2] = answered + 1
      BY <1>1 DEF Sizes, ToAnswer
    <3>3. CASE ToTake[3] = PktWords
      <4>1. received + 1 < answered + 1
        BY <2>1, <3>1, <3>2, <3>3 DEF Before
      <4> QED BY <2>1, <3>1, <3>3, <4>1
    <3>4. CASE ToTake[3] # PktWords
      BY <2>1, <3>1, <3>4
    <3> QED BY <3>3, <3>4
  <2>5. Outstanding' <= Window
    <3>1. received' \in {received, received + 1} /\ received \in Nat /\ Window \in Nat
          /\ next_word[2] \in Nat
      BY <1>1, <2>1, WindowAssumption DEF Sizes
    <3>2. Outstanding \in Int /\ Outstanding' \in {Outstanding, Outstanding - 1}
      BY SMTT(30), <2>1, <3>1 DEF Outstanding
    <3>3. Outstanding <= Window
      BY DEF AnswerInv
    <3> QED BY <3>1, <3>2, <3>3
  <2> QED BY <2>1, <2>2, <2>3, <2>4, <2>5 DEF AnswerInv, Command
<1>5. CASE SeeWritten \/ Poll \/ ToggleReset \/ ReadWord \/ Execute
  <2>1. UNCHANGED <<session, next_word, rx, received, f2h, answered>>
    BY <1>5 DEF SeeWritten, Poll, ToggleReset, FifoReset, ReadWord, Execute, hostVars, fwVars
  <2>2. ToAnswer' = ToAnswer
    <3>1. CASE SeeWritten
      BY <2>1, <3>1 DEF SeeWritten, fwVars, ToAnswer
    <3>2. CASE Poll
      BY <2>1, <3>2 DEF Poll, ToAnswer
    <3>3. CASE ToggleReset
      BY <2>1, <3>3 DEF ToggleReset, ToAnswer
    <3>4. CASE ReadWord
      <4>1. pc = "read" /\ pc' \in {"read", "execute"}
        BY <3>4 DEF ReadWord, ReadLoop
      <4> QED BY <2>1, <4>1 DEF ToAnswer
    <3>5. CASE Execute
      <4>1. pc = "execute" /\ cnt' = 0 /\ 0 + 1 = 1
        BY <3>5 DEF Execute, RestInv
      <4> QED BY <2>1, <4>1 DEF ToAnswer
    <3> QED BY <1>5, <3>1, <3>2, <3>3, <3>4, <3>5
  <2>3. ToTake' = ToTake /\ Outstanding' = Outstanding
    BY <2>1 DEF ToTake, Outstanding
  <2> QED BY <2>1, <2>2, <2>3 DEF AnswerInv, Command
<1>6. CASE Answer
  <2>1. /\ f2h' = Append(f2h, <<Command(session, answered + 1), cnt + 1>>)
        /\ Chain(Places2h(f2h'), ToTake, Succ(ToAnswer))
        /\ ToAnswer' = Succ(ToAnswer) /\ answered' \in {answered, answered + 1}
        /\ UNCHANGED <<session, next_word, rx, received>>
    BY <1>6, PutEffect
  <2>2. \A i \in 1 .. Len(f2h') :
          f2h'[i][1] = Command(f2h'[i][1][1][1], f2h'[i][1][1][2])
    <3> DEFINE w == <<Command(session, answered + 1), cnt + 1>>
    <3>1. f2h \in Seq(AnswerWords) /\ f2h' \in Seq(AnswerWords)
      BY TypesStep DEF Types
    <3>2. /\ Len(f2h) \in Nat /\ Len(f2h') = Len(f2h) + 1 /\ f2h'[Len(f2h) + 1] = w
          /\ \A i \in 1 .. Len(f2h) : f2h'[i] = f2h[i]
      <4>1. f2h \in Seq(AnswerWords \cup {w}) /\ w \in AnswerWords \cup {w}
        BY <3>1
      <4> HIDE DEF w
      <4>2. f2h' = Append(f2h, w)
        BY <2>1 DEF w
      <4> QED BY <4>1, <4>2, AppendProperties, LenProperties
    <3>3. w[1] = Command(w[1][1][1], w[1][1][2])
      <4>1. 1 \in 1 .. PktWords
        BY <1>1 DEF Sizes
      <4>2. w[1][1] = <<session, answered + 1, 1>>
        BY <4>1 DEF Command
      <4> QED BY <4>2
    <3>4. \A i \in 1 .. Len(f2h) : f2h[i][1] = Command(f2h[i][1][1][1], f2h[i][1][1][2])
      BY DEF AnswerInv
    <3> HIDE DEF w
    <3>5. ASSUME NEW i \in 1 .. Len(f2h') PROVE i \in 1 .. Len(f2h) \/ i = Len(f2h) + 1
      BY <3>2
    <3> QED BY <3>2, <3>3, <3>4, <3>5
  <2>3. received' <= answered'
    <3>1. received \in Nat /\ answered \in Nat /\ received <= answered
      BY <1>1 DEF Sizes, AnswerInv
    <3> QED BY <2>1, <3>1
  <2>4. ToTake' = ToTake /\ Outstanding' = Outstanding
    BY <2>1 DEF ToTake, Outstanding
  <2> QED BY <2>1, <2>2, <2>3, <2>4 DEF AnswerInv, Command
<1>7. CASE Exit \/ CloseWrite \/ CloseRead
  BY <1>2, <1>7 DEF Exit, CloseWrite, CloseRead
<1> QED BY <1>3, <1>4, <1>5, <1>6, <1>7 DEF Next, Firmware

\* The answer being read stays that to the command the host waits for.
LEMMA MatchStep ==
  ASSUME Types, Types', Whole => AnswerInv, AnswerMatches, Next
  PROVE  AnswerMatches'
<1> DEFINE Due == IF Len(rx) = PktWords THEN received ELSE received + 1
<1>1. SUFFICES ASSUME host' = "up", kind' # "slow", NEW i \in 1 .. Len(rx')
               PROVE  rx'[i] = <<Command(session, Due)', i>>
  BY DEF AnswerMatches, Types, Command
<1>2. Sizes
  BY Numbers
<1>3. CASE Start
  <2>1. rx' = <<>> /\ Len(<<>>) = 0
    BY <1>3, EmptySeq DEF Start
  <2> QED BY <1>1, <2>1
<1>4. CASE ~Start
  <2>1. Whole /\ UNCHANGED <<session, kind>>
    BY <1>1, <1>4 DEF Next, Exit, CloseWrite, CloseRead, HostWrite, SeeWritten, HostRead,
         Firmware, Poll, ToggleReset, ReadWord, Execute, Answer, hostVars, Whole
  <2>2. \A j \in 1 .. Len(rx) : rx[j] = <<Command(session, Due), j>>
    BY <2>1 DEF AnswerMatches, Whole
  <2>3. CASE HostRead
    <3>1. /\ Head(f2h) = <<Command(session, received + 1), ToTake[3]>>
          /\ rx' = IF Len(rx) = PktWords THEN <<Head(f2h)>> ELSE Append(rx, Head(f2h))
          /\ Len(rx') = ToTake[3] /\ ToTake[3] \in 1 .. PktWords
          /\ received' = (IF ToTake[3] = PktWords THEN received + 1 ELSE received)
      BY <2>1, <2>3, TakeEffect
    <3>2. Due' = received + 1
      BY <1>2, <3>1 DEF Sizes
    <3>3. Command(session, Due)' = Command(session, received + 1)
      BY <2>1, <3>2 DEF Command
    <3>4. rx'[Len(rx')] = Head(f2h)
      <4>1. CASE Len(rx) = PktWords
        BY <3>1, <4>1
      <4>2. CASE Len(rx) # PktWords
        <5>1. Head(f2h) \in AnswerWords
          BY <2>3, FifoTypes DEF HostRead, Types
        <5>2. rx' = Append(rx, Head(f2h)) /\ Append(rx, Head(f2h))[Len(rx) + 1] = Head(f2h)
              /\ Len(Append(rx, Head(f2h))) = Len(rx) + 1
          BY <3>1, <4>2, <5>1, AppendProperties DEF Types
        <5> QED BY <5>2
      <4> QED BY <4>1, <4>2
    <3>5. CASE i = Len(rx')
      BY <3>1, <3>3, <3>4, <3>5
    <3>6. CASE i # Len(rx')
      <4>1. Len(rx) # PktWords
        <5>1. SUFFICES ASSUME Len(rx) = PktWords PROVE FALSE
          OBVIOUS
        <5>2. Len(rx') = 1
          BY <3>1, <5>1
        <5> QED BY <1>1, <3>6, <5>2
      <4>2. /\ rx' = Append(rx, Head(f2h)) /\ Len(rx') = Len(rx) + 1 /\ Len(rx) \in Nat
            /\ \A j \in 1 .. Len(rx) : rx'[j] = rx[j]
        <5>1. Head(f2h) \in AnswerWords
          BY <2>3, FifoTypes DEF HostRead, Types
        <5>2. rx' = Append(rx, Head(f2h))
          BY <3>1, <4>1
        <5>3. Len(rx) \in Nat
          BY <1>2 DEF Sizes
        <5> QED BY <5>1, <5>2, <5>3, AppendProperties DEF Types
      <4>3. i \in 1 .. Len(rx)
        BY <1>1, <3>6, <4>2
      <4>4. Due = received + 1
        BY <4>1
      <4> QED BY <2>2, <3>3, <4>2, <4>3, <4>4
    <3> QED BY <3>5, <3>6
  <2>4. CASE ~HostRead
    <3>1. UNCHANGED <<rx, received>>
      BY <1>4, <2>4 DEF Next, Exit, CloseWrite, CloseRead, HostWrite, SeeWritten,
           Firmware, Poll, ToggleReset, ReadWord, Execute, Answer, hostVars
    <3>2. Command(session, Due)' = Command(session, Due)
      BY <2>1, <3>1 DEF Command
    <3> QED BY <1>1, <2>2, <3>1, <3>2
  <2> QED BY <2>3, <2>4
<1> QED BY <1>3, <1>4

\* A polite program that exits leaves nothing behind.
LEMMA SettledStep ==
  ASSUME Types, RestInv, ChannelInv, Next, host' = "down", kind' = "polite"
  PROVE  Settled'
<1>1. Sizes
  BY Numbers
<1>2. CASE Exit
  <2>1. /\ host = "up" /\ Outstanding = 0 /\ kind = "polite"
        /\ UNCHANGED <<next_word, received, h2f, pc, answered>>
    BY <1>2 DEF Exit, fwVars
  <2>2. CommandInv /\ AnswerInv
    BY <2>1 DEF ChannelInv, Whole
  <2>3. /\ next_word[2] \in Nat /\ next_word[3] \in 1 .. PktWords /\ received \in Nat
        /\ answered \in Nat /\ PktWords \in Nat /\ cnt \in Nat /\ Len(h2f) \in Nat
    BY <1>1 DEF Sizes
  <2>4. next_word[2] - 1 + (IF next_word[3] > 1 THEN 1 ELSE 0) - received = 0
    BY <2>1 DEF Outstanding
  <2>5. /\ answered + (IF pc \in {"execute", "answer"} THEN 2 ELSE 1) <= next_word[2]
        /\ received <= answered
    BY <2>2 DEF CommandInv, AnswerInv
  <2>6. pc \notin {"execute", "answer"}
    BY <2>3, <2>4, <2>5
  <2>7. answered = received /\ next_word[2] = answered + 1 /\ next_word[3] = 1
    BY <2>3, <2>4, <2>5, <2>6
  <2>8. ToRead = <<session, answered + 1, IF pc = "read" THEN cnt + 1 ELSE 1>>
    BY <2>6 DEF ToRead
  <2>9. Len(h2f) = 1 - (IF pc = "read" THEN cnt + 1 ELSE 1)
    <3>1. Len(h2f) = Flat(next_word) - Flat(ToRead)
      BY <2>2 DEF CommandInv, Chain
    <3> DEFINE k == ((answered + 1) - 1) * PktWords
    <3>2. k \in Int
      BY <2>3
    <3>3. Flat(next_word) = k + 1 /\ Flat(ToRead) = k + (IF pc = "read" THEN cnt + 1 ELSE 1)
      BY <2>7, <2>8 DEF Flat
    <3> HIDE DEF k
    <3> QED BY <2>3, <3>1, <3>2, <3>3
  <2>10. Len(h2f) = 0 /\ (pc = "read" => cnt = 0)
    BY <2>3, <2>9
  <2>11. h2f = <<>>
    BY <2>10, EmptySeq DEF Types
  <2>12. pc \notin {"reset", "read"}
    BY <2>2, <2>10, <2>11 DEF CommandInv
  <2>13. pc = "poll"
    BY <2>6, <2>12 DEF Types, TypeOK
  <2>14. next_word[2] - 1 = answered
    BY <2>3, <2>7
  <2> QED BY <2>1, <2>7, <2>11, <2>13, <2>14 DEF Settled
<1>3. CASE ~Exit
  <2>1. host = "down" /\ kind = "polite"
    BY <1>3 DEF Next, Start, CloseWrite, CloseRead, HostWrite, SeeWritten, HostRead,
         Firmware, Poll, ToggleReset, ReadWord, Execute, Answer, hostVars
  <2>2. Settled
    BY <2>1 DEF ChannelInv
  <2>3. ~(h2f_seen > 0)
    BY <2>2, SeenIsThere DEF Settled
  <2>4. CASE CloseWrite \/ CloseRead
    BY <2>2, <2>4 DEF CloseWrite, CloseRead, Settled, hostVars, fwVars
  <2>5. CASE SeeWritten
    BY <2>2, <2>5 DEF SeeWritten, Settled, hostVars, fwVars
  <2>6. ~Start /\ ~HostWrite /\ ~HostRead /\ ~Firmware
    BY <2>1, <2>2, <2>3 DEF Start, HostWrite, HostRead, Firmware, Poll, ToggleReset,
         ReadWord, Execute, Answer, Settled
  <2> QED BY <1>3, <2>4, <2>5, <2>6 DEF Next
<1> QED BY <1>2, <1>3

\* IInv is inductive.
LEMMA ChannelStep ==
  ASSUME IInv, [Next]_vars
  PROVE  IInv'
<1>1. CASE Next
  <2>1. Types /\ RestInv /\ ChannelInv /\ AnswerMatches
    BY DEF IInv
  <2>2. Types'
    BY <1>1, <2>1, TypesStep
  <2>3. RestInv'
    BY <1>1, <2>1, RestStep
  <2>4. Whole' => CommandInv' /\ AnswerInv'
    <3>1. CASE Start
      BY <2>1, <3>1, StartStep
    <3>2. CASE ~Start
      <4>1. SUFFICES ASSUME Whole' PROVE CommandInv' /\ AnswerInv'
        OBVIOUS
      <4>2. host' = "up" /\ kind' # "slow"
        BY <4>1 DEF Whole
      <4>3. Whole
        BY <1>1, <3>2, <4>2 DEF Next, Exit, CloseWrite, CloseRead, HostWrite, SeeWritten,
             HostRead, Firmware, Poll, ToggleReset, ReadWord, Execute, Answer, hostVars,
             Whole
      <4>4. CommandInv /\ AnswerInv
        BY <2>1, <4>3 DEF ChannelInv
      <4> QED BY <1>1, <2>1, <3>2, <4>2, <4>3, <4>4, CommandStep, AnswerStep
    <3> QED BY <3>1, <3>2
  <2>5. ChannelInv'
    BY <1>1, <2>1, <2>4, SettledStep DEF ChannelInv
  <2>6. AnswerMatches'
    <3>1. Whole => AnswerInv
      BY <2>1 DEF ChannelInv
    <3> QED BY <1>1, <2>1, <2>2, <3>1, MatchStep
  <2> QED BY <2>2, <2>3, <2>5, <2>6 DEF IInv
<1>2. CASE UNCHANGED vars
  <2> USE <1>2 DEF vars
  <2>1. Types' = Types /\ RestInv' = RestInv
    BY DEF Types, TypeOK, RestInv
  <2>2. ToRead' = ToRead /\ ToAnswer' = ToAnswer /\ ToTake' = ToTake /\ Outstanding' = Outstanding
    BY DEF ToRead, ToAnswer, ToTake, Outstanding
  <2>3. CommandInv' = CommandInv
    BY <2>2 DEF CommandInv, Command
  <2>4. AnswerInv' = AnswerInv
    BY <2>2 DEF AnswerInv, Command
  <2>5. ChannelInv' = ChannelInv
    BY <2>3, <2>4 DEF ChannelInv, Whole, Settled
  <2>6. AnswerMatches' = AnswerMatches
    BY DEF AnswerMatches, TypeOK, Command
  <2> QED BY <2>1, <2>5, <2>6 DEF IInv
<1> QED BY <1>1, <1>2

\* Where everybody is in the two FIFOs, whatever programs came before.
THEOREM ChannelHolds ==
  Spec => []IInv
BY ChannelInit, ChannelStep, PTL DEF Spec

\* The n-th answer a program reads is the answer to the n-th command it wrote,
\* word for word.
THEOREM AnswersMatch ==
  Spec => []AnswerMatches
<1>1. IInv => AnswerMatches
  BY DEF IInv
<1> QED BY <1>1, ChannelHolds, PTL

-----------------------------------------------------------------------------
(* The channel implements RequestReply.                                    *)

\* A sequence of commands that follow one another, with one more and with one less.
LEMMA Numbered ==
  ASSUME NEW s, NEW a \in Nat, NEW n \in Nat
  PROVE  /\ Len(Following(s, a, n)) = n
         /\ n = 0 => Following(s, a, n) = <<>>
         /\ Following(s, a, n + 1) = Append(Following(s, a, n), <<s, a + (n + 1)>>)
         /\ n > 0 => /\ Following(s, a, n) # <<>>
                     /\ Head(Following(s, a, n)) = <<s, a + 1>>
                     /\ Tail(Following(s, a, n)) = Following(s, a + 1, n - 1)
<1> DEFINE q == [i \in 1 .. n |-> <<s, a + i>>]
           S == {<<s, a + i>> : i \in 1 .. n + 1}
<1>1. q \in [1 .. n -> S] /\ \A i \in 1 .. n : q[i] = <<s, a + i>>
  OBVIOUS
<1>2. <<s, a + (n + 1)>> \in S
  OBVIOUS
<1> HIDE DEF q, S
<1>3. q \in Seq(S) /\ Len(q) = n
  BY <1>1, SeqDef, LenProperties
<1>4. [i \in 1 .. n + 1 |-> <<s, a + i>>] = Append(q, <<s, a + (n + 1)>>)
  <2> DEFINE w == <<s, a + (n + 1)>>
             t == Append(q, w)
  <2> HIDE DEF w
  <2>1. w \in S
    BY <1>2 DEF w
  <2>2. /\ t \in Seq(S) /\ Len(t) = n + 1 /\ t[n + 1] = w
        /\ \A i \in 1 .. n : t[i] = q[i]
    BY <1>3, <2>1, AppendProperties
  <2> HIDE DEF t
  <2>3. t = [i \in 1 .. n + 1 |-> t[i]]
    BY <2>2, LenProperties
  <2>4. ASSUME NEW i \in 1 .. n + 1 PROVE t[i] = <<s, a + i>>
    <3>1. CASE i = n + 1
      BY <2>2, <3>1 DEF w
    <3>2. CASE i # n + 1
      BY <1>1, <2>2, <3>2
    <3> QED BY <3>1, <3>2
  <2>5. t = [i \in 1 .. n + 1 |-> <<s, a + i>>]
    BY <2>3, <2>4
  <2> QED BY <2>5 DEF t, w
<1>5. ASSUME n > 0
      PROVE  /\ q # <<>> /\ Head(q) = <<s, a + 1>>
             /\ Tail(q) = [i \in 1 .. n - 1 |-> <<s, (a + 1) + i>>]
  <2> DEFINE t == Tail(q)
  <2>1. q # <<>>
    BY <1>3, <1>5, EmptySeq
  <2>2. /\ t \in Seq(S) /\ Len(t) = n - 1 /\ Head(q) = q[1]
        /\ \A i \in 1 .. Len(t) : t[i] = q[i + 1]
    BY <1>3, <2>1, HeadTailProperties
  <2> HIDE DEF t
  <2>3. t = [i \in 1 .. n - 1 |-> t[i]]
    BY <2>2, LenProperties
  <2>4. ASSUME NEW i \in 1 .. n - 1 PROVE t[i] = <<s, (a + 1) + i>>
    <3>1. t[i] = q[i + 1] /\ i + 1 \in 1 .. n
      BY <2>2
    <3>2. a + (i + 1) = (a + 1) + i
      OBVIOUS
    <3> QED BY <1>1, <3>1, <3>2
  <2>5. t = [i \in 1 .. n - 1 |-> <<s, (a + 1) + i>>]
    BY <2>3, <2>4
  <2>6. Head(q) = <<s, a + 1>>
    BY <1>1, <1>5, <2>2
  <2> QED BY <2>1, <2>5, <2>6 DEF t
<1>6. n = 0 => q = <<>>
  BY <1>3, EmptySeq
<1> QED BY <1>3, <1>4, <1>5, <1>6 DEF q, Following

\* Counts of a polite program.
LEMMA Counts ==
  ASSUME IInv, kind = "polite"
  PROVE  /\ Asked \in Nat /\ answered \in Nat /\ received \in Nat
         /\ received <= answered /\ answered <= Asked /\ next_word[2] = Asked + 1
         /\ host # "up" => Asked = answered /\ answered = received /\ pc = "poll"
<1>1. Sizes
  BY Numbers DEF IInv
<1>2. next_word[2] \in Nat /\ next_word[2] >= 1 /\ answered \in Nat /\ received \in Nat
  BY <1>1 DEF Sizes
<1>3. CASE host = "up"
  <2>1. CommandInv /\ AnswerInv
    BY <1>3 DEF IInv, ChannelInv, Whole
  <2>2. answered + 1 <= next_word[2] /\ received <= answered
    BY <1>2, <2>1 DEF CommandInv, AnswerInv
  <2> QED BY <1>2, <1>3, <2>2 DEF Asked
<1>4. CASE host # "up"
  <2>1. Settled
    BY <1>4 DEF IInv, ChannelInv, Types, TypeOK
  <2> QED BY <1>2, <2>1 DEF Settled, Asked
<1> QED BY <1>3, <1>4

\* The requests and replies of a polite program are numbered.
LEMMA Bars ==
  ASSUME kind = "polite"
  PROVE  /\ requestsBar = Following(session, answered, Asked - answered)
         /\ repliesBar  = Following(session, received, answered - received)
BY DEF requestsBar, repliesBar

\* With the last word of a command, the program sends a request.
LEMMA SendStep ==
  ASSUME IInv, kind = "polite", HostWrite
  PROVE  [Abstract!Next]_(Abstract!vars)
<1>1. Sizes /\ Types
  BY Numbers DEF IInv
<1>2. /\ UNCHANGED <<host, session, kind, rx, received, last, answered>>
      /\ host = "up" /\ next_word[2] <= MaxCmds /\ next_word' = Succ(next_word)
  BY <1>1, WriteEffect DEF HostWrite, fwVars
<1>3. /\ Asked \in Nat /\ answered \in Nat /\ received \in Nat
      /\ received <= answered /\ answered <= Asked /\ next_word[2] = Asked + 1
  BY Counts
<1>4. repliesBar' = repliesBar
  BY <1>2 DEF repliesBar
<1>5. CASE next_word[3] < PktWords
  <2>1. next_word'[2] = next_word[2]
    BY <1>2, <1>5 DEF Succ
  <2>2. requestsBar' = requestsBar
    BY <1>2, <2>1 DEF requestsBar, Asked
  <2> QED BY <1>2, <1>4, <2>2 DEF Abstract!vars
<1>6. CASE ~(next_word[3] < PktWords)
  <2>1. Asked' = Asked + 1
    <3>1. next_word'[2] = next_word[2] + 1
      BY <1>2, <1>6 DEF Succ
    <3> QED BY <1>3, <3>1 DEF Asked
  <2> DEFINE n == Asked - answered
             w == <<session, Asked + 1>>
  <2>2. n \in Nat /\ answered + (n + 1) = Asked + 1 /\ Asked' - answered' = n + 1
    BY <1>2, <1>3, <2>1
  <2>3. requestsBar = Following(session, answered, n)
    BY Bars
  <2>4. requestsBar' = Following(session, answered, n + 1)
    BY <1>2, <2>2 DEF requestsBar
  <2> HIDE DEF n
  <2>5. requestsBar' = Append(requestsBar, w) /\ Len(requestsBar) = n
    <3>1. /\ Following(session, answered, n + 1) =
               Append(Following(session, answered, n), <<session, answered + (n + 1)>>)
          /\ Len(Following(session, answered, n)) = n
      BY <1>3, <2>2, Numbered
    <3>2. <<session, answered + (n + 1)>> = w
      BY <2>2
    <3> HIDE DEF w
    <3> QED BY <2>3, <2>4, <3>1, <3>2
  <2>6. Len(repliesBar) = answered - received
    <3> DEFINE k == answered - received
    <3>1. k \in Nat /\ repliesBar = Following(session, received, k)
      BY <1>3, Bars
    <3> HIDE DEF k
    <3>2. Len(repliesBar) = k
      BY <1>3, <3>1, Numbered
    <3> QED BY <3>2 DEF k
  <2>7. Len(requestsBar) + Len(repliesBar) < Window
    <3>1. Outstanding <= Window
      BY <1>2 DEF IInv, ChannelInv, Whole, AnswerInv
    <3>2. next_word[3] > 1
      BY <1>1, <1>6 DEF Sizes
    <3>3. Asked + 1 - received <= Window
      BY <3>1, <3>2 DEF Outstanding, Asked
    <3>4. n = Asked - answered /\ Window \in Nat
      BY WindowAssumption DEF n
    <3> QED BY <1>3, <2>5, <2>6, <3>3, <3>4
  <2>8. w \in (1 .. MaxSessions) \X (1 .. MaxCmds)
    <3>1. session \in 1 .. MaxSessions
      BY <1>1, <1>2 DEF Sizes, Types
    <3>2. Asked + 1 \in 1 .. MaxCmds
      BY <1>1, <1>2, <1>3 DEF Sizes
    <3> QED BY <3>1, <3>2
  <2> HIDE DEF w
  <2>9. Abstract!Send(w)
    BY <1>2, <1>4, <2>5, <2>7 DEF Abstract!Send
  <2> QED BY <2>8, <2>9 DEF Abstract!Next
<1> QED BY <1>5, <1>6

\* With the last word of an answer, the request is served.
LEMMA ServeStep ==
  ASSUME IInv, kind = "polite", Answer
  PROVE  [Abstract!Next]_(Abstract!vars)
<1>1. Sizes
  BY Numbers DEF IInv
<1>2. /\ UNCHANGED <<session, kind, next_word, received, last>>
      /\ pc = "answer" /\ AnswerLoop
  BY DEF Answer, hostVars
<1>3. /\ Asked \in Nat /\ answered \in Nat /\ received \in Nat
      /\ received <= answered /\ answered <= Asked /\ host = "up"
      /\ Asked' = Asked
  BY <1>2, Counts DEF Asked
<1>4. CASE cnt + 1 < PktWords
  <2>1. answered' = answered
    BY <1>2, <1>4 DEF AnswerLoop
  <2>2. requestsBar' = requestsBar /\ repliesBar' = repliesBar
    BY <1>2, <1>3, <2>1 DEF requestsBar, repliesBar
  <2> QED BY <1>2, <2>2 DEF Abstract!vars
<1>5. CASE ~(cnt + 1 < PktWords)
  <2>1. answered' = answered + 1
    BY <1>2, <1>5 DEF AnswerLoop
  <2> DEFINE n == Asked - answered
             k == answered - received
  <2>2. Asked > answered
    <3>1. answered + 2 <= next_word[2]
      BY <1>2, <1>3 DEF IInv, ChannelInv, Whole, CommandInv
    <3>2. next_word[2] = Asked + 1
      BY Counts
    <3> QED BY <1>3, <3>1, <3>2
  <2>3. n \in Nat /\ n > 0 /\ k \in Nat /\ received + (k + 1) = answered + 1
        /\ Asked' - answered' = n - 1 /\ answered' - received' = k + 1
    BY <1>2, <1>3, <2>1, <2>2
  <2>4. /\ requestsBar = Following(session, answered, n)
        /\ repliesBar  = Following(session, received, k)
    BY Bars
  <2>5. requestsBar' = Following(session, answered + 1, n - 1)
    BY <1>2, <2>1, <2>3 DEF requestsBar
  <2>6. repliesBar' = Following(session, received, k + 1)
    BY <1>2, <2>3 DEF repliesBar
  <2> HIDE DEF n, k
  <2>7. /\ requestsBar # <<>> /\ Head(requestsBar) = <<session, answered + 1>>
        /\ requestsBar' = Tail(requestsBar)
    BY <1>3, <2>3, <2>4, <2>5, Numbered
  <2>8. repliesBar' = Append(repliesBar, <<session, answered + 1>>)
    <3>1. Following(session, received, k + 1) =
            Append(Following(session, received, k), <<session, received + (k + 1)>>)
      <4>1. received \in Nat /\ k \in Nat
        BY <1>3, <2>3
      <4> QED BY <4>1, Numbered
    <3>2. <<session, received + (k + 1)>> = <<session, answered + 1>>
      BY <2>3
    <3> QED BY <2>4, <2>6, <3>1, <3>2
  <2>9. Abstract!Serve
    BY <1>2, <2>7, <2>8 DEF Abstract!Serve
  <2> QED BY <2>9 DEF Abstract!Next
<1> QED BY <1>4, <1>5

\* With the last word the host takes, the reply is received, and it is that
\* to the oldest request.
LEMMA ReceiveStep ==
  ASSUME IInv, IInv', kind = "polite", HostRead
  PROVE  [Abstract!Next]_(Abstract!vars)
<1>1. Sizes /\ received' <= MaxCmds
  <2>1. Sizes
    BY Numbers DEF IInv
  <2>2. received' <= MaxCmds
    BY BoundsAssumption DEF IInv, Types, TypeOK
  <2> QED BY <2>1, <2>2
<1>2. /\ UNCHANGED <<host, session, kind, next_word, answered>> /\ host = "up"
  BY DEF HostRead, fwVars
<1>3. /\ Asked \in Nat /\ answered \in Nat /\ received \in Nat
      /\ received <= answered /\ Asked' = Asked
  BY <1>2, Counts DEF Asked
<1>4. requestsBar' = requestsBar
  BY <1>2, <1>3 DEF requestsBar
<1>5. CASE Len(rx) # PktWords - 1
  <2>1. UNCHANGED <<received, last>>
    BY <1>5 DEF HostRead
  <2>2. repliesBar' = repliesBar
    BY <1>2, <2>1 DEF repliesBar
  <2> QED BY <1>4, <2>1, <2>2 DEF Abstract!vars
<1>6. CASE Len(rx) = PktWords - 1
  <2>1. received' = received + 1 /\ last' = Id(Head(f2h)[1])
    BY <1>6 DEF HostRead
  <2>2. received' <= answered'
    BY <1>2 DEF IInv, ChannelInv, Whole, AnswerInv
  <2> DEFINE k == answered - received
  <2>3. k \in Nat /\ k > 0 /\ answered' - received' = k - 1
    BY <1>2, <1>3, <2>1, <2>2
  <2>4. repliesBar = Following(session, received, k)
    BY Bars
  <2>5. repliesBar' = Following(session, received + 1, k - 1)
    BY <1>2, <2>1, <2>3 DEF repliesBar
  <2> HIDE DEF k
  <2>6. /\ repliesBar # <<>> /\ Head(repliesBar) = <<session, received + 1>>
        /\ repliesBar' = Tail(repliesBar)
    BY <1>3, <2>3, <2>4, <2>5, Numbered
  <2>7. last' = <<session, received + 1>>
    <3>1. Head(f2h)[1] = Command(session, received + 1)
      <4>1. Types /\ AnswerInv
        BY <1>2 DEF IInv, ChannelInv, Whole
      <4> QED BY <4>1, TakeEffect
    <3>2. session \in 1 .. MaxSessions
      BY <1>1, <1>2 DEF Sizes, IInv, Types
    <3>3. received + 1 \in 1 .. MaxCmds
      <4>1. received' <= MaxCmds /\ MaxCmds \in Nat
        BY <1>1 DEF Sizes
      <4> QED BY <1>3, <2>1, <4>1
    <3> QED BY <2>1, <3>1, <3>2, <3>3, IdOfCommand
  <2>8. Abstract!Receive
    BY <1>4, <2>6, <2>7 DEF Abstract!Receive
  <2> QED BY <2>8 DEF Abstract!Next
<1> QED BY <1>5, <1>6

\* A program that begins has no requests, nor had the one before it.
LEMMA BeginStep ==
  ASSUME IInv, Start
  PROVE  UNCHANGED Abstract!vars
<1>1. /\ answered' = 0 /\ received' = 0 /\ Asked' = 0 /\ last' = last /\ host = "down"
  BY DEF Start, Asked
<1>2. requestsBar = <<>> /\ repliesBar = <<>>
  <2>1. CASE kind # "polite"
    BY <2>1 DEF requestsBar, repliesBar
  <2>2. CASE kind = "polite"
    <3>1. /\ Asked \in Nat /\ answered \in Nat /\ received \in Nat
          /\ Asked - answered = 0 /\ answered - received = 0
      BY <1>1, <2>2, Counts
    <3>2. /\ requestsBar = Following(session, answered, 0)
          /\ repliesBar  = Following(session, received, 0)
      BY <2>2, <3>1, Bars
    <3>3. 0 \in Nat
      OBVIOUS
    <3> QED BY <3>1, <3>2, <3>3, Numbered
  <2> QED BY <2>1, <2>2
<1>3. requestsBar' = <<>> /\ repliesBar' = <<>>
  <2>1. 0 \in Nat /\ 0 - 0 = 0
    OBVIOUS
  <2>2. Following(session', 0, 0) = <<>>
    BY <2>1, Numbered
  <2> QED BY <1>1, <2>1, <2>2 DEF requestsBar, repliesBar
<1> QED BY <1>1, <1>2, <1>3 DEF Abstract!vars

\* Every step of the channel is one of RequestReply, or none.
LEMMA AbstractStep ==
  ASSUME IInv, IInv', [Next]_vars
  PROVE  [Abstract!Next]_(Abstract!vars)
<1>1. CASE Start
  BY <1>1, BeginStep
<1>2. CASE HostWrite \/ HostRead \/ Answer
  <2>1. CASE kind = "polite"
    BY <1>2, <2>1, SendStep, ReceiveStep, ServeStep
  <2>2. CASE kind # "polite"
    <3>1. kind' = kind /\ last' = last
      BY <1>2, <2>2 DEF HostWrite, HostRead, Answer, hostVars
    <3> QED BY <2>2, <3>1 DEF requestsBar, repliesBar, Abstract!vars
  <2> QED BY <2>1, <2>2
<1>3. CASE \/ Exit \/ CloseWrite \/ CloseRead \/ SeeWritten
           \/ Poll \/ ToggleReset \/ ReadWord \/ Execute \/ UNCHANGED vars
  <2>1. UNCHANGED <<session, kind, next_word, received, last, answered>>
    BY <1>3 DEF Exit, CloseWrite, CloseRead, SeeWritten, Poll, ToggleReset, ReadWord,
         Execute, vars, hostVars, fwVars
  <2> QED BY <2>1 DEF requestsBar, repliesBar, Asked, Abstract!vars
<1> QED BY <1>1, <1>2, <1>3 DEF Next, Firmware

\* Commands of a polite program are served in order, each gets one answer, and
\* the answers are received in that order: the safety part of RequestsReplied.
THEOREM ChannelImplements ==
  Spec => Abstract!Safety
<1>1. Init => Abstract!Init
  <2>1. SUFFICES ASSUME Init PROVE requestsBar = <<>> /\ repliesBar = <<>> /\ last = <<0, 0>>
    BY DEF Abstract!Init
  <2>2. Asked = 0 /\ answered = 0 /\ received = 0 /\ last = <<0, 0>>
    BY <2>1 DEF Init, Asked
  <2>3. 0 \in Nat /\ 0 - 0 = 0
    OBVIOUS
  <2>4. Following(session, 0, 0) = <<>>
    BY <2>3, Numbered
  <2> QED BY <2>2, <2>3, <2>4 DEF requestsBar, repliesBar
<1>2. IInv /\ IInv' /\ [Next]_vars => [Abstract!Next]_(Abstract!vars)
  BY AbstractStep
<1> QED BY <1>1, <1>2, ChannelHolds, PTL DEF Spec, Abstract!Safety
=============================================================================
