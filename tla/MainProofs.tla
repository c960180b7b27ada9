----------------------------- MODULE MainProofs -----------------------------
(***************************************************************************)
(* IInv (module MainInvariant) is an inductive invariant of MainLoop.      *)
(***************************************************************************)
EXTENDS MainInvariant, SequenceTheorems, TLAPS

-----------------------------------------------------------------------------
(* The requests of the PLLs.                                               *)

LEMMA BaseIsPll ==
  Base \in Plls
BY PllsAssumption DEF Base

\* The firmware starts with no request seen and every core at rest.
LEMMA PllInit ==
  ASSUME Init
  PROVE  PllInv
<1> USE DEF Init
<1>1. TypeOK
  BY PllsAssumption, BudgetsAssumption, TimeoutAssumption DEF TypeOK, None, Kinds
<1>2. EdgeOfAge
  BY DEF EdgeOfAge, Edge, None, Kinds
<1>3. ServedOfAge
  BY DEF ServedOfAge, Unserved, Kinds
<1>4. StatusInv
  BY DEF StatusInv, Configuring, Writing, Kinds, NoErr
<1>5. CoreInv
  BY DEF CoreInv
<1>6. JobInv
  BY DEF JobInv, Kinds
<1> QED BY <1>1, <1>2, <1>3, <1>4, <1>5, <1>6 DEF PllInv

\* The edge the firmware remembers of a start bit is that of its age.
LEMMA EdgeNext ==
  ASSUME PllInv, Next
  PROVE  EdgeOfAge'
<1> USE DEF PllInv, TypeOK, EdgeOfAge, Edge, hostVars, fwVars, pllVars, history
<1>1. CASE UpdateEdges
  BY <1>1 DEF UpdateEdges, Sample
<1>2. CASE Dispatch
  BY <1>2 DEF Dispatch
<1>3. ASSUME NEW p \in Plls, Lock(p) \/ CoreDone(p)
      PROVE  EdgeOfAge'
  BY <1>3 DEF Lock, CoreDone
<1>4. CASE CheckPhase
  BY <1>4 DEF CheckPhase
<1>5. CASE CheckConfig
  BY <1>5 DEF CheckConfig
<1>6. CASE WriteMode \/ WriteParams \/ WriteStart
  BY <1>6 DEF WriteMode, WriteParams, WriteStart
<1>7. CASE Poll
  BY <1>7 DEF Poll, PollEnds, Return
<1>8. CASE ConfigEnds \/ CheckReset
  BY <1>8 DEF ConfigEnds, CheckReset
<1> QED BY <1>1, <1>2, <1>3, <1>4, <1>5, <1>6, <1>7, <1>8 DEF Next, Firmware

\* A request is served once, after it was raised.
LEMMA ServedNext ==
  ASSUME PllInv, Next
  PROVE  ServedOfAge'
<1> USE DEF PllInv, TypeOK, EdgeOfAge, ServedOfAge, Unserved, Before, Kinds,
           Edge, hostVars, fwVars, pllVars, history
<1>1. CASE UpdateEdges
  BY <1>1 DEF UpdateEdges
<1>2. CASE Dispatch
  BY <1>2 DEF Dispatch
<1>3. ASSUME NEW p \in Plls, Lock(p) \/ CoreDone(p)
      PROVE  ServedOfAge'
  BY <1>3 DEF Lock, CoreDone
<1>4. CASE CheckPhase
  BY <1>4 DEF CheckPhase, Served
<1>5. CASE CheckConfig
  BY <1>5 DEF CheckConfig, Served
<1>6. CASE WriteMode \/ WriteParams \/ WriteStart
  BY <1>6 DEF WriteMode, WriteParams, WriteStart
<1>7. CASE Poll
  BY <1>7 DEF Poll, PollEnds, Return
<1>8. CASE ConfigEnds
  BY <1>8 DEF ConfigEnds
<1>9. CASE CheckReset
  BY <1>9 DEF CheckReset, Served
<1> QED BY <1>1, <1>2, <1>3, <1>4, <1>5, <1>6, <1>7, <1>8, <1>9 DEF Next, Firmware

\* The statuses the firmware writes.
Statuses == [done : BOOLEAN, busy : BOOLEAN, err : Garbage \cup {NoErr, CxTimeout}]

\* A status with done set is a status.
LEMMA DoneType ==
  ASSUME NEW err \in Garbage \cup {NoErr, CxTimeout}, Done(err)
  PROVE  stat' \in Statuses
<1>1. [done |-> TRUE, busy |-> FALSE, err |-> err] \in Statuses
  BY DEF Statuses
<1> QED BY <1>1 DEF Done

\* A status with busy set is a status.
LEMMA BusyType ==
  ASSUME stat \in Statuses, Busy
  PROVE  stat' \in Statuses
BY DEF Busy, Statuses

\* A step of the PLL part keeps the variables in their types.
LEMMA TypeNext ==
  ASSUME PllInv, Next
  PROVE  TypeOK'
<1> USE DEF PllInv, TypeOK, hostVars, fwVars, pllVars, history
<1> USE BaseIsPll, PllsAssumption, BudgetsAssumption, TimeoutAssumption
<1>0. raised \in [Kinds -> Nat] /\ served \in [Kinds -> Nat]
  BY DEF ServedOfAge
<1>1. \A k \in Kinds : raised'[k] \in 0 .. budget'[k] /\ served'[k] \in 0 .. budget'[k]
  <2>1. ServedOfAge'
    BY ServedNext
  <2>2. \A k \in Kinds : raised'[k] \in 0 .. budget[k]
    <3>1. CASE Dispatch
      BY <3>1, <1>0 DEF Dispatch
    <3>2. CASE ~Dispatch
      <4>1. raised' = raised
        BY <3>2 DEF Next, Firmware, CheckPhase, CheckConfig, WriteMode, WriteParams,
           WriteStart, Poll, ConfigEnds, CheckReset, UpdateEdges, Lock, CoreDone
      <4> QED BY <4>1
    <3> QED BY <3>1, <3>2
  <2>3. budget' = budget
    BY DEF Next, Firmware, CheckPhase, CheckConfig, WriteMode, WriteParams, WriteStart,
       Poll, ConfigEnds, CheckReset, UpdateEdges, Dispatch, Lock, CoreDone
  <2>4. \A k \in Kinds : budget[k] \in Nat
    OBVIOUS
  <2> HIDE DEF PllInv, TypeOK
  <2> QED BY <2>1, <2>2, <2>3, <2>4 DEF ServedOfAge
<1>2. CASE UpdateEdges
  BY <1>1, <1>2 DEF UpdateEdges, Sample
<1>3. CASE Dispatch
  BY <1>1, <1>3 DEF Dispatch
<1>4. ASSUME NEW p \in Plls, Lock(p) \/ CoreDone(p)
      PROVE  TypeOK'
  <2>1. locked' \in [Plls -> BOOLEAN]
    BY <1>4 DEF Lock, CoreDone
  <2>2. core' \in [Plls -> {"idle", "wait_on_lock", "locked"}]
    BY <1>4 DEF Lock, CoreDone
  <2>3. applied' \in [Plls -> 0 .. MaxCfg]
    BY <1>4 DEF Lock, CoreDone
  <2> QED BY <1>1, <1>4, <2>1, <2>2, <2>3 DEF Lock, CoreDone
<1>5. CASE CheckPhase
  <2>1. stat' \in Statuses
    BY <1>5, DoneType DEF CheckPhase, Statuses
  <2> QED BY <1>1, <1>5, <2>1 DEF CheckPhase, Statuses
<1>6. CASE CheckConfig
  <2>1. stat' \in Statuses
    BY <1>6, BusyType DEF CheckConfig, Statuses
  <2> QED BY <1>1, <1>6, <2>1 DEF CheckConfig, Statuses
<1>7. CASE WriteMode
  BY <1>1, <1>7 DEF WriteMode
<1>8. CASE WriteParams
  BY <1>1, <1>8 DEF WriteParams
<1>9. CASE WriteStart
  BY <1>1, <1>9 DEF WriteStart
<1>10. CASE Poll
  BY <1>1, <1>10 DEF Poll, PollEnds, Return, StatusInv
<1>11. CASE ConfigEnds
  BY <1>1, <1>11 DEF ConfigEnds, Done, ResetPLL
<1>12. CASE CheckReset
  <2>1. stat' \in Statuses
    BY <1>12, DoneType DEF CheckReset, Statuses
  <2>2. locked' \in [Plls -> BOOLEAN]
    BY <1>12 DEF CheckReset, ResetPLL
  <2>3. /\ pc' = "edges"
        /\ UNCHANGED <<budget, hostVars, now, old, pllcfgrez, timeout, mode, usr, core,
                       target, applied, raised, age, job, late>>
    BY <1>12 DEF CheckReset
  <2> QED BY <1>1, <2>1, <2>2, <2>3 DEF Statuses
<1> QED BY <1>2, <1>3, <1>4, <1>5, <1>6, <1>7, <1>8, <1>9, <1>10, <1>11, <1>12
        DEF Next, Firmware

\* A step keeps the status of a request about that request.
LEMMA StatusNext ==
  ASSUME PllInv, Next
  PROVE  StatusInv'
<1> USE DEF PllInv, TypeOK, StatusInv, Writing, Configuring, hostVars, fwVars, pllVars,
            history
<1> USE TimeoutAssumption
<1>0. served \in [Kinds -> Nat] /\ {"phase", "config", "reset"} = Kinds
  BY DEF ServedOfAge, Kinds
<1>2. CASE UpdateEdges
  BY <1>2 DEF UpdateEdges
<1>3. CASE Dispatch
  BY <1>3 DEF Dispatch
<1>4. ASSUME NEW p \in Plls, Lock(p) \/ CoreDone(p)
      PROVE  StatusInv'
  BY <1>4 DEF Lock, CoreDone
<1>5. CASE CheckPhase
  BY <1>0, <1>5 DEF CheckPhase, Done, Served
<1>6. CASE CheckConfig
  BY <1>0, <1>6 DEF CheckConfig, Busy, Served
<1>7. CASE WriteMode
  BY <1>7 DEF WriteMode
<1>8. CASE WriteParams
  BY <1>8 DEF WriteParams
<1>9. CASE WriteStart
  BY <1>9 DEF WriteStart
<1>10. CASE Poll
  BY <1>10 DEF Poll, PollEnds, Return
<1>11. CASE ConfigEnds
  BY <1>11 DEF ConfigEnds, Done
<1>12. CASE CheckReset
  BY <1>0, <1>12 DEF CheckReset, Done, Served
<1> QED BY <1>2, <1>3, <1>4, <1>5, <1>6, <1>7, <1>8, <1>9, <1>10, <1>11, <1>12
        DEF Next, Firmware

\* A step keeps the registers of the core the base address points to.
LEMMA CoreNext ==
  ASSUME PllInv, Next
  PROVE  CoreInv'
<1> USE DEF PllInv, TypeOK, CoreInv, hostVars, fwVars, pllVars, history
<1> USE BaseIsPll
<1>1. pc # "dispatch" => Base' = Base
  BY DEF Next, Firmware, CheckPhase, CheckConfig, WriteMode, WriteParams, WriteStart,
     Poll, ConfigEnds, CheckReset, UpdateEdges, Dispatch, Lock, CoreDone, Base
<1>2. CASE UpdateEdges
  BY <1>1, <1>2 DEF UpdateEdges
<1>3. CASE Dispatch
  BY <1>3 DEF Dispatch
<1>4. ASSUME NEW p \in Plls, Lock(p) \/ CoreDone(p)
      PROVE  CoreInv'
  BY <1>4 DEF Lock, CoreDone, Base
<1>5. CASE CheckPhase
  BY <1>1, <1>5 DEF CheckPhase
<1>6. CASE CheckConfig
  BY <1>1, <1>6 DEF CheckConfig
<1>7. CASE WriteMode \/ WriteParams
  BY <1>1, <1>7 DEF WriteMode, WriteParams
<1>9. CASE WriteStart
  BY <1>1, <1>9 DEF WriteStart
<1>10. CASE Poll
  BY <1>1, <1>10 DEF Poll, PollEnds, Return
<1>11. CASE ConfigEnds
  BY <1>1, <1>11 DEF ConfigEnds
<1>12. CASE CheckReset
  BY <1>1, <1>12 DEF CheckReset
<1> QED BY <1>2, <1>3, <1>4, <1>5, <1>6, <1>7, <1>9, <1>10, <1>11, <1>12
        DEF Next, Firmware

\* A step keeps what the firmware wrote into a core, until it reports done.
LEMMA JobNext ==
  ASSUME PllInv, Next
  PROVE  JobInv'
<1> USE DEF PllInv, TypeOK, JobInv, Writing, hostVars, fwVars, pllVars, history
<1> USE BaseIsPll
<1>0. served \in [Kinds -> Nat] /\ {"phase", "config", "reset"} = Kinds
  BY DEF ServedOfAge, Kinds
<1>1. pc # "dispatch" => Base' = Base
  BY DEF Next, Firmware, CheckPhase, CheckConfig, WriteMode, WriteParams, WriteStart,
     Poll, ConfigEnds, CheckReset, UpdateEdges, Dispatch, Lock, CoreDone, Base
<1>2. CASE UpdateEdges
  BY <1>1, <1>2 DEF UpdateEdges
<1>3. CASE Dispatch
  BY <1>3 DEF Dispatch
<1>4. ASSUME NEW p \in Plls, Lock(p) \/ CoreDone(p)
      PROVE  JobInv'
  BY <1>4 DEF Lock, CoreDone, Base
<1>5. CASE CheckPhase
  BY <1>0, <1>1, <1>5 DEF CheckPhase, Served
<1>6. CASE CheckConfig
  BY <1>0, <1>1, <1>6 DEF CheckConfig, Served
<1>7. CASE WriteMode
  BY <1>1, <1>7 DEF WriteMode
<1>8. CASE WriteParams
  BY <1>1, <1>8 DEF WriteParams
<1>9. CASE WriteStart
  BY <1>1, <1>9 DEF WriteStart, CoreInv
<1>10. CASE Poll
  BY <1>1, <1>10 DEF Poll, PollEnds, Return, NoErr, CxTimeout
<1>11. CASE ConfigEnds
  BY <1>1, <1>11 DEF ConfigEnds
<1>12. CASE CheckReset
  BY <1>0, <1>1, <1>12 DEF CheckReset, Served
<1> QED BY <1>2, <1>3, <1>4, <1>5, <1>6, <1>7, <1>8, <1>9, <1>10, <1>11, <1>12
        DEF Next, Firmware

\* Every step of the firmware and of the PLLs keeps the invariant.
LEMMA PllNext ==
  ASSUME PllInv, [Next]_vars
  PROVE  PllInv'
<1>1. CASE Next
  BY <1>1, TypeNext, EdgeNext, ServedNext, StatusNext, CoreNext, JobNext DEF PllInv
<1>2. CASE UNCHANGED vars
  BY <1>2 DEF PllInv, TypeOK, EdgeOfAge, Edge, ServedOfAge, Unserved, StatusInv, CoreInv,
     JobInv, Base, vars, hostVars, fwVars, pllVars, history
<1> QED BY <1>1, <1>2

\* The invariant says what a host is promised.
LEMMA PllPromises ==
  ASSUME PllInv
  PROVE  StatusOfRequest /\ AppliedWhenDone
<1>1. StatusOfRequest
  BY DEF PllInv, TypeOK, StatusOfRequest, SettledAfterOneCommand, ErrorIsCode, ServedOfAge,
     Unserved, Before, Kinds, StatusInv, Writing, Configuring
<1>2. AppliedWhenDone
  BY DEF PllInv, AppliedWhenDone, JobInv, Writing
<1> QED BY <1>1, <1>2

-----------------------------------------------------------------------------
(* The thread.                                                             *)

LEMMA ThreadInit ==
  ASSUME MainInit
  PROVE  ThreadInv
BY DEF MainInit, Init, Spi!Init, ThreadInv, InDriver

\* A command to another chip is, for the PLLs, a command that writes no
\* register; every other step of the thread is one of PllConfig or none.
LEMMA MainNextIsNext ==
  ASSUME PllInv, ThreadInv, [MainNext]_mainVars
  PROVE  [Next]_vars
<1>1. CASE ChipCommandEnds
  <2>1. pc = "dispatch" /\ NoRequests
    BY <1>1 DEF ChipCommandEnds, ThreadInv, InDriver, Spi!Release
  <2>2. /\ raised = [k \in Kinds |-> raised[k]]
        /\ start \in [Kinds -> BOOLEAN]
        /\ age = [k \in Kinds |-> 2]
    BY <2>1 DEF PllInv, TypeOK, ServedOfAge, ThreadInv
  <2>3. Dispatch
    BY <1>1, <2>1, <2>2
       DEF ChipCommandEnds, Dispatch, PllInv, TypeOK, history, hostVars
  <2> QED BY <2>3 DEF Next, Firmware
<1>2. CASE PllRequests \/ RegisterCommand
  BY <1>2 DEF PllRequests, RegisterCommand, Next, Firmware
<1>3. CASE Driver \/ AdcCall \/ AdcReturn \/ AdcSwitch \/ ChipCommand
  BY <1>3 DEF Driver, AdcCall, AdcReturn, AdcSwitch, ChipCommand
<1>4. CASE SpiCores \/ Switch
  BY <1>4 DEF SpiCores, Switch
<1>5. CASE \E p \in Plls : Pll(p)
  BY <1>5 DEF Pll, Next
<1>6. CASE UNCHANGED mainVars
  BY <1>6 DEF mainVars
<1> QED BY <1>1, <1>2, <1>3, <1>4, <1>5, <1>6 DEF MainNext, Processor

\* The processor stays in one place: in the driver or in the rest of the
\* loop.
LEMMA ThreadNext ==
  ASSUME PllInv, ThreadInv, [MainNext]_mainVars
  PROVE  ThreadInv'
<1> USE DEF ThreadInv, InDriver, InRest, NoRequests
<1>1. CASE ChipCommandEnds
  BY <1>1 DEF ChipCommandEnds, Spi!Release, Adc!Rest, history
<1>2. CASE PllRequests
  <2>1. ~InDriver /\ UNCHANGED <<budget, age, adcVars, spiVars>>
    BY <1>2 DEF PllRequests, Firmware, CheckPhase, CheckConfig, WriteMode, WriteParams,
       WriteStart, Poll, ConfigEnds, CheckReset, UpdateEdges, Dispatch, history
  <2> QED BY <2>1 DEF adcVars, spiVars
<1>3. CASE RegisterCommand
  <2>1. NoRequests => \A k \in Kinds : age'[k] = 2
    BY <1>3 DEF RegisterCommand, Dispatch, PllInv, TypeOK
  <2>2. ~InDriver' /\ budget' = budget
    BY <1>3 DEF RegisterCommand, Dispatch, spiVars
  <2> QED BY <2>1, <2>2
<1>4. CASE Driver
  BY <1>4 DEF Driver, Spi!Driver, Spi!Select, Spi!Discard, Spi!Poll, Spi!Send,
     Spi!Receive, Spi!Finish, vars, adcVars, history
<1>5. CASE AdcCall
  BY <1>5 DEF AdcCall, vars, adcVars, history
<1>6. CASE AdcReturn
  BY <1>6 DEF AdcReturn, Spi!Release, vars, history
<1>7. CASE AdcSwitch
  BY <1>7 DEF AdcSwitch, vars, spiVars, history
<1>8. CASE ChipCommand
  BY <1>8 DEF ChipCommand, vars, adcVars, history
<1>9. CASE SpiCores
  BY <1>9 DEF SpiCores, Spi!Core, Spi!Load, Spi!Exchange, vars, adcVars, history
<1>10. CASE Switch
  BY <1>10 DEF Switch, Adc!Flip, vars, spiVars, history
<1>11. CASE \E p \in Plls : Pll(p)
  BY <1>11 DEF Pll, Lock, CoreDone, adcVars, spiVars, history
<1>12. CASE UNCHANGED mainVars
  BY <1>12 DEF mainVars, vars, adcVars, spiVars, history
<1> QED BY <1>1, <1>2, <1>3, <1>4, <1>5, <1>6, <1>7, <1>8, <1>9, <1>10, <1>11, <1>12
        DEF MainNext, Processor

-----------------------------------------------------------------------------
(* A call of the SPI driver.                                               *)

LEMMA SpiInit ==
  ASSUME MainInit
  PROVE  SpiInv
<1> USE DEF MainInit, Spi!Init
<1>1. 1 \in Spi!Places
  BY LengthAssumption DEF Spi!Places
<1>2. Spi!TypeOK
  BY <1>1, LengthAssumption DEF Spi!TypeOK, Spi!None
<1>3. OthersQuiet
  BY DEF OthersQuiet, Spi!None
<1>4. CallBegins /\ OneByte /\ Complete /\ Contents
  BY DEF CallBegins, OneByte, Complete, Contents
<1> QED BY <1>2, <1>3, <1>4 DEF SpiInv

\* Every step is one of SpiCommand, or leaves its variables alone.
LEMMA MainNextIsSpiNext ==
  ASSUME [MainNext]_mainVars
  PROVE  [Spi!Next]_spiVars
<1>1. CASE AdcCall
  <2>1. /\ 2 \in 1 .. MaxWrite /\ 1 \in 1 .. MaxWrite
        /\ 0 \in 0 .. MaxRead /\ 1 \in 0 .. MaxRead
    BY LengthAssumption
  <2> QED BY <1>1, <2>1, MastersAssumption DEF AdcCall, Spi!Next
<1>2. CASE ChipCommand
  BY <1>2 DEF ChipCommand, Spi!Next
<1>3. CASE Driver \/ AdcReturn \/ ChipCommandEnds \/ SpiCores
  BY <1>3 DEF Driver, AdcReturn, ChipCommandEnds, SpiCores, Spi!Next
<1>4. CASE AdcSwitch \/ PllRequests \/ RegisterCommand \/ Switch
  BY <1>4 DEF AdcSwitch, PllRequests, RegisterCommand, Switch
<1>5. CASE \E p \in Plls : Pll(p)
  BY <1>5 DEF Pll
<1>6. CASE UNCHANGED mainVars
  BY <1>6 DEF mainVars
<1> QED BY <1>1, <1>2, <1>3, <1>4, <1>5, <1>6 DEF MainNext, Processor

\* The numbers of the call under way.
LEMMA SpiNumbers ==
  ASSUME SpiInv
  PROVE  /\ writes \in Nat /\ reads \in Nat /\ Total \in Nat
         /\ writes + reads <= MaxWrite + MaxRead
         /\ sent \in Nat /\ sent <= Total
         /\ ignore \in Nat /\ ignore <= writes
         /\ Len(frame) \in Nat /\ Len(data) \in Nat /\ Len(data) <= reads
         /\ credits \in Int
         /\ master \in Masters
BY LengthAssumption DEF SpiInv, Spi!TypeOK, Total

\* A step of the driver or of a core leaves the other masters quiet.
LEMMA OthersQuietNext ==
  ASSUME SpiInv, Spi!Next
  PROVE  OthersQuiet'
<1> USE DEF SpiInv, Spi!TypeOK, OthersQuiet, Spi!call, Spi!local
<1>1. ASSUME NEW m \in Masters, NEW w \in 1 .. MaxWrite, NEW r \in 0 .. MaxRead,
             Spi!Call(m, w, r)
      PROVE  OthersQuiet'
  BY <1>1 DEF Spi!Call
<1>2. CASE Spi!Select
  BY <1>2 DEF Spi!Select
<1>3. CASE Spi!Discard
  BY <1>3 DEF Spi!Discard
<1>4. CASE Spi!Poll
  BY <1>4 DEF Spi!Poll
<1>5. CASE Spi!Send
  <2>1. CASE status.trdy /\ credits > 0 /\ sent < writes + reads
    <3>1. /\ spi_core' = [spi_core EXCEPT ![master].tx = sent + 1]
          /\ sso' = sso /\ master' = master
          /\ spi_pc' = "receive" /\ spi_pc = "send"
      BY <1>5, <2>1 DEF Spi!Send
    <3> QED BY <3>1
  <2>2. CASE ~(status.trdy /\ credits > 0 /\ sent < writes + reads)
    BY <1>5, <2>2 DEF Spi!Send
  <2> QED BY <2>1, <2>2
<1>6. CASE Spi!Receive
  <2>1. CASE status.rrdy
    <3>1. /\ spi_core' = [spi_core EXCEPT ![master].rx = Spi!None]
          /\ sso' = sso /\ master' = master
          /\ spi_pc' \in {"finish", "poll"} /\ spi_pc = "receive"
      BY <1>6, <2>1 DEF Spi!Receive
    <3>2. spi_core[master].tx = 0 /\ spi_core[master].shift = 0
      BY <1>6, <2>1 DEF Spi!Receive, OneByte
    <3> QED BY <3>1, <3>2
  <2>2. CASE ~status.rrdy
    BY <1>6, <2>2 DEF Spi!Receive
  <2> QED BY <2>1, <2>2
<1>7. CASE Spi!Finish
  BY <1>7 DEF Spi!Finish
<1>8. CASE Spi!Release
  BY <1>8 DEF Spi!Release
<1>9. ASSUME NEW m \in Masters, Spi!Load(m)
      PROVE  OthersQuiet'
  BY <1>9 DEF Spi!Load, Spi!None
<1>10. ASSUME NEW m \in Masters, Spi!Exchange(m)
       PROVE  OthersQuiet'
  BY <1>10 DEF Spi!Exchange, Spi!None, OneByte
<1> HIDE DEF SpiInv, Spi!TypeOK, OthersQuiet, Spi!call, Spi!local
<1> QED BY <1>1, <1>2, <1>3, <1>4, <1>5, <1>6, <1>7, <1>8, <1>9, <1>10
        DEF Spi!Next, Spi!Driver, Spi!Core

\* A call begins with nothing in the core's registers.
LEMMA CallBeginsNext ==
  ASSUME SpiInv, Spi!Next
  PROVE  CallBegins'
<1> USE DEF SpiInv, Spi!TypeOK, CallBegins, Total, Spi!call, Spi!local
<1>1. ASSUME NEW m \in Masters, NEW w \in 1 .. MaxWrite, NEW r \in 0 .. MaxRead,
             Spi!Call(m, w, r)
      PROVE  CallBegins'
  BY <1>1, LengthAssumption DEF Spi!Call, Spi!Credits
<1>2. CASE Spi!Select
  BY <1>2 DEF Spi!Select
<1>3. CASE Spi!Discard
  BY <1>3 DEF Spi!Discard
<1>4. CASE Spi!Poll
  BY <1>4 DEF Spi!Poll
<1>5. CASE Spi!Send
  BY <1>5 DEF Spi!Send
<1>6. CASE Spi!Receive
  BY <1>6 DEF Spi!Receive
<1>7. CASE Spi!Finish
  BY <1>7 DEF Spi!Finish
<1>8. CASE Spi!Release
  BY <1>8 DEF Spi!Release
<1>9. ASSUME NEW m \in Masters, Spi!Load(m)
      PROVE  CallBegins'
  BY <1>9 DEF Spi!Load
<1>10. ASSUME NEW m \in Masters, Spi!Exchange(m)
       PROVE  CallBegins'
  BY <1>10 DEF Spi!Exchange, Spi!None, OthersQuiet
<1> QED BY <1>1, <1>2, <1>3, <1>4, <1>5, <1>6, <1>7, <1>8, <1>9, <1>10
        DEF Spi!Next, Spi!Driver, Spi!Core

\* A step keeps the bytes under way between driver and core within credit.
LEMMA OneByteNext ==
  ASSUME SpiInv, Spi!Next
  PROVE  OneByte'
<1> USE SpiNumbers DEF OneByte, UnderWay, Total, Spi!call, Spi!local, Spi!None
<1>0. Spi!TypeOK /\ OthersQuiet /\ CallBegins /\ OneByte /\ Contents
  BY DEF SpiInv
<1>1. ASSUME NEW m \in Masters, NEW w \in 1 .. MaxWrite, NEW r \in 0 .. MaxRead,
             Spi!Call(m, w, r)
      PROVE  OneByte'
  BY <1>1 DEF Spi!Call
<1>2. CASE Spi!Select
  BY <1>2 DEF Spi!Select
<1>3. CASE Spi!Discard
  BY <1>0, <1>3 DEF Spi!Discard, Spi!TypeOK, OthersQuiet, CallBegins
<1>4. CASE Spi!Poll
  BY <1>0, <1>4 DEF Spi!Poll, Spi!Trdy, Spi!Rrdy
<1>5. CASE Spi!Send
  <2>1. CASE status.trdy /\ credits > 0 /\ sent < writes + reads
    BY SMTT(30), <1>0, <1>5, <2>1 DEF Spi!Send, Spi!TypeOK
  <2>2. CASE status.trdy /\ credits > 0 /\ ~(sent < writes + reads)
    BY <1>0, <1>5, <2>2 DEF Spi!Send, Spi!TypeOK
  <2>3. CASE ~(status.trdy /\ credits > 0)
    BY SMTT(30), <1>0, <1>5, <2>3 DEF Spi!Send, Spi!TypeOK
  <2> QED BY <2>1, <2>2, <2>3
<1>6. CASE Spi!Receive
  <2>1. CASE status.rrdy
    <3>1. /\ spi_core' = [spi_core EXCEPT ![master].rx = 0]
          /\ UNCHANGED <<master, writes, reads, sent, status, frame>>
          /\ Spi!Store(spi_core[master].rx) /\ credits' = credits + 1
          /\ spi_pc' = IF ignore' = 0 /\ Len(data') = reads THEN "finish" ELSE "poll"
          /\ spi_pc = "receive"
      BY <1>6, <2>1 DEF Spi!Receive, Spi!CreditBack
    <3>2. spi_core[master].rx # 0 /\ spi_core[master].rx = sent
      BY <1>0, <2>1, <3>1
    <3>3. credits = 0 /\ spi_core[master].tx = 0 /\ spi_core[master].shift = 0
      BY <1>0, <3>1, <3>2
    <3>4. /\ ignore' \in Nat /\ ignore' <= writes /\ Len(data') \in Nat
          /\ (writes - ignore') + Len(data') = (writes - ignore) + Len(data) + 1
          /\ ignore' > 0 => Len(data') = 0
      <4>0. /\ ignore \in Nat /\ ignore <= writes /\ writes \in Nat /\ Len(data) \in Nat
            /\ ignore > 0 => Len(data) = 0
        BY <1>0 DEF Spi!TypeOK, Contents
      <4>1. CASE ignore > 0
        <5>1. data' = data /\ ignore' = ignore - 1
          BY <3>1, <4>1 DEF Spi!Store
        <5>2. Len(data') = Len(data)
          BY <5>1
        <5> QED BY <4>0, <4>1, <5>1, <5>2
      <4>2. CASE ~(ignore > 0)
        <5>1. spi_core[master].rx \in Spi!Places
          BY <1>0, <3>2 DEF Spi!TypeOK
        <5>2. data' = Append(data, spi_core[master].rx) /\ ignore' = ignore
          BY <3>1, <4>2 DEF Spi!Store
        <5>3. Len(data') = Len(data) + 1
          BY <1>0, <5>1, <5>2 DEF Spi!TypeOK
        <5>4. ignore = 0 /\ ignore' = 0
          BY <4>2, <5>2
        <5> QED BY <5>3, <5>4
      <4> QED BY <4>1, <4>2
    <3>5. /\ spi_core'[master].tx = 0 /\ spi_core'[master].shift = 0
          /\ spi_core'[master].rx = 0
      BY <1>0, <3>1, <3>3 DEF Spi!TypeOK
    <3>6. Len(frame) = sent
      BY <1>0, <3>1, <3>3
    <3>7. (writes - ignore') + Len(data') = sent
      BY <1>0, <3>1, <3>3, <3>4
    <3>8. spi_pc' = "poll" => sent < writes + reads
      BY SMTT(30), <3>1, <3>4, <3>7
    <3>9. credits' = 1 /\ master' = master /\ frame' = frame
      BY <3>1, <3>3
    <3> QED BY <3>1, <3>5, <3>6, <3>7, <3>8, <3>9
  <2>2. CASE ~status.rrdy
    BY <1>0, <1>6, <2>2 DEF Spi!Receive, Spi!TypeOK
  <2> QED BY <2>1, <2>2
<1>7. CASE Spi!Finish
  BY <1>7 DEF Spi!Finish
<1>8. CASE Spi!Release
  BY <1>8 DEF Spi!Release
<1>9. ASSUME NEW m \in Masters, Spi!Load(m)
      PROVE  OneByte'
  BY <1>0, <1>9 DEF Spi!Load, Spi!TypeOK, OthersQuiet
<1>10. ASSUME NEW m \in Masters, Spi!Exchange(m)
       PROVE  OneByte'
  BY SMTT(30), <1>0, <1>10 DEF Spi!Exchange, Spi!TypeOK, OthersQuiet
<1> QED BY <1>1, <1>2, <1>3, <1>4, <1>5, <1>6, <1>7, <1>8, <1>9, <1>10
        DEF Spi!Next, Spi!Driver, Spi!Core

\* A step keeps every byte that was sent accounted for.
LEMMA CompleteNext ==
  ASSUME SpiInv, Spi!Next
  PROVE  Complete'
<1> USE SpiNumbers DEF Complete, Total, Spi!call, Spi!local
<1>0. Spi!TypeOK /\ OthersQuiet /\ OneByte /\ Complete /\ Contents
  BY DEF SpiInv
<1>1. ASSUME NEW m \in Masters, NEW w \in 1 .. MaxWrite, NEW r \in 0 .. MaxRead,
             Spi!Call(m, w, r)
      PROVE  Complete'
  BY <1>1 DEF Spi!Call
<1>2. CASE Spi!Select \/ Spi!Discard \/ Spi!Poll \/ Spi!Send
  BY <1>2 DEF Spi!Select, Spi!Discard, Spi!Poll, Spi!Send
<1>3. CASE Spi!Receive
  <2>1. CASE spi_pc' = "poll"
    BY <2>1
  <2>2. CASE spi_pc' # "poll"
    <3>1. /\ status.rrdy /\ ignore' = 0 /\ Len(data') = reads
          /\ spi_pc = "receive" /\ Spi!Store(spi_core[master].rx)
          /\ UNCHANGED <<master, writes, reads, sent, frame>>
      BY <1>3, <2>2 DEF Spi!Receive
    <3>2. credits = 0 /\ ~UnderWay /\ Len(frame) = sent
      BY <1>0, <3>1 DEF OneByte, UnderWay
    <3>3. (writes - ignore) + Len(data) = sent - 1
      BY <1>0, <3>1, <3>2 DEF OneByte
    <3>4. (writes - ignore) + Len(data) + 1 = Total
      <4>1. CASE ignore > 0
        <5>1. ignore = 1 /\ data' = data
          BY <3>1, <4>1 DEF Spi!Store
        <5> QED BY <3>1, <5>1
      <4>2. CASE ~(ignore > 0)
        <5>1. spi_core[master].rx \in Spi!Places
          BY <1>0, <3>1 DEF Spi!TypeOK, OneByte, Spi!None
        <5>2. data' = Append(data, spi_core[master].rx) /\ ignore = 0
          BY <3>1, <4>2 DEF Spi!Store
        <5>3. Len(data') = Len(data) + 1
          BY <1>0, <5>1, <5>2 DEF Spi!TypeOK
        <5> QED BY <3>1, <5>2, <5>3
      <4> QED BY <4>1, <4>2
    <3>5. sent = Total
      BY <3>3, <3>4
    <3> QED BY <3>1, <3>2, <3>5
  <2> QED BY <2>1, <2>2
<1>4. CASE Spi!Finish
  BY <1>0, <1>4 DEF Spi!Finish
<1>5. CASE Spi!Release
  BY <1>5 DEF Spi!Release
<1>6. ASSUME NEW m \in Masters, Spi!Load(m)
      PROVE  Complete'
  BY <1>0, <1>6 DEF Spi!Load
<1>7. ASSUME NEW m \in Masters, Spi!Exchange(m)
      PROVE  Complete'
  BY <1>0, <1>7 DEF Spi!Exchange, Spi!None, OthersQuiet
<1> QED BY <1>1, <1>2, <1>3, <1>4, <1>5, <1>6, <1>7
        DEF Spi!Next, Spi!Driver, Spi!Core

\* A step keeps the bytes in order: what was exchanged is the next of them.
LEMMA ContentsNext ==
  ASSUME SpiInv, Spi!Next
  PROVE  Contents'
<1> USE SpiNumbers DEF Contents, Total, Spi!call, Spi!local
<1>0. Spi!TypeOK /\ OthersQuiet /\ CallBegins /\ OneByte /\ Contents
  BY DEF SpiInv
<1>1. ASSUME NEW m \in Masters, NEW w \in 1 .. MaxWrite, NEW r \in 0 .. MaxRead,
             Spi!Call(m, w, r)
      PROVE  Contents'
  BY <1>0, <1>1 DEF Spi!Call, CallBegins
<1>2. CASE Spi!Select \/ Spi!Discard \/ Spi!Poll \/ Spi!Send \/ Spi!Finish
  BY <1>0, <1>2 DEF Spi!Select, Spi!Discard, Spi!Poll, Spi!Send, Spi!Finish
<1>3. CASE Spi!Receive
  <2>1. CASE status.rrdy
    <3>1. /\ UNCHANGED <<writes, frame>> /\ spi_pc = "receive"
          /\ Spi!Store(spi_core[master].rx)
      BY <1>3, <2>1 DEF Spi!Receive
    <3>2. spi_core[master].rx = sent /\ sent \in Spi!Places /\ credits = 0
      BY <1>0, <2>1, <3>1 DEF OneByte, Spi!TypeOK, Spi!None
    <3>3. (writes - ignore) + Len(data) = sent - 1
      BY <1>0, <3>1, <3>2 DEF OneByte
    <3>4. CASE ignore > 0
      BY <1>0, <3>1, <3>4 DEF Spi!Store
    <3>5. CASE ~(ignore > 0)
      <4>1. data' = Append(data, sent) /\ ignore' = 0 /\ ignore = 0
        BY <3>1, <3>2, <3>5 DEF Spi!Store
      <4>2. sent = writes + Len(data) + 1
        BY <3>3, <4>1
      <4>3. \A i \in 1 .. Len(data') :
              data'[i] = IF i = Len(data) + 1 THEN sent ELSE data[i]
        BY <1>0, <3>2, <4>1 DEF Spi!TypeOK
      <4>4. Len(data') = Len(data) + 1
        BY <1>0, <3>2, <4>1 DEF Spi!TypeOK
      <4>5. \A i \in 1 .. Len(data') : data'[i] = writes' + i
        <5>1. \A i \in 1 .. Len(data) : data[i] = writes + i
          BY <1>0
        <5> SUFFICES ASSUME NEW i \in 1 .. Len(data')
                     PROVE  data'[i] = writes' + i
          OBVIOUS
        <5>2. CASE i = Len(data) + 1
          BY <3>1, <4>2, <4>3, <5>2
        <5>3. CASE i # Len(data) + 1
          <6>1. i \in 1 .. Len(data)
            BY <4>4, <5>3
          <6> QED BY <3>1, <4>3, <5>1, <5>3, <6>1
        <5> QED BY <5>2, <5>3
      <4>6. frame' = frame /\ Contents /\ ignore' = 0
        BY <1>0, <3>1, <4>1
      <4> QED BY <4>5, <4>6
    <3> QED BY <3>4, <3>5
  <2>2. CASE ~status.rrdy
    BY <1>0, <1>3, <2>2 DEF Spi!Receive
  <2> QED BY <2>1, <2>2
<1>5. CASE Spi!Release
  BY <1>5 DEF Spi!Release
<1>6. ASSUME NEW m \in Masters, Spi!Load(m)
      PROVE  Contents'
  BY <1>0, <1>6 DEF Spi!Load
<1>7. ASSUME NEW m \in Masters, Spi!Exchange(m)
      PROVE  Contents'
  <2>1. m = master /\ spi_pc \in {"poll", "send", "receive"}
    BY <1>0, <1>7 DEF Spi!Exchange, Spi!None, OthersQuiet, Spi!TypeOK
  <2>2. /\ frame' = Append(frame, sent) /\ sent = Len(frame) + 1 /\ sent \in Spi!Places
        /\ UNCHANGED <<data, writes, ignore>>
    BY <1>0, <1>7, <2>1 DEF Spi!Exchange, OneByte, UnderWay, Spi!TypeOK, Spi!None
  <2>3. \A i \in 1 .. Len(frame') : frame'[i] = IF i = Len(frame) + 1 THEN sent ELSE frame[i]
    BY <1>0, <2>2 DEF Spi!TypeOK
  <2>4. Len(frame') = Len(frame) + 1
    BY <1>0, <2>2 DEF Spi!TypeOK
  <2> QED BY <1>0, <2>2, <2>3, <2>4
<1> QED BY <1>1, <1>2, <1>3, <1>5, <1>6, <1>7 DEF Spi!Next, Spi!Driver, Spi!Core

\* The registers of a core.
Registers == [tx : Spi!Places \cup {Spi!None}, shift : Spi!Places \cup {Spi!None},
              rx : Spi!Places \cup {Spi!None}, roe : BOOLEAN]

\* Setting one register of a core gives registers of a core.
LEMMA RegisterSet ==
  ASSUME NEW c \in [Masters -> Registers], NEW m \in Masters,
         NEW v \in Spi!Places \cup {Spi!None}
  PROVE  /\ [c EXCEPT ![m].rx = v] \in [Masters -> Registers]
         /\ [c EXCEPT ![m].tx = v] \in [Masters -> Registers]
<1>1. [c[m] EXCEPT !.rx = v] \in Registers /\ [c[m] EXCEPT !.tx = v] \in Registers
  BY DEF Registers
<1> QED BY <1>1

\* The cores by the type of their registers.
LEMMA CoreTypes ==
  ASSUME Spi!TypeOK
  PROVE  /\ spi_core \in [Masters -> Registers] /\ master \in Masters
         /\ Spi!None \in Spi!Places \cup {Spi!None}
BY DEF Spi!TypeOK, Registers

\* A step of driver or core keeps the variables in their types.
LEMMA SpiTypeNext ==
  ASSUME SpiInv, Spi!Next
  PROVE  Spi!TypeOK'
<1> USE SpiNumbers DEF Spi!TypeOK, Spi!call, Spi!local
<1>0. Spi!TypeOK /\ OthersQuiet /\ OneByte
  BY DEF SpiInv
<1>1. ASSUME NEW m \in Masters, NEW w \in 1 .. MaxWrite, NEW r \in 0 .. MaxRead,
             Spi!Call(m, w, r)
      PROVE  Spi!TypeOK'
  BY <1>0, <1>1, LengthAssumption DEF Spi!Call, Spi!Credits
<1>2. CASE Spi!Select
  BY <1>0, <1>2 DEF Spi!Select
<1>3. CASE Spi!Discard
  <2>1. spi_core' \in [Masters -> Registers]
    <3> HIDE DEF Spi!TypeOK
    <3>1. spi_core' = [spi_core EXCEPT ![master].rx = Spi!None]
      BY <1>3 DEF Spi!Discard
    <3> QED BY <1>0, <3>1, CoreTypes, RegisterSet
  <2> QED BY <1>0, <1>3, <2>1 DEF Spi!Discard, Registers
<1>4. CASE Spi!Poll
  BY <1>0, <1>4 DEF Spi!Poll, Spi!Trdy, Spi!Rrdy
<1>5. CASE Spi!Send
  <2>1. spi_core' \in [Masters -> Registers]
    <3>1. CASE spi_core' = spi_core
      BY <1>0, <3>1 DEF Registers
    <3>2. CASE spi_core' # spi_core
      <4>1. spi_core' = [spi_core EXCEPT ![master].tx = sent + 1] /\ sent < writes + reads
        BY <1>5, <3>2 DEF Spi!Send
      <4>2. sent + 1 \in Spi!Places
        <5> HIDE DEF Spi!TypeOK
        <5>1. sent + 1 \in 1 .. writes + reads
          BY <4>1
        <5> QED BY <5>1, LengthAssumption DEF Spi!Places
      <4> HIDE DEF Spi!TypeOK
      <4> QED BY <1>0, <4>1, <4>2, CoreTypes, RegisterSet
    <3> QED BY <3>1, <3>2
  <2>2. credits' \in (0 .. 1) \cup (-1024 .. -1) /\ sent' \in 0 .. writes + reads
    <3> HIDE DEF Spi!TypeOK
    <3>1. spi_pc = "send" /\ credits \in {0, 1}
      BY <1>0, <1>5 DEF Spi!Send, OneByte
    <3>2. \/ sent < writes + reads /\ sent' = sent + 1 /\ credits > 0 /\ credits' = credits - 1
          \/ sent' = sent /\ credits' \in {credits, -1024}
      BY <1>5 DEF Spi!Send
    <3>3. credits' \in {0, 1, -1024}
      BY <3>1, <3>2
    <3>4. sent \in Nat /\ sent <= writes + reads /\ writes + reads \in Nat
      BY SpiNumbers DEF Total
    <3>5. sent' \in 0 .. writes + reads
      BY <3>2, <3>4
    <3> QED BY <3>3, <3>5
  <2> QED BY <1>0, <1>5, <2>1, <2>2 DEF Spi!Send, Registers
<1>6. CASE Spi!Receive
  <2>1. CASE status.rrdy
    <3>1. /\ spi_core' = [spi_core EXCEPT ![master].rx = 0]
          /\ UNCHANGED <<master, writes, reads, sent, status, sso, frame>>
          /\ Spi!Store(spi_core[master].rx) /\ credits' = credits + 1
          /\ spi_pc' \in {"finish", "poll"} /\ spi_pc = "receive"
      BY <1>6, <2>1 DEF Spi!Receive, Spi!CreditBack, Spi!None
    <3>2. spi_core' \in [Masters -> Registers]
      <4> HIDE DEF Spi!TypeOK
      <4>1. spi_core' = [spi_core EXCEPT ![master].rx = Spi!None]
        BY <3>1 DEF Spi!None
      <4> QED BY <1>0, <4>1, CoreTypes, RegisterSet
    <3>3. spi_core[master].rx \in Spi!Places /\ credits = 0
      BY <1>0, <2>1, <3>1 DEF OneByte, Spi!None
    <3>4. (writes - ignore) + Len(data) < writes + reads
      BY <1>0, <3>1 DEF OneByte, Total
    <3>5. ignore' \in 0 .. writes /\ data' \in Seq(Spi!Places) /\ Len(data') <= reads
      <4>1. CASE ignore > 0
        BY <1>0, <3>1, <4>1 DEF Spi!Store
      <4>2. CASE ~(ignore > 0)
        <5>1. data' = Append(data, spi_core[master].rx) /\ ignore' = 0 /\ ignore = 0
          BY <3>1, <4>2 DEF Spi!Store
        <5>2. data' \in Seq(Spi!Places) /\ Len(data') = Len(data) + 1
          BY <1>0, <3>3, <5>1
        <5> QED BY <3>4, <5>1, <5>2
      <4> QED BY <4>1, <4>2
    <3> QED BY <1>0, <3>1, <3>2, <3>3, <3>5 DEF Registers
  <2>2. CASE ~status.rrdy
    BY <1>0, <1>6, <2>2 DEF Spi!Receive
  <2> QED BY <2>1, <2>2
<1>7. CASE Spi!Finish
  BY <1>0, <1>7 DEF Spi!Finish
<1>8. CASE Spi!Release
  <2>1. sso' \in [Masters -> BOOLEAN] /\ frame' \in Seq(Spi!Places)
        /\ data' \in Seq(Spi!Places) /\ Len(data') = 0
    BY <1>0, <1>8 DEF Spi!Release
  <2>2. status' \in [trdy : BOOLEAN, rrdy : BOOLEAN]
    BY <1>8 DEF Spi!Release
  <2> QED BY <1>0, <1>8, <2>1, <2>2, LengthAssumption DEF Spi!Release
<1>9. ASSUME NEW m \in Masters, Spi!Load(m)
      PROVE  Spi!TypeOK'
  BY <1>0, <1>9 DEF Spi!Load
<1>10. ASSUME NEW m \in Masters, Spi!Exchange(m)
       PROVE  Spi!TypeOK'
  BY <1>0, <1>10 DEF Spi!Exchange, OneByte, OthersQuiet, Spi!Places, Spi!None, UnderWay
<1> QED BY <1>1, <1>2, <1>3, <1>4, <1>5, <1>6, <1>7, <1>8, <1>9, <1>10
        DEF Spi!Next, Spi!Driver, Spi!Core

\* A step of driver or core preserves the invariant of the bus.
LEMMA SpiNext ==
  ASSUME SpiInv, [Spi!Next]_spiVars
  PROVE  SpiInv'
<1>1. CASE Spi!Next
  BY <1>1, SpiTypeNext, OthersQuietNext, CallBeginsNext, OneByteNext, CompleteNext,
     ContentsNext DEF SpiInv
<1>2. CASE UNCHANGED spiVars
  BY <1>2 DEF spiVars, SpiInv, Spi!TypeOK, OthersQuiet, CallBegins, Total, OneByte,
     UnderWay, Complete, Contents
<1> QED BY <1>1, <1>2

\* The invariant of the bus gives what the driver promises.
LEMMA SpiPromises ==
  ASSUME SpiInv
  PROVE  Exchanged /\ Spi!TypeOK /\ Spi!BusIsOurs
<1>1. Exchanged
  <2> SUFFICES ASSUME spi_pc = "release"
               PROVE  /\ frame = [i \in 1 .. writes + reads |-> i]
                      /\ data = [i \in 1 .. reads |-> writes + i]
                      /\ ~spi_core[master].roe
    BY DEF Exchanged, Spi!Exchanged
  <2>1. Len(frame) = writes + reads /\ Len(data) = reads
    BY DEF SpiInv, Complete, Total
  <2>2. frame \in Seq(Spi!Places) /\ data \in Seq(Spi!Places)
    BY DEF SpiInv, Spi!TypeOK
  <2>3. frame = [i \in 1 .. writes + reads |-> i]
    BY <2>1, <2>2 DEF SpiInv, Contents
  <2>4. data = [i \in 1 .. reads |-> writes + i]
    BY <2>1, <2>2 DEF SpiInv, Contents
  <2>5. ~spi_core[master].roe
    BY DEF SpiInv, OthersQuiet, Spi!TypeOK
  <2> QED BY <2>3, <2>4, <2>5
<1>2. Spi!BusIsOurs
  BY DEF SpiInv, OthersQuiet, Spi!BusIsOurs, Spi!None
<1> QED BY <1>1, <1>2 DEF SpiInv

-----------------------------------------------------------------------------
(* The commands of the ADC.                                                *)

LEMMA MainNextIsAdcNext ==
  ASSUME [MainNext]_mainVars
  PROVE  [Adc!Next]_adcVars
<1>1. CASE AdcReturn \/ AdcSwitch \/ RegisterCommand \/ ChipCommandEnds \/ Switch
  BY <1>1 DEF AdcReturn, AdcSwitch, RegisterCommand, ChipCommandEnds, Switch, Adc!Next
<1>2. CASE Driver \/ AdcCall \/ ChipCommand \/ PllRequests \/ SpiCores
  BY <1>2 DEF Driver, AdcCall, ChipCommand, PllRequests, SpiCores
<1>3. CASE \E p \in Plls : Pll(p)
  BY <1>3 DEF Pll
<1>4. CASE UNCHANGED mainVars
  BY <1>4 DEF mainVars
<1> QED BY <1>1, <1>2, <1>3, <1>4 DEF MainNext, Processor

\* The registers of the ADC that the firmware uses.
LEMMA AdcAddresses ==
  /\ \A i \in 1 .. 15 : Adc!Zeroed[i] \in Adc!Addresses /\ Adc!Zeroed[i] # 0
  /\ \A i \in 1 .. 5 : Adc!Chosen[i][2] \in Adc!Addresses
  /\ {37, 43, 63, 64, 66} \subseteq Adc!Addresses
  /\ \A i \in 1 .. 14 : Adc!Checked[i] \in Adc!Addresses /\ Adc!Checked[i] # 0
<1>1. DOMAIN Adc!Zeroed = 1 .. 15 /\ DOMAIN Adc!Chosen = 1 .. 5
  BY DEF Adc!Zeroed, Adc!Chosen
<1>2. \A i \in 1 .. 15 : Adc!Zeroed[i] \in Adc!Addresses
  BY <1>1 DEF Adc!Addresses, Adc!ToSet
<1>3. \A i \in 1 .. 5 : Adc!Chosen[i][2] \in Adc!Addresses
  BY <1>1 DEF Adc!Addresses, Adc!ToSet
<1>4. \A i \in 1 .. 15 : Adc!Zeroed[i] # 0
  BY DEF Adc!Zeroed
<1>5. {63, 64, 66} \subseteq Adc!Addresses
  BY <1>2 DEF Adc!Zeroed
<1>6. {37, 43} \subseteq Adc!Addresses
  BY <1>3 DEF Adc!Chosen, Adc!W
<1>7. {65, 69, 74, 88, 191, 193, 207, 241, 219, 239, 242} \subseteq Adc!Addresses
  BY <1>2, <1>3 DEF Adc!Zeroed, Adc!Chosen, Adc!W
<1>8. \A i \in 1 .. 14 : Adc!Checked[i] \in Adc!Addresses /\ Adc!Checked[i] # 0
  BY <1>5, <1>7 DEF Adc!Checked
<1> QED BY <1>2, <1>3, <1>4, <1>5, <1>6, <1>8

\* s, of m commands, and t in a row are n commands.
Joined(s, t, m, n) ==
  /\ s \o t \in Seq(Commands) /\ Len(s \o t) = n
  /\ \A i \in 1 .. n : (s \o t)[i] = IF i <= m THEN s[i] ELSE t[i - m]

\* What two routines in a row are, command by command.
LEMMA Concatenation ==
  ASSUME NEW s \in Seq(Commands), NEW t \in Seq(Commands),
         NEW m \in Nat, NEW n \in Nat, Len(s) = m, Len(t) = n - m
  PROVE  Joined(s, t, m, n)
BY ConcatProperties DEF Joined

\* init_ADC of the model, put together from its parts.
LEMMA InitRoutineBuilt ==
  /\ Adc!init_ADC \in Seq(Commands) /\ Len(Adc!init_ADC) = 37
  /\ Adc!init_ADC[1] = Adc!Reset
  /\ \A n \in 2 .. 16 : Adc!init_ADC[n] = Adc!W(Adc!Zeroed[n - 1], 0)
  /\ \A n \in 17 .. 21 : Adc!init_ADC[n] = Adc!Chosen[n - 16]
  /\ Adc!init_ADC[22] = Adc!ReadoutOn
  /\ \A n \in 23 .. 36 : Adc!init_ADC[n] = Adc!R(Adc!Checked[n - 22])
  /\ Adc!init_ADC[37] = Adc!ReadoutOff
<1> DEFINE z == [i \in DOMAIN Adc!Zeroed |-> Adc!W(Adc!Zeroed[i], 0)]
           c == [i \in DOMAIN Adc!Checked |-> Adc!R(Adc!Checked[i])]
           s1 == <<Adc!Reset>>
           on == <<Adc!ReadoutOn>>
           off == <<Adc!ReadoutOff>>
           s2 == s1 \o z
           s3 == s2 \o Adc!Chosen
           s4 == s3 \o on
           s5 == s4 \o c
           s6 == s5 \o off
<1> HIDE DEF z, c, on, off, s1, s2, s3, s4, s5, s6
<1>0. Adc!init_ADC = s6
  BY DEF Adc!init_ADC, z, c, on, off, s1, s2, s3, s4, s5, s6
<1>1. z \in Seq(Commands) /\ Len(z) = 15
      /\ \A i \in 1 .. 15 : z[i] = Adc!W(Adc!Zeroed[i], 0)
  <2>1. \A i \in 1 .. 15 : Adc!W(Adc!Zeroed[i], 0) \in Commands
    BY AdcAddresses DEF Adc!W, Commands
  <2>2. DOMAIN Adc!Zeroed = 1 .. 15
    BY DEF Adc!Zeroed
  <2> QED BY <2>1, <2>2 DEF z
<1>2. c \in Seq(Commands) /\ Len(c) = 14
      /\ \A i \in 1 .. 14 : c[i] = Adc!R(Adc!Checked[i])
  <2>1. \A i \in 1 .. 14 : Adc!R(Adc!Checked[i]) \in Commands
    BY AdcAddresses DEF Adc!R, Commands
  <2>2. DOMAIN Adc!Checked = 1 .. 14
    BY DEF Adc!Checked
  <2> QED BY <2>1, <2>2 DEF c
<1>3. Adc!Chosen \in Seq(Commands) /\ Len(Adc!Chosen) = 5
  <2>1. \A i \in 1 .. 5 : Adc!Chosen[i] \in Commands
    BY AdcAddresses DEF Adc!Chosen, Adc!W, Commands
  <2>2. Adc!Chosen \in Seq({Adc!Chosen[i] : i \in 1 .. 5}) /\ Len(Adc!Chosen) = 5
    BY DEF Adc!Chosen
  <2> QED BY <2>1, <2>2
<1>4. /\ s1 \in Seq(Commands) /\ Len(s1) = 1 /\ s1[1] = Adc!Reset
      /\ on \in Seq(Commands) /\ Len(on) = 1 /\ on[1] = Adc!ReadoutOn
      /\ off \in Seq(Commands) /\ Len(off) = 1 /\ off[1] = Adc!ReadoutOff
  BY DEF Adc!Reset, Adc!ReadoutOn, Adc!ReadoutOff, Adc!W, Commands, s1, on, off
<1>5. s2 \in Seq(Commands) /\ Len(s2) = 16
      /\ \A i \in 1 .. 16 : s2[i] = IF i <= 1 THEN s1[i] ELSE z[i - 1]
  <2>1. 1 \in Nat /\ 16 \in Nat /\ 15 = 16 - 1
    OBVIOUS
  <2>3. s1 \in Seq(Commands) /\ Len(s1) = 1
    BY <1>4
  <2>2. Joined(s1, z, 1, 16)
    BY <1>1, <2>1, <2>3, Concatenation, Zenon
  <2> QED BY <2>2, Zenon DEF Joined, s2
<1>6. s3 \in Seq(Commands) /\ Len(s3) = 21
      /\ \A i \in 1 .. 21 : s3[i] = IF i <= 16 THEN s2[i] ELSE Adc!Chosen[i - 16]
  <2>1. 16 \in Nat /\ 21 \in Nat /\ 5 = 21 - 16
    OBVIOUS
  <2>2. Joined(s2, Adc!Chosen, 16, 21)
    BY <1>3, <1>5, <2>1, Concatenation, Zenon
  <2> QED BY <2>2, Zenon DEF Joined, s3
<1>7. s4 \in Seq(Commands) /\ Len(s4) = 22
      /\ \A i \in 1 .. 22 : s4[i] = IF i <= 21 THEN s3[i] ELSE on[i - 21]
  <2>1. 21 \in Nat /\ 22 \in Nat /\ 1 = 22 - 21
    OBVIOUS
  <2>3. on \in Seq(Commands) /\ Len(on) = 1
    BY <1>4
  <2>2. Joined(s3, on, 21, 22)
    BY <1>6, <2>1, <2>3, Concatenation, Zenon
  <2> QED BY <2>2, Zenon DEF Joined, s4
<1>8. s5 \in Seq(Commands) /\ Len(s5) = 36
      /\ \A i \in 1 .. 36 : s5[i] = IF i <= 22 THEN s4[i] ELSE c[i - 22]
  <2>1. 22 \in Nat /\ 36 \in Nat /\ 14 = 36 - 22
    OBVIOUS
  <2>2. Joined(s4, c, 22, 36)
    BY <1>2, <1>7, <2>1, Concatenation, ZenonT(30)
  <2> QED BY <2>2, Zenon DEF Joined, s5
<1>9. s6 \in Seq(Commands) /\ Len(s6) = 37
      /\ \A i \in 1 .. 37 : s6[i] = IF i <= 36 THEN s5[i] ELSE off[i - 36]
  <2>1. 36 \in Nat /\ 37 \in Nat /\ 1 = 37 - 36
    OBVIOUS
  <2>3. off \in Seq(Commands) /\ Len(off) = 1
    BY <1>4
  <2>4. s5 \in Seq(Commands) /\ Len(s5) = 36
    BY <1>8
  <2>2. Joined(s5, off, 36, 37)
    BY <2>1, <2>3, <2>4, Concatenation, Zenon
  <2> QED BY <2>2, Zenon DEF Joined, s6
<1>10. /\ \A i \in 1 .. 16 : s2[i] = IF i <= 1 THEN s1[i] ELSE z[i - 1]
       /\ \A i \in 1 .. 21 : s3[i] = IF i <= 16 THEN s2[i] ELSE Adc!Chosen[i - 16]
       /\ \A i \in 1 .. 22 : s4[i] = IF i <= 21 THEN s3[i] ELSE on[i - 21]
       /\ \A i \in 1 .. 36 : s5[i] = IF i <= 22 THEN s4[i] ELSE c[i - 22]
       /\ \A i \in 1 .. 37 : s6[i] = IF i <= 36 THEN s5[i] ELSE off[i - 36]
  BY <1>5, <1>6, <1>7, <1>8, <1>9, Zenon
<1>11. /\ \A i \in 1 .. 15 : z[i] = Adc!W(Adc!Zeroed[i], 0)
       /\ \A i \in 1 .. 14 : c[i] = Adc!R(Adc!Checked[i])
       /\ s1[1] = Adc!Reset /\ on[1] = Adc!ReadoutOn /\ off[1] = Adc!ReadoutOff
  BY <1>1, <1>2, <1>4, Zenon
<1>12. s6[1] = Adc!Reset /\ s6[22] = Adc!ReadoutOn /\ s6[37] = Adc!ReadoutOff
  BY <1>10, <1>11
<1>13. \A n \in 2 .. 16 : s6[n] = Adc!W(Adc!Zeroed[n - 1], 0)
  BY <1>10, <1>11
<1>14. \A n \in 17 .. 21 : s6[n] = Adc!Chosen[n - 16]
  BY <1>10
<1>15. \A n \in 23 .. 36 : s6[n] = Adc!R(Adc!Checked[n - 22])
  BY <1>10, <1>11
<1> QED BY <1>0, <1>9, <1>12, <1>13, <1>14, <1>15

\* init_ADC is a sequence of commands.
LEMMA InitRoutineType ==
  Adc!init_ADC \in Seq(Commands)
BY InitRoutineBuilt, Zenon

\* The 37 commands of init_ADC.
LEMMA InitRoutine ==
  /\ Len(Adc!init_ADC) = 37
  /\ Adc!init_ADC[1] = Adc!Reset
  /\ \A n \in 2 .. 16 : Adc!init_ADC[n] = Adc!W(Adc!Zeroed[n - 1], 0)
  /\ \A n \in 17 .. 21 : Adc!init_ADC[n] = Adc!Chosen[n - 16]
  /\ Adc!init_ADC[22] = Adc!ReadoutOn
  /\ \A n \in 23 .. 36 : Adc!init_ADC[n] = Adc!R(Adc!Checked[n - 22])
  /\ Adc!init_ADC[37] = Adc!ReadoutOff
BY InitRoutineBuilt, Zenon

\* change_ADC_tpat of the model, put together from its parts.
LEMMA ChangeRoutineBuilt ==
  /\ Adc!change_ADC_tpat(1) \in Seq(Commands)
  /\ Adc!change_ADC_tpat(0) \in Seq(Commands)
  /\ Len(Adc!change_ADC_tpat(1)) = 10
  /\ Adc!change_ADC_tpat(1)[1] = Adc!ReadoutOff
  /\ \A n \in 2 .. 5 : Adc!change_ADC_tpat(1)[n] = Adc!Pattern[n - 1]
  /\ Adc!change_ADC_tpat(1)[6] = Adc!W(Adc!DigitalFunctions, 8)
  /\ \A n \in 7 .. 10 : Adc!change_ADC_tpat(1)[n] = Adc!CheckPattern[n - 6]
  /\ Adc!change_ADC_tpat(0) = << Adc!W(Adc!DigitalFunctions, 0) >>
<1> DEFINE off == <<Adc!ReadoutOff>>
           en  == <<Adc!W(Adc!DigitalFunctions, 8)>>
           s2  == off \o Adc!Pattern
           s3  == s2 \o en
           s4  == s3 \o Adc!CheckPattern
<1> HIDE DEF off, en, s2, s3, s4
<1>1. Adc!change_ADC_tpat(1) = s4
  BY DEF Adc!change_ADC_tpat, off, en, s2, s3, s4
<1>2. /\ off \in Seq(Commands) /\ Len(off) = 1
      /\ off[1] = Adc!ReadoutOff
  BY DEF off, Adc!ReadoutOff, Adc!W, Commands
<1>3. /\ en \in Seq(Commands) /\ Len(en) = 1
      /\ en[1] = Adc!W(Adc!DigitalFunctions, 8)
  BY AdcAddresses DEF en, Adc!W, Commands, Adc!DigitalFunctions
<1>4. Adc!Pattern \in Seq(Commands) /\ Len(Adc!Pattern) = 4
  BY AdcAddresses DEF Adc!Pattern, Adc!W, Commands
<1>5. Adc!CheckPattern \in Seq(Commands) /\ Len(Adc!CheckPattern) = 4
  BY AdcAddresses DEF Adc!CheckPattern, Adc!ReadoutOn, Adc!ReadoutOff, Adc!R, Adc!W, Commands,
     Adc!DigitalFunctions
<1>6. s2 \in Seq(Commands) /\ Len(s2) = 5
      /\ \A i \in 1 .. 5 : s2[i] = IF i <= 1 THEN off[i] ELSE Adc!Pattern[i - 1]
  <2>1. 1 \in Nat /\ 5 \in Nat /\ 4 = 5 - 1
    OBVIOUS
  <2>2. off \in Seq(Commands) /\ Len(off) = 1
    BY <1>2
  <2>3. Joined(off, Adc!Pattern, 1, 5)
    BY <1>4, <2>1, <2>2, Concatenation, Zenon
  <2> QED BY <2>3, Zenon DEF Joined, s2
<1>7. s3 \in Seq(Commands) /\ Len(s3) = 6
      /\ \A i \in 1 .. 6 : s3[i] = IF i <= 5 THEN s2[i] ELSE en[i - 5]
  <2>1. 5 \in Nat /\ 6 \in Nat /\ 1 = 6 - 5
    OBVIOUS
  <2>2. s2 \in Seq(Commands) /\ Len(s2) = 5
    BY <1>6
  <2>3. en \in Seq(Commands) /\ Len(en) = 1
    BY <1>3
  <2>4. Joined(s2, en, 5, 6)
    BY <2>1, <2>2, <2>3, Concatenation, Zenon
  <2> QED BY <2>4, Zenon DEF Joined, s3
<1>8. s4 \in Seq(Commands) /\ Len(s4) = 10
      /\ \A i \in 1 .. 10 : s4[i] = IF i <= 6 THEN s3[i] ELSE Adc!CheckPattern[i - 6]
  <2>1. 6 \in Nat /\ 10 \in Nat /\ 4 = 10 - 6
    OBVIOUS
  <2>2. s3 \in Seq(Commands) /\ Len(s3) = 6
    BY <1>7
  <2>3. Joined(s3, Adc!CheckPattern, 6, 10)
    BY <1>5, <2>1, <2>2, Concatenation, Zenon
  <2> QED BY <2>3, Zenon DEF Joined, s4
<1>9. s4[1] = Adc!ReadoutOff /\ s4[6] = Adc!W(Adc!DigitalFunctions, 8)
  BY <1>2, <1>3, <1>6, <1>7, <1>8
<1>10. \A n \in 2 .. 5 : s4[n] = Adc!Pattern[n - 1]
  BY <1>6, <1>7, <1>8
<1>11. \A n \in 7 .. 10 : s4[n] = Adc!CheckPattern[n - 6]
  BY <1>8
<1>12. Adc!change_ADC_tpat(0) = << Adc!W(Adc!DigitalFunctions, 0) >>
  BY DEF Adc!change_ADC_tpat
<1>13. Adc!change_ADC_tpat(0) \in Seq(Commands)
  <2>1. Adc!W(Adc!DigitalFunctions, 0) \in Commands
    BY AdcAddresses DEF Adc!W, Commands, Adc!DigitalFunctions
  <2>2. << Adc!W(Adc!DigitalFunctions, 0) >> \in Seq(Commands)
    BY <2>1
  <2> QED BY <1>12, <2>2, Zenon
<1> QED BY <1>1, <1>8, <1>9, <1>10, <1>11, <1>12, <1>13

\* change_ADC_tpat is a sequence of commands either way.
LEMMA ChangeRoutineType ==
  /\ Adc!change_ADC_tpat(1) \in Seq(Commands)
  /\ Adc!change_ADC_tpat(0) \in Seq(Commands)
BY ChangeRoutineBuilt, Zenon

\* The ten commands of change_ADC_tpat to the pattern, and the one back.
LEMMA ChangeRoutine ==
  /\ Len(Adc!change_ADC_tpat(1)) = 10
  /\ Adc!change_ADC_tpat(1)[1] = Adc!ReadoutOff
  /\ \A n \in 2 .. 5 : Adc!change_ADC_tpat(1)[n] = Adc!Pattern[n - 1]
  /\ Adc!change_ADC_tpat(1)[6] = Adc!W(Adc!DigitalFunctions, 8)
  /\ \A n \in 7 .. 10 : Adc!change_ADC_tpat(1)[n] = Adc!CheckPattern[n - 6]
  /\ Adc!change_ADC_tpat(0) = << Adc!W(Adc!DigitalFunctions, 0) >>
BY ChangeRoutineBuilt, Zenon

\* The commands of init_ADC by their effect: reset, writes that leave the test
\* patterns off, readout on, reads, readout off.
LEMMA InitCommands ==
  ASSUME NEW n \in 1 .. 37
  PROVE  /\ Adc!init_ADC[n] \in Commands
         /\ n = 1 => Adc!init_ADC[n] = <<"write", 0, 2>>
         /\ n \in 2 .. 21 => /\ Adc!init_ADC[n][1] = "write"
                             /\ Adc!init_ADC[n][2] # 0
                             /\ Adc!init_ADC[n][2] = 66 => Adc!init_ADC[n][3] = 0
         /\ n = 22 => Adc!init_ADC[n] = <<"write", 0, 1>>
         /\ n \in 23 .. 36 => Adc!init_ADC[n][1] = "read" /\ Adc!init_ADC[n][2] # 0
         /\ n = 37 => Adc!init_ADC[n] = <<"write", 0, 0>>
<1>1. CASE n \in {1, 22, 37}
  <2>1. /\ Adc!init_ADC[1] = <<"write", 0, 2>>
        /\ Adc!init_ADC[22] = <<"write", 0, 1>>
        /\ Adc!init_ADC[37] = <<"write", 0, 0>>
    BY InitRoutine DEF Adc!Reset, Adc!ReadoutOn, Adc!ReadoutOff, Adc!W
  <2>2. Adc!init_ADC[n] \in Commands
    BY <1>1, <2>1 DEF Commands
  <2> QED BY <1>1, <2>1, <2>2
<1>2. CASE n \in 2 .. 16
  <2>1. n - 1 \in 1 .. 15 /\ Adc!init_ADC[n] = <<"write", Adc!Zeroed[n - 1], 0>>
    BY <1>2, InitRoutine DEF Adc!W
  <2> QED BY <1>2, <2>1, AdcAddresses DEF Commands
<1>3. CASE n \in 17 .. 21
  <2>1. n - 16 \in 1 .. 5 /\ Adc!init_ADC[n] = Adc!Chosen[n - 16]
    BY <1>3, InitRoutine
  <2>2. \A i \in 1 .. 5 : /\ Adc!Chosen[i] \in Commands /\ Adc!Chosen[i][1] = "write"
                          /\ Adc!Chosen[i][2] # 0 /\ Adc!Chosen[i][2] # 66
    BY AdcAddresses DEF Adc!Chosen, Adc!W, Commands
  <2> QED BY <1>3, <2>1, <2>2
<1>4. CASE n \in 23 .. 36
  <2>1. n - 22 \in 1 .. 14 /\ Adc!init_ADC[n] = <<"read", Adc!Checked[n - 22], 0>>
    BY <1>4, InitRoutine DEF Adc!R
  <2> QED BY <1>4, <2>1, AdcAddresses DEF Commands
<1> QED BY <1>1, <1>2, <1>3, <1>4

\* The commands of change_ADC_tpat(1): the pattern, its enabling, and the check.
LEMMA ChangeCommands ==
  ASSUME NEW n \in 1 .. 10
  PROVE  LET c == Adc!change_ADC_tpat(1)[n] IN
         /\ c \in Commands
         /\ n \in {1, 10} => c = <<"write", 0, 0>>
         /\ n \in 2 .. 5 => c = Adc!Pattern[n - 1]
         /\ n = 6 => c = <<"write", 66, 8>>
         /\ n = 7 => c = <<"write", 0, 1>>
         /\ n \in 8 .. 9 => c[1] = "read" /\ c[2] # 0
<1>1. Adc!CheckPattern = << <<"write", 0, 1>>, <<"read", 63, 0>>, <<"read", 66, 0>>,
                            <<"write", 0, 0>> >>
  BY DEF Adc!CheckPattern, Adc!ReadoutOn, Adc!ReadoutOff, Adc!R, Adc!W,
     Adc!DigitalFunctions
<1>2. CASE n \in {1, 6}
  BY <1>2, ChangeRoutine, AdcAddresses
     DEF Adc!ReadoutOff, Adc!W, Commands, Adc!DigitalFunctions
<1>3. CASE n \in 2 .. 5
  <2>1. n - 1 \in 1 .. 4 /\ Adc!change_ADC_tpat(1)[n] = Adc!Pattern[n - 1]
    BY <1>3, ChangeRoutine
  <2>2. \A i \in 1 .. 4 : Adc!Pattern[i] \in Commands
    BY AdcAddresses DEF Adc!Pattern, Adc!W, Commands
  <2> QED BY <1>3, <2>1, <2>2
<1>4. CASE n \in 7 .. 10
  <2>1. n - 6 \in 1 .. 4 /\ Adc!change_ADC_tpat(1)[n] = Adc!CheckPattern[n - 6]
    BY <1>4, ChangeRoutine
  <2>2. \A i \in 1 .. 4 : Adc!CheckPattern[i] \in Commands
    BY <1>1, AdcAddresses DEF Commands
  <2> QED BY <1>1, <1>4, <2>1, <2>2
<1> QED BY <1>2, <1>3, <1>4

\* The pattern is four writes to registers of their own.
LEMMA PatternCommands ==
  /\ DOMAIN Adc!Pattern = 1 .. 4
  /\ \A i \in 1 .. 4 : /\ Adc!Pattern[i][1] = "write"
                        /\ Adc!Pattern[i][2] \in Adc!Addresses
                        /\ Adc!Pattern[i][2] # 0 /\ Adc!Pattern[i][2] # 66
  /\ \A i, j \in 1 .. 4 : i # j => Adc!Pattern[i][2] # Adc!Pattern[j][2]
BY AdcAddresses DEF Adc!Pattern, Adc!W

\* The firmware begins with init_ADC before it.
LEMMA AdcInit ==
  ASSUME MainInit
  PROVE  AdcInv
<1> USE DEF MainInit, Adc!Init
<1>1. Adc!Cleared \in [Adc!Addresses -> 0 .. 255]
  BY DEF Adc!Cleared
<1>2. Left(Adc!init_ADC, 1)
  BY InitRoutine DEF Left
<1>3. todo \in Seq(Commands)
  BY InitRoutineType
<1>4. Adc!TypeOK
  <2>1. regs \in [Adc!Addresses -> 0 .. 255]
    <3>1. PICK v \in {0, 8} : regs = [Adc!Cleared EXCEPT ![Adc!DigitalFunctions] = v]
      OBVIOUS
    <3>2. v \in 0 .. 255
      OBVIOUS
    <3> HIDE DEF MainInit, Adc!Init
    <3> QED BY <1>1, <3>1, <3>2
  <2>2. \A i \in DOMAIN todo : todo[i][2] \in Adc!Addresses \cup {0}
    BY <1>3 DEF Commands
  <2> QED BY <2>1, <2>2 DEF Adc!TypeOK
<1>5. Initialising /\ Changing /\ Settled
  BY <1>2 DEF Initialising, Changing, Settled
<1> QED BY <1>3, <1>4, <1>5 DEF AdcInv

\* A command takes the first of what is left.
LEMMA NextLeft ==
  ASSUME NEW routine, Len(routine) \in Nat, NEW n \in Nat, Left(routine, n),
         todo \in Seq(Commands), todo # <<>>, todo' = Tail(todo)
  PROVE  /\ n \in 1 .. Len(routine) /\ Head(todo) = routine[n]
         /\ Left(routine, n + 1)' /\ todo' \in Seq(Commands)
<1>1. n \in 1 .. Len(routine)
  BY DEF Left
<1>2. Head(todo) = todo[1] /\ todo[1] = routine[n]
  BY DEF Left
<1>3. todo' \in Seq(Commands) /\ Len(todo') = Len(todo) - 1
      /\ \A i \in 1 .. Len(todo') : todo'[i] = todo[i + 1]
  OBVIOUS
<1> DEFINE l == Len(routine)
<1> HIDE DEF l
<1>4. l \in Nat /\ l = Len(routine) 
  BY DEF l
<1>5. n + 1 \in 1 .. l + 1 /\ Len(todo') = l + 1 - (n + 1)
  BY <1>1, <1>3, <1>4 DEF Left
<1>6. \A i \in 1 .. Len(todo') : todo'[i] = routine[(n + 1) - 1 + i]
  <2>1. \A i \in 1 .. Len(todo) : todo[i] = routine[n - 1 + i]
    BY DEF Left
  <2> QED BY <1>3, <2>1
<1> QED BY <1>1, <1>2, <1>3, <1>4, <1>5, <1>6 DEF Left

\* What a command does to the ADC.
LEMMA TakeEffect ==
  ASSUME AdcInv, NEW command \in Commands, Adc!Take(command),
         ~readout => command[1] = "write" \/ command[2] = 0,
         readout => command[1] = "read" \/ command[2] = 0
  PROVE  /\ command[2] = 0 /\ command[3] # 2 => UNCHANGED regs
         /\ command[2] = 0 /\ command[3] = 2 => regs' = Adc!Cleared
         /\ command[2] = 0 => (readout' <=> command[3] = 1)
         /\ command[2] # 0 => UNCHANGED readout
         /\ command[2] # 0 /\ readout => UNCHANGED regs
         /\ command[2] # 0 /\ ~readout => regs' = [regs EXCEPT ![command[2]] = command[3]]
         /\ regs' \in [Adc!Addresses -> 0 .. 255]
         /\ regs' = written' /\ readout' \in BOOLEAN
<1>1. regs \in [Adc!Addresses -> 0 .. 255] /\ regs = written /\ readout \in BOOLEAN
  BY DEF AdcInv, Adc!TypeOK
<1>2. command[2] \in Adc!Addresses \cup {0} /\ command[3] \in 0 .. 255
      /\ command[1] \in {"write", "read"}
  BY DEF Commands
<1>3. Adc!Cleared \in [Adc!Addresses -> 0 .. 255]
  BY DEF Adc!Cleared
<1>4. CASE command[2] = 0
  <2>1. /\ readout' = (command[3] = 1)
        /\ IF command[3] = 2 THEN regs' = Adc!Cleared /\ written' = Adc!Cleared
                             ELSE UNCHANGED <<regs, written>>
    BY <1>4, Zenon DEF Adc!Take
  <2>2. CASE command[3] = 2
    BY <1>1, <1>3, <1>4, <2>1, <2>2
  <2>3. CASE command[3] # 2
    BY <1>1, <1>4, <2>1, <2>3
  <2> QED BY <2>2, <2>3
<1>5. CASE command[2] # 0 /\ readout
  BY <1>1, <1>2, <1>5 DEF Adc!Take
<1>6. CASE command[2] # 0 /\ ~readout
  <2>1. /\ regs' = [regs EXCEPT ![command[2]] = command[3]]
        /\ written' = [written EXCEPT ![command[2]] = command[3]]
        /\ UNCHANGED readout
    BY <1>6, Zenon DEF Adc!Take
  <2>2. command[2] \in Adc!Addresses
    BY <1>2, <1>6
  <2> QED BY <1>1, <1>2, <1>6, <2>1, <2>2
<1> QED BY <1>4, <1>5, <1>6

\* A command of init_ADC.
LEMMA InitStep ==
  ASSUME AdcInv, Adc!Command, adc_pc = "init"
  PROVE  AdcInv'
<1>1. PICK n \in 1 .. 38 :
        /\ Left(Adc!init_ADC, n)
        /\ n > 1 => regs[66] = 0 /\ (readout <=> n \in 23 .. 37)
  BY DEF AdcInv, Initialising, Adc!DigitalFunctions
<1>2. /\ todo # <<>> /\ todo' = Tail(todo) /\ Adc!Take(Head(todo))
      /\ UNCHANGED <<adc_pc, sw2, sw2_old, pin>> /\ todo \in Seq(Commands)
  BY DEF Adc!Command, AdcInv
<1>3. /\ n \in 1 .. 37 /\ Head(todo) = Adc!init_ADC[n]
      /\ Left(Adc!init_ADC, n + 1)' /\ todo' \in Seq(Commands)
  <2>1. Len(Adc!init_ADC) = 37 /\ Len(Adc!init_ADC) \in Nat
    BY InitRoutine
  <2>2. /\ n \in 1 .. Len(Adc!init_ADC) /\ Head(todo) = Adc!init_ADC[n]
        /\ Left(Adc!init_ADC, n + 1)' /\ todo' \in Seq(Commands)
    <3>1. n \in Nat
      OBVIOUS
    <3> QED BY <1>1, <1>2, <2>1, <3>1, NextLeft, Zenon
  <2> QED BY <2>1, <2>2
<1> DEFINE c == Adc!init_ADC[n]
<1>4. /\ c \in Commands
      /\ n = 1 => c[2] = 0 /\ c[3] = 2
      /\ n \in 2 .. 21 => c[1] = "write" /\ c[2] # 0 /\ (c[2] = 66 => c[3] = 0)
      /\ n = 22 => c[2] = 0 /\ c[3] = 1
      /\ n \in 23 .. 36 => c[1] = "read" /\ c[2] # 0
      /\ n = 37 => c[2] = 0 /\ c[3] = 0
  <2>1. /\ c \in Commands
        /\ n = 1 => c = <<"write", 0, 2>>
        /\ n \in 2 .. 21 => c[1] = "write" /\ c[2] # 0 /\ (c[2] = 66 => c[3] = 0)
        /\ n = 22 => c = <<"write", 0, 1>>
        /\ n \in 23 .. 36 => c[1] = "read" /\ c[2] # 0
        /\ n = 37 => c = <<"write", 0, 0>>
    <3>1. n \in 1 .. 37
      BY <1>3
    <3> QED BY <3>1, InitCommands, Zenon
  <2> QED BY <2>1
<1> HIDE DEF c
<1>5. /\ c[2] = 0 /\ c[3] # 2 => UNCHANGED regs
      /\ c[2] = 0 /\ c[3] = 2 => regs' = Adc!Cleared
      /\ c[2] = 0 => (readout' <=> c[3] = 1)
      /\ c[2] # 0 => UNCHANGED readout
      /\ c[2] # 0 /\ readout => UNCHANGED regs
      /\ c[2] # 0 /\ ~readout => regs' = [regs EXCEPT ![c[2]] = c[3]]
      /\ regs' \in [Adc!Addresses -> 0 .. 255]
      /\ regs' = written' /\ readout' \in BOOLEAN
  <2>1. Adc!Take(c)
    BY <1>2, <1>3 DEF c
  <2>2. (~readout => c[1] = "write" \/ c[2] = 0) /\ (readout => c[1] = "read" \/ c[2] = 0)
    BY <1>1, <1>3, <1>4
  <2> QED BY <1>4, <2>1, <2>2, TakeEffect
<1>6. regs'[66] = 0 /\ (readout' <=> n + 1 \in 23 .. 37)
  <2>1. CASE n = 1
    BY <1>4, <1>5, <2>1, AdcAddresses DEF Adc!Cleared
  <2>2. CASE n \in 2 .. 21
    <3>1. ~readout /\ regs' = [regs EXCEPT ![c[2]] = c[3]] /\ regs[66] = 0
      BY <1>1, <1>4, <1>5, <2>2
    <3>2. regs \in [Adc!Addresses -> 0 .. 255] /\ 66 \in Adc!Addresses
      BY AdcAddresses DEF AdcInv, Adc!TypeOK
    <3>3. ~readout'
      BY <1>4, <1>5, <2>2, <3>1
    <3> QED BY <1>4, <2>2, <3>1, <3>2, <3>3
  <2>3. CASE n \in 22 .. 37
    BY <1>1, <1>4, <1>5, <2>3
  <2> QED BY <1>3, <2>1, <2>2, <2>3
<1>7. Initialising'
  <2>1. n + 1 \in 1 .. 38 /\ n + 1 > 1
    BY <1>3
  <2> QED BY <1>3, <1>6, <2>1 DEF Initialising, Adc!DigitalFunctions
<1>8. Adc!TypeOK'
  <2>1. \A i \in DOMAIN todo' : todo'[i][2] \in Adc!Addresses \cup {0}
    BY <1>3 DEF Commands
  <2> QED BY <1>2, <1>5, <2>1 DEF AdcInv, Adc!TypeOK
<1>9. Changing' /\ Settled'
  BY <1>2 DEF Changing, Settled
<1> QED BY <1>3, <1>5, <1>7, <1>8, <1>9 DEF AdcInv

\* A command of change_ADC_tpat(1).
LEMMA PatternStep ==
  ASSUME AdcInv, Adc!Command, adc_pc = "change", sw2 = 1
  PROVE  AdcInv'
<1>1. PICK n \in 1 .. 11 :
        /\ Left(Adc!change_ADC_tpat(1), n)
        /\ regs[66] = 8 <=> n > 6
        /\ PatternLoaded(n - 1)
        /\ readout <=> n \in 8 .. 10
  BY DEF AdcInv, Changing, Adc!Enabled, Adc!DigitalFunctions
<1>2. /\ todo # <<>> /\ todo' = Tail(todo) /\ Adc!Take(Head(todo))
      /\ UNCHANGED <<adc_pc, sw2, sw2_old, pin>> /\ todo \in Seq(Commands)
  BY DEF Adc!Command, AdcInv
<1>3. /\ n \in 1 .. 10 /\ Head(todo) = Adc!change_ADC_tpat(1)[n]
      /\ Left(Adc!change_ADC_tpat(1), n + 1)' /\ todo' \in Seq(Commands)
  <2>1. /\ Len(Adc!change_ADC_tpat(1)) = 10 /\ Len(Adc!change_ADC_tpat(1)) \in Nat
        /\ n \in Nat
    BY ChangeRoutine
  <2>2. /\ n \in 1 .. Len(Adc!change_ADC_tpat(1))
        /\ Head(todo) = Adc!change_ADC_tpat(1)[n]
        /\ Left(Adc!change_ADC_tpat(1), n + 1)' /\ todo' \in Seq(Commands)
    BY <1>1, <1>2, <2>1, NextLeft, Zenon
  <2> QED BY <2>1, <2>2
<1> DEFINE c == Adc!change_ADC_tpat(1)[n]
<1>4. /\ c \in Commands
      /\ n \in {1, 10} => c[2] = 0 /\ c[3] = 0
      /\ n \in 2 .. 5 => c = Adc!Pattern[n - 1] /\ c[1] = "write"
      /\ n = 6 => c[1] = "write" /\ c[2] = 66 /\ c[3] = 8
      /\ n = 7 => c[2] = 0 /\ c[3] = 1
      /\ n \in 8 .. 9 => c[1] = "read" /\ c[2] # 0
  <2>1. /\ c \in Commands
        /\ n \in {1, 10} => c = <<"write", 0, 0>>
        /\ n \in 2 .. 5 => c = Adc!Pattern[n - 1]
        /\ n = 6 => c = <<"write", 66, 8>>
        /\ n = 7 => c = <<"write", 0, 1>>
        /\ n \in 8 .. 9 => c[1] = "read" /\ c[2] # 0
    <3>1. n \in 1 .. 10
      BY <1>3
    <3> QED BY <3>1, ChangeCommands, Zenon
  <2>2. n \in 2 .. 5 => Adc!Pattern[n - 1][1] = "write"
    BY PatternCommands
  <2> QED BY <2>1, <2>2
<1> HIDE DEF c
<1>5. /\ c[2] = 0 /\ c[3] # 2 => UNCHANGED regs
      /\ c[2] = 0 => (readout' <=> c[3] = 1)
      /\ c[2] # 0 => UNCHANGED readout
      /\ c[2] # 0 /\ readout => UNCHANGED regs
      /\ c[2] # 0 /\ ~readout => regs' = [regs EXCEPT ![c[2]] = c[3]]
      /\ regs' \in [Adc!Addresses -> 0 .. 255]
      /\ regs' = written' /\ readout' \in BOOLEAN
  <2>1. Adc!Take(c)
    BY <1>2, <1>3 DEF c
  <2>2. (~readout => c[1] = "write" \/ c[2] = 0) /\ (readout => c[1] = "read" \/ c[2] = 0)
    BY <1>1, <1>3, <1>4
  <2> QED BY <1>4, <2>1, <2>2, TakeEffect
<1>6. regs \in [Adc!Addresses -> 0 .. 255]
  BY DEF AdcInv, Adc!TypeOK
<1>7. readout' <=> n + 1 \in 8 .. 10
  <2>1. n \in 2 .. 5 => c[2] # 0
    BY <1>4, PatternCommands
  <2> QED BY <1>1, <1>3, <1>4, <1>5, <2>1
<1>8. (regs'[66] = 8 <=> n + 1 > 6) /\ PatternLoaded(n)'
  <2>1. \A i \in 1 .. 4 : i < n - 1 => regs[Adc!Pattern[i][2]] = Adc!Pattern[i][3]
    BY <1>1, PatternCommands DEF PatternLoaded
  <2>2. CASE n \in {1, 7, 8, 9, 10}
    <3>1. regs' = regs
      BY <1>1, <1>4, <1>5, <2>2
    <3>2. PatternLoaded(n)'
      BY <2>1, <2>2, <3>1, PatternCommands DEF PatternLoaded
    <3> QED BY <1>1, <2>2, <3>1, <3>2
  <2>3. CASE n \in 2 .. 5
    <3>1. /\ c = Adc!Pattern[n - 1] /\ c[2] # 0 /\ c[2] # 66 /\ c[2] \in Adc!Addresses
          /\ n - 1 \in 1 .. 4
      BY <1>4, <2>3, PatternCommands
    <3>2. regs' = [regs EXCEPT ![c[2]] = c[3]]
      BY <1>1, <1>5, <2>3, <3>1
    <3>3. regs'[66] = regs[66]
      BY <1>6, <3>1, <3>2, AdcAddresses
    <3>4. ASSUME NEW i \in 1 .. 4, i < n
          PROVE  regs'[Adc!Pattern[i][2]] = Adc!Pattern[i][3]
      <4>1. CASE i = n - 1
        BY <1>6, <3>1, <3>2, <4>1
      <4>2. CASE i # n - 1
        <5>1. i < n - 1 /\ Adc!Pattern[i][2] # c[2] /\ Adc!Pattern[i][2] \in Adc!Addresses
          BY <3>1, <3>4, <4>2, PatternCommands
        <5> QED BY <1>6, <2>1, <3>2, <5>1
      <4> QED BY <4>1, <4>2
    <3>5. PatternLoaded(n)'
      BY <3>4, PatternCommands DEF PatternLoaded
    <3> QED BY <1>1, <2>3, <3>3, <3>5
  <2>4. CASE n = 6
    <3>1. regs' = [regs EXCEPT ![66] = 8]
      BY <1>1, <1>4, <1>5, <2>4
    <3>2. regs'[66] = 8
      BY <1>6, <3>1, AdcAddresses
    <3>3. PatternLoaded(n)'
      BY <1>6, <2>1, <2>4, <3>1, PatternCommands DEF PatternLoaded
    <3> QED BY <2>4, <3>2, <3>3
  <2> QED BY <1>3, <2>2, <2>3, <2>4
<1>9. Changing'
  <2>1. n + 1 \in 1 .. 11 /\ n + 1 - 1 = n
    BY <1>3
  <2>2. sw2' = 1 /\ sw2' # sw2_old'
    BY <1>2 DEF AdcInv, Changing
  <2> QED BY <1>3, <1>7, <1>8, <2>1, <2>2 DEF Changing, Adc!Enabled, Adc!DigitalFunctions
<1>10. Adc!TypeOK'
  <2>1. \A i \in DOMAIN todo' : todo'[i][2] \in Adc!Addresses \cup {0}
    BY <1>3 DEF Commands
  <2> QED BY <1>2, <1>5, <2>1 DEF AdcInv, Adc!TypeOK
<1>11. Initialising' /\ Settled'
  BY <1>2 DEF Initialising, Settled
<1> QED BY <1>3, <1>5, <1>9, <1>10, <1>11 DEF AdcInv

\* The command of change_ADC_tpat(0).
LEMMA DisableStep ==
  ASSUME AdcInv, Adc!Command, adc_pc = "change", sw2 = 0
  PROVE  AdcInv'
<1> DEFINE off == <<"write", 66, 0>>
<1>0. Adc!change_ADC_tpat(0) = <<off>> /\ off \in Commands
  BY ChangeRoutine, AdcAddresses DEF Adc!W, Adc!DigitalFunctions, Commands
<1>1. PICK n \in 1 .. 11 :
        /\ Left(Adc!change_ADC_tpat(0), n)
        /\ ~readout /\ PatternLoaded(5)
  BY DEF AdcInv, Changing
<1>2. /\ todo # <<>> /\ todo' = Tail(todo) /\ Adc!Take(Head(todo))
      /\ UNCHANGED <<adc_pc, sw2, sw2_old, pin>> /\ todo \in Seq(Commands)
  BY DEF Adc!Command, AdcInv
<1>3. /\ n = 1 /\ Head(todo) = off
      /\ Left(Adc!change_ADC_tpat(0), 2)' /\ todo' \in Seq(Commands)
  <2>1. Len(Adc!change_ADC_tpat(0)) = 1 /\ Len(Adc!change_ADC_tpat(0)) \in Nat /\ n \in Nat
    BY <1>0
  <2>2. /\ n \in 1 .. Len(Adc!change_ADC_tpat(0))
        /\ Head(todo) = Adc!change_ADC_tpat(0)[n]
        /\ Left(Adc!change_ADC_tpat(0), n + 1)' /\ todo' \in Seq(Commands)
    BY <1>1, <1>2, <2>1, NextLeft, Zenon
  <2>3. n = 1
    BY <2>1, <2>2
  <2>4. n + 1 = 2
    BY <2>3
  <2> QED BY <1>0, <2>2, <2>3, <2>4
<1>4. /\ regs' = [regs EXCEPT ![66] = 0] /\ ~readout' /\ regs' = written'
      /\ regs' \in [Adc!Addresses -> 0 .. 255] /\ readout' \in BOOLEAN
  <2>1. off[1] = "write" /\ off[2] = 66 /\ off[3] = 0
    OBVIOUS
  <2> HIDE DEF off
  <2> QED BY <1>0, <1>1, <1>2, <1>3, <2>1, TakeEffect
<1>5. regs \in [Adc!Addresses -> 0 .. 255]
  BY DEF AdcInv, Adc!TypeOK
<1>6. regs'[66] = 0 /\ PatternLoaded(5)'
  BY <1>1, <1>4, <1>5, PatternCommands, AdcAddresses DEF PatternLoaded
<1>7. Changing'
  <2>1. 2 \in 1 .. 11
    OBVIOUS
  <2>2. sw2' = 0 /\ sw2' # sw2_old'
    BY <1>2 DEF AdcInv, Changing
  <2> QED BY <1>3, <1>4, <1>6, <2>1, <2>2 DEF Changing, Adc!Enabled, Adc!DigitalFunctions
<1>8. Adc!TypeOK'
  <2>1. \A i \in DOMAIN todo' : todo'[i][2] \in Adc!Addresses \cup {0}
    BY <1>3 DEF Commands
  <2> QED BY <1>2, <1>4, <2>1 DEF AdcInv, Adc!TypeOK
<1>9. Initialising' /\ Settled'
  BY <1>2 DEF Initialising, Settled
<1> QED BY <1>3, <1>4, <1>7, <1>8, <1>9 DEF AdcInv

\* The invariant does not depend on where the switch is.
LEMMA AdcSame ==
  ASSUME AdcInv, pin' \in 0 .. 1,
         UNCHANGED <<adc_pc, todo, sw2, sw2_old, readout, regs, written>>
  PROVE  AdcInv'
<1>1. Adc!TypeOK' /\ todo' \in Seq(Commands) /\ regs' = written'
  BY DEF AdcInv, Adc!TypeOK
<1>2. Initialising'
  BY DEF AdcInv, Initialising, Left
<1>3. \A n : PatternLoaded(n)' <=> PatternLoaded(n)
  BY DEF PatternLoaded
<1>4. \A r, n : (Left(r, n))' <=> Left(r, n)
  BY DEF Left
<1>5. Changing'
  BY <1>3, <1>4 DEF AdcInv, Changing, Adc!Enabled
<1>6. Settled'
  BY <1>3 DEF AdcInv, Settled, Adc!Enabled
<1> QED BY <1>1, <1>2, <1>5, <1>6 DEF AdcInv

\* A command or a look at the switch preserves the invariant of the ADC.
LEMMA AdcNext ==
  ASSUME AdcInv, [Adc!Next]_adcVars
  PROVE  AdcInv'
<1>0. Adc!TypeOK /\ todo \in Seq(Commands) /\ regs = written /\ Settled
  BY DEF AdcInv
<1>1. CASE Adc!Command
  <2>1. adc_pc = "init" \/ (adc_pc = "change" /\ sw2 \in {0, 1})
    BY <1>0, <1>1 DEF Adc!Command, Adc!TypeOK
  <2> QED BY <1>1, <2>1, InitStep, PatternStep, DisableStep
<1>2. CASE Adc!InitDone
  <2>1. PICK n \in 1 .. 38 :
          /\ Left(Adc!init_ADC, n)
          /\ n > 1 => regs[66] = 0 /\ (readout <=> n \in 23 .. 37)
    BY <1>2 DEF AdcInv, Initialising, Adc!InitDone, Adc!DigitalFunctions
  <2>2. n = 38
    BY <1>2, <2>1, InitRoutine DEF Left, Adc!InitDone
  <2>3. regs[66] = 0 /\ ~readout
    BY <2>1, <2>2
  <2>4. /\ adc_pc' = "check" /\ todo = <<>> /\ sw2_old' = 0 /\ sw2' = pin
        /\ UNCHANGED <<todo, pin, readout, regs, written>>
    BY <1>2 DEF Adc!InitDone, Adc!FirstSample
  <2>5. Settled'
    BY <2>3, <2>4 DEF Settled, Adc!Enabled, Adc!DigitalFunctions
  <2>6. Adc!TypeOK'
    <3>1. \A i \in DOMAIN todo' : todo'[i][2] \in Adc!Addresses \cup {0}
      BY <1>0, <2>4 DEF Commands
    <3>2. /\ sw2' \in 0 .. 1 /\ sw2_old' \in 0 .. 1 /\ pin' \in 0 .. 1
          /\ readout' \in BOOLEAN /\ regs' \in [Adc!Addresses -> 0 .. 255]
          /\ written' \in [Adc!Addresses -> 0 .. 255]
      <4>1. /\ pin \in 0 .. 1 /\ readout \in BOOLEAN
            /\ regs \in [Adc!Addresses -> 0 .. 255] /\ written \in [Adc!Addresses -> 0 .. 255]
        BY <1>0 DEF Adc!TypeOK
      <4>2. sw2' \in 0 .. 1 /\ pin' \in 0 .. 1
        BY <2>4, <4>1
      <4>3. sw2_old' \in 0 .. 1
        BY <2>4
      <4>4. readout' \in BOOLEAN
        BY <2>4, <4>1, Zenon
      <4>5. regs' \in [Adc!Addresses -> 0 .. 255] /\ written' \in [Adc!Addresses -> 0 .. 255]
        BY <2>4, <4>1, Zenon
      <4> QED BY <4>2, <4>3, <4>4, <4>5
    <3> QED BY <2>4, <3>1, <3>2 DEF Adc!TypeOK
  <2> QED BY <1>0, <2>4, <2>5, <2>6 DEF AdcInv, Initialising, Changing
<1>3. CASE Adc!Check
  <2>1. /\ adc_pc = "check" /\ UNCHANGED <<sw2, sw2_old, pin, readout, regs, written>>
        /\ sw2 \in {0, 1} /\ sw2_old \in {0, 1}
        /\ ~readout /\ (Adc!Enabled <=> sw2_old = 1)
        /\ Adc!Enabled => PatternLoaded(5)
    BY <1>0, <1>3 DEF Adc!Check, Settled, Adc!TypeOK
  <2>2. CASE sw2 = sw2_old
    <3>1. adc_pc' = "sample" /\ todo' = todo
      BY <1>3, <2>2 DEF Adc!Check
    <3> QED BY <1>0, <2>1, <2>2, <3>1
            DEF AdcInv, Initialising, Changing, Settled, Adc!TypeOK, Adc!Enabled, PatternLoaded
  <2>3. CASE sw2 # sw2_old
    <3>1. adc_pc' = "change" /\ todo' = Adc!change_ADC_tpat(sw2)
      BY <1>3, <2>3 DEF Adc!Check
    <3>2. CASE sw2 = 1
      <4>1. /\ Len(todo') = 10 /\ todo' = Adc!change_ADC_tpat(1)
            /\ Adc!change_ADC_tpat(1) \in Seq(Commands)
        BY <3>1, <3>2, ChangeRoutine, ChangeRoutineType
      <4>2. Left(Adc!change_ADC_tpat(sw2), 1)'
        BY <2>1, <3>2, <4>1 DEF Left
      <4>3. ~Adc!Enabled' /\ PatternLoaded(0)' /\ ~readout'
        BY <2>1, <2>3, <3>2, PatternCommands DEF Adc!Enabled, PatternLoaded
      <4>4. Changing'
        <5>1. 1 \in 1 .. 11 /\ 1 - 1 = 0 /\ ~(1 > 6) /\ ~(1 \in 8 .. 10)
          OBVIOUS
        <5>2. sw2' = 1 /\ sw2' # sw2_old'
          BY <2>1, <2>3, <3>2
        <5> QED BY <4>2, <4>3, <5>1, <5>2 DEF Changing
      <4>5. Adc!TypeOK'
        <5>1. \A i \in DOMAIN todo' : todo'[i][2] \in Adc!Addresses \cup {0}
          BY <4>1 DEF Commands
        <5> QED BY <1>0, <2>1, <3>1, <5>1 DEF Adc!TypeOK
      <4> QED BY <1>0, <2>1, <3>1, <4>1, <4>4, <4>5 DEF AdcInv, Initialising, Settled
    <3>3. CASE sw2 = 0
      <4>1. /\ Len(todo') = 1 /\ todo' = Adc!change_ADC_tpat(0)
            /\ Adc!change_ADC_tpat(0) \in Seq(Commands)
        BY <3>1, <3>3, ChangeRoutine, ChangeRoutineType
      <4>2. Left(Adc!change_ADC_tpat(sw2), 1)'
        BY <2>1, <3>3, <4>1 DEF Left
      <4>3. Adc!Enabled' /\ PatternLoaded(5)' /\ ~readout'
        BY <2>1, <2>3, <3>3 DEF Adc!Enabled, PatternLoaded
      <4>4. Changing'
        <5>1. 1 \in 1 .. 11
          OBVIOUS
        <5>2. sw2' = 0 /\ sw2' # sw2_old'
          BY <2>1, <2>3, <3>3
        <5> QED BY <4>2, <4>3, <5>1, <5>2 DEF Changing
      <4>5. Adc!TypeOK'
        <5>1. \A i \in DOMAIN todo' : todo'[i][2] \in Adc!Addresses \cup {0}
          BY <4>1 DEF Commands
        <5> QED BY <1>0, <2>1, <3>1, <5>1 DEF Adc!TypeOK
      <4> QED BY <1>0, <2>1, <3>1, <4>1, <4>4, <4>5 DEF AdcInv, Initialising, Settled
    <3> QED BY <2>1, <3>2, <3>3
  <2> QED BY <2>2, <2>3
<1>4. CASE Adc!Sample
  <2>1. /\ todo = <<>> /\ ~readout /\ (Adc!Enabled <=> sw2 = 1)
        /\ Adc!Enabled => PatternLoaded(5)
    <3>1. CASE adc_pc = "sample"
      BY <1>0, <3>1 DEF Settled
    <3>2. CASE adc_pc = "change"
      <4>1. todo = <<>> /\ sw2 \in {0, 1}
        BY <1>0, <1>4, <3>2 DEF Adc!Sample, Adc!TypeOK
      <4>2. PICK n \in 1 .. 11 :
              /\ Left(Adc!change_ADC_tpat(sw2), n)
              /\ sw2 = 1 => /\ Adc!Enabled <=> n > 6
                            /\ PatternLoaded(n - 1)
                            /\ readout <=> n \in 8 .. 10
              /\ sw2 = 0 => /\ ~readout /\ PatternLoaded(5)
                            /\ Adc!Enabled <=> n = 1
        BY <3>2 DEF AdcInv, Changing
      <4>3. CASE sw2 = 1
        <5>1. n = 11
          <6>1. Len(Adc!change_ADC_tpat(1)) = 10 /\ Len(todo) = 0
            BY <4>1, ChangeRoutine
          <6>2. Len(todo) = Len(Adc!change_ADC_tpat(1)) + 1 - n /\ n \in 1 .. 11
            BY <4>2, <4>3 DEF Left
          <6>3. Len(todo) = 10 + 1 - n /\ Len(todo) = 0
            BY <6>1, <6>2, Zenon
          <6> QED BY <6>2, <6>3
        <5>2. PatternLoaded(5)
          BY <4>2, <4>3, <5>1, PatternCommands DEF PatternLoaded
        <5> QED BY <4>1, <4>2, <4>3, <5>1, <5>2
      <4>4. CASE sw2 = 0
        <5>1. n = 2
          <6>1. Len(Adc!change_ADC_tpat(0)) = 1 /\ Len(todo) = 0
            BY <4>1, ChangeRoutine
          <6>2. Len(todo) = Len(Adc!change_ADC_tpat(0)) + 1 - n /\ n \in 1 .. 11
            BY <4>2, <4>4 DEF Left
          <6>3. Len(todo) = 1 + 1 - n /\ Len(todo) = 0
            BY <6>1, <6>2, Zenon
          <6> QED BY <6>2, <6>3
        <5> QED BY <4>1, <4>2, <4>4, <5>1
      <4> QED BY <4>1, <4>3, <4>4
    <3> QED BY <1>4, <3>1, <3>2 DEF Adc!Sample
  <2>2. /\ adc_pc' = "rest" /\ sw2_old' = sw2 /\ sw2' = pin
        /\ UNCHANGED <<todo, pin, readout, regs, written>>
    BY <1>4 DEF Adc!Sample, Adc!SampleSwitch
  <2>3. Settled'
    BY <2>1, <2>2 DEF Settled, Adc!Enabled, PatternLoaded
  <2>4. Adc!TypeOK'
    BY <1>0, <2>2 DEF Adc!TypeOK
  <2> QED BY <1>0, <2>2, <2>3, <2>4 DEF AdcInv, Initialising, Changing
<1>5. CASE Adc!Rest
  <2>1. /\ adc_pc = "rest" /\ adc_pc' = "check"
        /\ UNCHANGED <<todo, sw2, sw2_old, pin, readout, regs, written>>
    BY <1>5 DEF Adc!Rest
  <2> QED BY <1>0, <2>1
          DEF AdcInv, Initialising, Changing, Settled, Adc!TypeOK, Adc!Enabled, PatternLoaded
<1>6. CASE Adc!Flip
  <2>1. pin' \in 0 .. 1 /\ UNCHANGED <<adc_pc, todo, sw2, sw2_old, readout, regs, written>>
    BY <1>0, <1>6 DEF Adc!Flip, Adc!TypeOK
  <2> QED BY <2>1, AdcSame
<1>7. CASE UNCHANGED adcVars
  BY <1>0, <1>7, AdcSame DEF adcVars, Adc!TypeOK
<1> QED BY <1>1, <1>2, <1>3, <1>4, <1>5, <1>6, <1>7 DEF Adc!Next

\* The invariant of the ADC gives what a reader of its registers expects.
LEMMA AdcPromises ==
  ASSUME AdcInv
  PROVE  AdcAsWritten /\ Adc!TypeOK
<1>1. Adc!RegistersAsWritten
  BY DEF AdcInv, Adc!RegistersAsWritten
<1>2. Adc!PatternWhole
  <2> SUFFICES ASSUME Len(todo) < 37, Adc!Enabled
               PROVE  PatternLoaded(5)
    <3>1. Len(Adc!init_ADC) = 37
      BY InitRoutine
    <3>2. PatternLoaded(5) => \A i \in DOMAIN Adc!Pattern :
                                regs[Adc!Pattern[i][2]] = Adc!Pattern[i][3]
      BY PatternCommands DEF PatternLoaded
    <3> QED BY <3>1, <3>2 DEF Adc!PatternWhole
  <2>1. CASE adc_pc = "init"
    <3>1. PICK n \in 1 .. 38 :
            /\ Left(Adc!init_ADC, n)
            /\ n > 1 => regs[66] = 0
      BY <2>1 DEF AdcInv, Initialising, Adc!DigitalFunctions
    <3>2. n > 1
      <4>1. Len(Adc!init_ADC) = 37
        BY InitRoutine
      <4>2. Len(todo) = Len(Adc!init_ADC) + 1 - n
        BY <3>1 DEF Left
      <4> QED BY <4>1, <4>2
    <3> QED BY <3>1, <3>2 DEF Adc!Enabled, Adc!DigitalFunctions
  <2>2. CASE adc_pc = "change"
    <3>1. PICK n \in 1 .. 11 :
            /\ sw2 = 1 => (Adc!Enabled <=> n > 6) /\ PatternLoaded(n - 1)
            /\ sw2 = 0 => PatternLoaded(5)
      BY <2>2 DEF AdcInv, Changing
    <3>2. sw2 \in {0, 1}
      BY DEF AdcInv, Adc!TypeOK
    <3> QED BY <3>1, <3>2, PatternCommands DEF PatternLoaded
  <2>3. CASE adc_pc \in {"check", "sample", "rest"}
    BY <2>3 DEF AdcInv, Settled
  <2> QED BY <2>1, <2>2, <2>3 DEF AdcInv, Adc!TypeOK
<1> QED BY <1>1, <1>2 DEF AdcAsWritten, AdcInv

-----------------------------------------------------------------------------
(* The whole of it.                                                        *)

\* IInv is inductive.
THEOREM MainInductive ==
  MainSpec => []IInv
<1>1. MainInit => IInv
  BY PllInit, ThreadInit, SpiInit, AdcInit DEF MainInit, IInv
<1>2. IInv /\ [MainNext]_mainVars => IInv'
  BY MainNextIsNext, PllNext, ThreadNext, MainNextIsSpiNext, SpiNext,
     MainNextIsAdcNext, AdcNext DEF IInv
<1> QED BY <1>1, <1>2, PTL DEF MainSpec

\* The firmware with its other chores implements its treatment of the PLLs: a
\* command to another chip is for them a command that writes no register.
THEOREM MainImplementsPll ==
  MainSpec => Spec
<1>1. MainInit => Init
  BY DEF MainInit
<1>2. IInv /\ [MainNext]_mainVars => [Next]_vars
  BY MainNextIsNext DEF IInv
<1> QED BY <1>1, <1>2, MainInductive, PTL DEF MainSpec, Spec

\* A host that gives one command between its request to a PLL and its reading
\* of the status reads the status of that request.
THEOREM StatusIsOfRequest ==
  MainSpec => []StatusOfRequest
<1>1. IInv => StatusOfRequest
  BY PllPromises DEF IInv
<1> QED BY <1>1, MainInductive, PTL

\* A configuration that ended without an error is the one its PLL runs with.
THEOREM ConfigurationApplied ==
  MainSpec => []AppliedWhenDone
<1>1. IInv => AppliedWhenDone
  BY PllPromises DEF IInv
<1> QED BY <1>1, MainInductive, PTL

\* The ADC's registers hold what the firmware wrote, and it shows no test
\* pattern half loaded.
THEOREM AdcConfigured ==
  MainSpec => []AdcAsWritten
<1>1. IInv => AdcAsWritten
  BY AdcPromises DEF IInv
<1> QED BY <1>1, MainInductive, PTL

\* A command of the SPI driver, of any length, is exchanged with its chip byte
\* for byte.
THEOREM CommandsExchanged ==
  MainSpec => []Exchanged
<1>1. IInv => Exchanged
  BY SpiPromises DEF IInv
<1> QED BY <1>1, MainInductive, PTL

\* A core shifts only while it alone is selected; every variable keeps its type.
THEOREM BusAndTypes ==
  MainSpec => []BusIsOurs
<1>1. IInv => BusIsOurs
  BY SpiPromises, AdcPromises DEF IInv, BusIsOurs, MainTypeOK, PllInv
<1> QED BY <1>1, MainInductive, PTL
=============================================================================
