----------------------------- MODULE PllConfig ------------------------------
(***************************************************************************)
(* Reconfiguration of the FPGA's PLLs.  A host raises start bits in the    *)
(* register file pllcfg; the main loop of the firmware samples them once a *)
(* pass, serves a rising edge on its next pass and writes a status back.   *)
(* Host and firmware meet only in the dispatcher, which executes at most   *)
(* one command at the end of a pass, so that a host never sees the middle  *)
(* of a service.  The PLLs and their reconfiguration cores run beside it.  *)
(***************************************************************************)
EXTENDS Integers

CONSTANTS
  Plls,       \* PLLs with a reconfiguration core; the first is 0
  Indexes,    \* values of PLL_IND a host writes
  Timeout,    \* PLLCFG_TIMEOUT, polls
  MaxCfg,     \* bound: configurations a host writes
  Budgets,    \* bound: requests of each kind the host makes, one of these
  Garbage     \* what an uninitialised byte of the stack may hold

Kinds == {"phase", "config", "reset"}

ASSUME PllsAssumption    == 0 \in Plls /\ Plls \subseteq Nat /\ Indexes \subseteq Nat
ASSUME BudgetsAssumption == Budgets \subseteq [Kinds -> Nat] /\ MaxCfg \in Nat
ASSUME TimeoutAssumption == Timeout \in Nat

NoErr     == 0
CxTimeout == 10   \* PLLCFG_CX_TIMEOUT

VARIABLES
  budget,   \* requests of each kind this host makes
  cfg,      \* the configuration registers 0x25 to 0x35, a number for each state
  pll_ind,  \* PLL_IND
  start,    \* PLLCFG_START, PHCFG_START and PLLRST_START
  stat,     \* PLLCFG_STATUS: done, busy, err
  now, old, \* the start bits of this pass and of the one before
  pllcfgrez,
  timeout,  \* polls of start_Reconfig
  pc,       \* where the main loop is
  mode,     \* mode register of a core: "waitrequest" or "polling"
  usr,      \* configuration written into a core
  core,     \* its state: "idle", "wait_on_lock" or "locked"
  target,   \* configuration it is shifting into its PLL
  applied,  \* configuration its PLL runs with
  locked,   \* its PLL is locked
  raised,   \* history: rising edges of a start bit a host has written
  served,   \* history: services of a kind
  age,      \* history: commands since the last of them, up to 2
  job,      \* history: the last configuration service: PLL, configuration, and late
            \* when it began
  late      \* history: a core is busy for a service that has timed out

hostVars == <<cfg, pll_ind, start>>
fwVars   == <<stat, now, old, pllcfgrez, timeout>>
pllVars  == <<mode, usr, core, target, applied, locked>>
history  == <<raised, served, age, job, late>>
vars     == <<budget, hostVars, fwVars, pc, pllVars, history>>

None == [k \in Kinds |-> FALSE]

TypeOK ==
  /\ cfg \in 0 .. MaxCfg /\ pll_ind \in Indexes
  /\ start \in [Kinds -> BOOLEAN]
  /\ now \in [Kinds -> BOOLEAN] /\ old \in [Kinds -> BOOLEAN]
  /\ stat \in [done : BOOLEAN, busy : BOOLEAN, err : Garbage \cup {NoErr, CxTimeout}]
  /\ pllcfgrez \in Garbage \cup {NoErr, CxTimeout}
  /\ timeout \in 0 .. Timeout + 2
  /\ pc \in {"phase", "config", "mode", "params", "start", "poll", "reset_pll",
             "reset", "edges", "dispatch"}
  /\ mode \in [Plls -> {"waitrequest", "polling"}]
  /\ core \in [Plls -> {"idle", "wait_on_lock", "locked"}]
  /\ usr \in [Plls -> 0 .. MaxCfg] /\ target \in [Plls -> 0 .. MaxCfg]
  /\ applied \in [Plls -> 0 .. MaxCfg] /\ locked \in [Plls -> BOOLEAN]
  /\ budget \in Budgets
  /\ \A k \in Kinds : raised[k] \in 0 .. budget[k] /\ served[k] \in 0 .. budget[k]
  /\ age \in [Kinds -> 0 .. 2]
  /\ job \in [pll : Plls, cfg : 0 .. MaxCfg, late : BOOLEAN]
  /\ late \in [Plls -> BOOLEAN]

Init ==
  /\ budget \in Budgets
  /\ cfg = 0 /\ pll_ind \in Indexes /\ start = None
  /\ stat = [done |-> TRUE, busy |-> FALSE, err |-> NoErr]
  /\ now = None /\ old = None /\ pllcfgrez \in Garbage /\ timeout = 0
  /\ pc = "phase"
  /\ mode = [p \in Plls |-> "waitrequest"] /\ core = [p \in Plls |-> "idle"]
  /\ usr = [p \in Plls |-> 0] /\ target = [p \in Plls |-> 0]
  /\ applied = [p \in Plls |-> 0] /\ locked \in [Plls -> BOOLEAN]
  /\ raised = [k \in Kinds |-> 0] /\ served = [k \in Kinds |-> 0]
  /\ age = [k \in Kinds |-> 2] /\ job = [pll |-> 0, cfg |-> 0, late |-> FALSE]
  /\ late = [p \in Plls |-> FALSE]

-----------------------------------------------------------------------------
(* The main loop, in the order of its checks.                              *)

Edge(k) == ~old[k] /\ now[k]

Busy      == stat' = [stat EXCEPT !.done = FALSE, !.busy = TRUE]
Done(err) == stat' = [done |-> TRUE, busy |-> FALSE, err |-> err]
Served(k) == served' = [served EXCEPT ![k] = @ + 1]

\* The branches of a phase request are empty, the call of UpdatePHCFG is
\* commented out: the status is what the last configuration returned.
CheckPhase ==
  /\ pc = "phase"
  /\ pc' = "config"
  /\ IF Edge("phase") THEN Done(pllcfgrez) /\ Served("phase")
                      ELSE UNCHANGED <<stat, served>>
  /\ UNCHANGED <<budget, hostVars, now, old, pllcfgrez, timeout, pllVars, raised, age,
                 job, late>>

CheckConfig ==
  /\ pc = "config"
  /\ IF Edge("config") THEN Busy /\ Served("config") /\ pc' = "mode"
                       ELSE UNCHANGED <<stat, served>> /\ pc' = "reset"
  /\ UNCHANGED <<budget, hostVars, now, old, pllcfgrez, timeout, pllVars, raised, age,
                 job, late>>

\* GetPLLCFG_Base: an index without a core selects PLL 0.
Base == IF pll_ind \in Plls THEN pll_ind ELSE 0

\* The first write finds the core in its waitrequest mode, where it stalls the
\* processor until the PLL is locked.
WriteMode ==
  /\ pc = "mode"
  /\ mode[Base] = "polling" \/ locked[Base]
  /\ mode' = [mode EXCEPT ![Base] = "polling"]
  /\ pc' = "params"
  /\ UNCHANGED <<budget, hostVars, fwVars, usr, core, target, applied, locked, history>>

\* The sixteen reads of pllcfg and writes to the core that follow: nothing
\* else runs on the processor between them.
WriteParams ==
  /\ pc = "params"
  /\ usr' = [usr EXCEPT ![Base] = cfg]
  /\ job' = [pll |-> Base, cfg |-> cfg, late |-> late[Base]]
  /\ pc' = "start"
  /\ UNCHANGED <<budget, hostVars, fwVars, mode, core, target, applied, locked, raised,
                 served, age, late>>

\* A core that is not idle ignores the write; changing the dividers may cost
\* the PLL its lock.
WriteStart ==
  /\ pc = "start"
  /\ IF core[Base] = "idle"
       THEN /\ core' = [core EXCEPT ![Base] = "wait_on_lock"]
            /\ target' = [target EXCEPT ![Base] = usr[Base]]
            /\ \E l \in BOOLEAN : locked' = [locked EXCEPT ![Base] = l]
       ELSE UNCHANGED <<core, target, locked>>
  /\ timeout' = 0 /\ pc' = "poll"
  /\ UNCHANGED <<budget, hostVars, stat, now, old, pllcfgrez, mode, usr, applied, history>>

\* Mutant: the result is returned and not kept.
ReturnDropped(rez) == pc' = "reset_pll" /\ UNCHANGED pllcfgrez

Return(rez) == pllcfgrez' = rez /\ pc' = "reset_pll"

\* Mutant: the loop stops at a busy core and calls it done.
PollUnchecked(done) ==
  IF timeout > Timeout THEN Return(CxTimeout) ELSE Return(NoErr)

\* The timeout is checked before the status that was just read.
PollEnds(done) ==
  IF timeout > Timeout THEN Return(CxTimeout)
  ELSE IF done THEN Return(NoErr)
  ELSE UNCHANGED <<pllcfgrez, pc>>

\* Reading the status of a core that is done makes it idle.
Poll ==
  /\ pc = "poll"
  /\ timeout' = timeout + 1
  /\ core' = IF core[Base] = "locked" THEN [core EXCEPT ![Base] = "idle"] ELSE core
  /\ PollEnds(core[Base] = "locked")
  /\ late' = [late EXCEPT ![Base] = core[Base] # "locked" /\ (@ \/ pc' # pc)]
  /\ UNCHANGED <<budget, hostVars, stat, now, old, mode, usr, target, applied, locked,
                 raised, served, age, job>>

\* ResetPLL pulses one line of PLL_RST; an index without a PLL resets none.
ResetPLL ==
  locked' = IF pll_ind \in Plls THEN [locked EXCEPT ![pll_ind] = FALSE] ELSE locked

ConfigEnds ==
  /\ pc = "reset_pll"
  /\ ResetPLL
  /\ Done(pllcfgrez)
  /\ timeout' = 0 /\ pc' = "reset"
  /\ UNCHANGED <<budget, hostVars, now, old, pllcfgrez, mode, usr, core, target, applied,
                 history>>

CheckReset ==
  /\ pc = "reset"
  /\ pc' = "edges"
  /\ IF Edge("reset") THEN ResetPLL /\ Done(NoErr) /\ Served("reset")
                      ELSE UNCHANGED <<locked, stat, served>>
  /\ UNCHANGED <<budget, hostVars, now, old, pllcfgrez, timeout, mode, usr, core, target,
                 applied, raised, age, job, late>>

\* Mutant: both registers take the new value.
SampleBoth == now' = start /\ old' = start

Sample == now' = start /\ old' = now

UpdateEdges ==
  /\ pc = "edges"
  /\ Sample
  /\ pc' = "dispatch"
  /\ UNCHANGED <<budget, hostVars, stat, pllcfgrez, timeout, pllVars, history>>

\* The dispatcher executes no command, or one that writes registers: any of
\* the configuration, and register 3 with the start bits and the index, the
\* last value if the command writes it several times.
Dispatch ==
  /\ pc = "dispatch"
  /\ pc' = "phase"
  /\ cfg' \in {cfg, IF cfg < MaxCfg THEN cfg + 1 ELSE cfg}
  /\ pll_ind' \in Indexes
  /\ start' \in [Kinds -> BOOLEAN]
  /\ LET rises(k) == ~start[k] /\ start'[k] IN
       /\ \A k \in Kinds : rises(k) => raised[k] < budget[k]
       /\ raised' = [k \in Kinds |-> IF rises(k) THEN raised[k] + 1 ELSE raised[k]]
       /\ age' = [k \in Kinds |-> IF rises(k) THEN 0
                                  ELSE IF age[k] < 2 THEN age[k] + 1 ELSE 2]
  /\ UNCHANGED <<budget, fwVars, pllVars, served, job, late>>

Firmware ==
  \/ CheckPhase \/ CheckConfig \/ WriteMode \/ WriteParams \/ WriteStart \/ Poll
  \/ ConfigEnds \/ CheckReset \/ UpdateEdges \/ Dispatch

-----------------------------------------------------------------------------
(* The PLLs and their cores.                                               *)

Lock(p) ==
  /\ ~locked[p]
  /\ locked' = [locked EXCEPT ![p] = TRUE]
  /\ UNCHANGED <<budget, hostVars, fwVars, pc, mode, usr, core, target, applied, history>>

\* The chain is shifted and the PLL has locked on it.
CoreDone(p) ==
  /\ core[p] = "wait_on_lock" /\ locked[p]
  /\ core' = [core EXCEPT ![p] = "locked"]
  /\ applied' = [applied EXCEPT ![p] = target[p]]
  /\ UNCHANGED <<budget, hostVars, fwVars, pc, mode, usr, target, locked, history>>

Next == Firmware \/ \E p \in Plls : Lock(p) \/ CoreDone(p)

Spec == Init /\ [][Next]_vars

\* The processor runs, and a PLL with a reference clock locks.
Fairness ==
  WF_vars(Firmware) /\ \A p \in Plls : WF_vars(Lock(p)) /\ WF_vars(CoreDone(p))

FairSpec == Spec /\ Fairness

-----------------------------------------------------------------------------
\* A host that gives one command between raising a start bit and reading the
\* status reads a status that is settled and that knows of its request, which
\* has been served once.  (The command right after the one that raised the bit
\* still reads the old status.)
SettledAfterOneCommand ==
  \A k \in Kinds : age[k] >= 1 => served[k] = raised[k] /\ stat.done /\ ~stat.busy

\* The error field is a code of pll_rcfg.h, unless a phase request came before
\* the first configuration: then it is an uninitialised byte.
ErrorIsCode ==
  served["phase"] = 0 \/ served["config"] > 0 => stat.err \in {NoErr, CxTimeout}

\* What a host reads as the status of its request is the status of its request.
StatusOfRequest == pc = "dispatch" => SettledAfterOneCommand /\ ErrorIsCode

\* After a configuration that ended without an error the PLL runs with what
\* the registers held when it was served ("Apply PLL configuration"), unless it
\* met a core still busy for a configuration that had timed out: then the core
\* ignored it and said done for the other.  One such report, and the core is
\* back.
AppliedWhenDone ==
  pc = "dispatch" /\ served["config"] > 0 /\ pllcfgrez = NoErr /\ ~job.late =>
    applied[job.pll] = job.cfg

\* Every request is served: the main loop never waits forever, if the PLLs
\* lock (the first mode write to a core waits for that).
RequestServed == raised # served ~> raised = served
=============================================================================
