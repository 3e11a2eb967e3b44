------------------------------- MODULE CmdIf -------------------------------
(***************************************************************************)
(* The command interface between the mlx5 driver and the device firmware:  *)
(* drivers/net/ethernet/mellanox/mlx5/core/cmd.c, with the parts of eq.c   *)
(* and health.c that deliver completions, switch it between polling and    *)
(* events and flush it when the device dies.                               *)
(*                                                                         *)
(* A command is an entry (struct mlx5_cmd_work_ent) that lives through     *)
(* reference counts.  Up to seven contexts touch it: its caller            *)
(* (mlx5_cmd_invoke, wait_func), the ordered work queue (cmd_work_handler),*)
(* the timeout of an asynchronous command (cb_timeout_handler), the        *)
(* interrupt of the command EQ (cmd_comp_notifier), the firmware, the      *)
(* flush of a dead device (mlx5_cmd_flush) and the administrator that      *)
(* switches modes.  An element of Ents is one call of cmd_exec(): its      *)
(* memory is never reused, so that touching it after the last cmd_ent_put  *)
(* is visible (uaf).                                                       *)
(***************************************************************************)
EXTENDS Integers, Sequences, FiniteSets

CONSTANTS
    Ents,       \* the calls of cmd_exec()
    NoEnt,      \* a NULL entry
    MaxReg,     \* cmd->vars.max_reg_cmds
    Kind,       \* the arguments of each call: callback, page, polling, throttle
    Faults,     \* which timeouts and failures may happen
    Smp,        \* several CPUs, or one CPU without kernel preemption
    Reconfig    \* the event queues are created and destroyed during the run

FaultKinds == {"exec", "handling", "slotwait", "error", "offline",
               "nomem", "eqfail"}

ASSUME MaxRegAssumption == MaxReg \in Nat \ {0}
ASSUME KindAssumption ==
    Kind \in [Ents -> [callback : BOOLEAN, page : BOOLEAN,
                       polling : BOOLEAN, throttle : BOOLEAN]]
ASSUME EntsAssumption == NoEnt \notin Ents /\ IsFiniteSet(Ents)
ASSUME FaultsAssumption == Faults \subseteq FaultKinds
ASSUME SwitchAssumption == Smp \in BOOLEAN /\ Reconfig \in BOOLEAN

Reg   == 0 .. MaxReg - 1        \* the slots of ordinary commands
Slots == 0 .. MaxReg            \* slot MaxReg is the pages slot
NoIdx == -1                     \* ent->idx before a slot is taken

(* The contexts that may run mlx5_cmd_comp_handler().                      *)
Work(e) == <<"work", e>>
Wait(e) == <<"wait", e>>
Tmo(e)  == <<"tmo", e>>
Irq     == <<"irq", NoEnt>>
Flush   == <<"flush", NoEnt>>
Other   == <<"other", NoEnt>>   \* a thread that never runs it
Ctx     == ({"work", "wait", "tmo"} \X Ents) \cup {Irq, Flush}

VARIABLES
    mode,        \* cmd->mode
    allowed,     \* cmd->allowed_opcode: "ALL", or "EQ" for one EQ opcode
    bitmask,     \* cmd->vars.bitmask: the free slots
    sem,         \* cmd->vars.sem
    pagesSem,    \* cmd->vars.pages_sem
    throttleSem, \* cmd->vars.throttle_sem
    entArr,      \* cmd->ent_arr
    refcnt,      \* ent->refcnt
    uaf,         \* a freed entry was touched
    idx,         \* ent->idx
    pending,     \* MLX5_CMD_ENT_STATE_PENDING_COMP
    rref,        \* MLX5_CMD_ENT_STATE_RREF_CLEARED
    ret,         \* ent->ret
    pollCmd,     \* cmd_mode == CMD_MODE_POLLING || poll_cmd of the handler
    handling, slotted, done,    \* the completions of the entry
    timer,       \* ent->cb_timeout_work
    wq,          \* cmd->wq
    hpc,         \* where cmd_work_handler() is for the entry
    cpc,         \* where the caller is
    comp,        \* where mlx5_cmd_comp_handler() is in each context
    devState,    \* dev->state
    offline,     \* pci_channel_offline()
    eqUp,        \* the command EQ exists
    nbReg,       \* cmd_comp_notifier is registered
    fw,          \* the command the firmware owns in each slot
    eqes,        \* the command EQ
    fwDone,      \* the commands the firmware executed
    phase, got,  \* the administrator and the semaphores it took
    fpc, fgot, ftodo, fheld,    \* mlx5_cmd_flush()
    outcome,     \* what the caller or the callback was told
    nOut         \* how often

lifeVars  == <<refcnt, uaf, bitmask, sem, pagesSem>>
slotVars  == <<idx, entArr>>
entVars   == <<pending, rref, ret, pollCmd>>
syncVars  == <<handling, slotted, done>>
entryVars == <<slotVars, entVars, syncVars>>
pcVars    == <<wq, hpc, cpc>>
modeVars  == <<mode, allowed>>
devVars   == <<devState, offline>>
eqVars    == <<eqUp, nbReg>>
adminVars == <<phase, got>>
flushVars == <<fpc, fgot, ftodo, fheld>>
envVars   == <<modeVars, devVars, eqVars, adminVars, flushVars>>
hwVars    == <<fw, eqes, fwDone>>
outVars   == <<outcome, nOut>>
vars == <<lifeVars, entryVars, pcVars, envVars, hwVars, outVars, throttleSem,
          timer, comp>>

-----------------------------------------------------------------------------
(* The states.                                                             *)

RetCodes     == {"OK", "ENXIO", "ETIMEDOUT", "EBUSY", "EAGAIN", "ECANCELED"}
OutcomeCodes == RetCodes \cup {"none", "EINVAL", "ENOMEM"}
CompTypes    == {"EVENT", "FORCED", "POLLING"}
CompPcs      == {"idle", "claim", "lateput", "trigput", "cancel", "rput", "finish"}
HandlerPcs   == {"none", "wantSem", "slotErr", "gotSem", "slotted", "armed",
                 "poll", "comp", "exit"}
CallerPcs    == {"init", "throttle", "submit", "inline", "waitHandling",
                 "cancel", "waitSlotted", "waitDone", "waitDoneT", "recover",
                 "rewait", "forced", "out", "returned"}
TimerPcs     == {"off", "armed", "recover", "forced", "put"}
Phases       == {"boot", "allowCreate", "create", "events", "allowAll",
                 "running", "allowDestroy", "polling", "unregister",
                 "destroy", "allowBoot", "off"}
FlushPcs     == {"idle", "start", "try", "trigger", "comp", "put", "unlock", "done"}

CompIdle == [pc |-> "idle", slot |-> 0, ent |-> NoEnt, type |-> "FORCED"]

TypeLife ==
    /\ refcnt \in [Ents -> Nat]  /\ uaf \in BOOLEAN  /\ bitmask \subseteq Slots
    /\ sem \in Nat  /\ pagesSem \in Nat

TypeEntry ==
    /\ idx \in [Ents -> Slots \cup {NoIdx}]
    /\ entArr \in [Slots -> Ents \cup {NoEnt}]
    /\ pending \in [Ents -> BOOLEAN]  /\ rref \in [Ents -> BOOLEAN]
    /\ ret \in [Ents -> RetCodes]  /\ pollCmd \in [Ents -> BOOLEAN]
    /\ handling \in [Ents -> BOOLEAN]
    /\ slotted \in [Ents -> BOOLEAN]  /\ done \in [Ents -> BOOLEAN]
    /\ timer \in [Ents -> TimerPcs]

TypePc ==
    /\ wq \in Seq(Ents)
    /\ hpc \in [Ents -> HandlerPcs]  /\ cpc \in [Ents -> CallerPcs]

TypeComp ==
    comp \in [Ctx -> [pc : CompPcs, slot : Slots \cup {NoIdx},
                      ent : Ents \cup {NoEnt}, type : CompTypes]]

TypeEnv ==
    /\ mode \in {"POLLING", "EVENTS"}  /\ allowed \in {"ALL", "EQ"}
    /\ devState \in {"UP", "INTERNAL_ERROR"}  /\ offline \in BOOLEAN
    /\ eqUp \in BOOLEAN  /\ nbReg \in BOOLEAN
    /\ phase \in Phases  /\ got \in 0 .. MaxReg + 1
    /\ fpc \in FlushPcs  /\ fgot \in 0 .. MaxReg + 1
    /\ ftodo \subseteq Slots  /\ fheld \subseteq Slots

TypeHw ==
    /\ fw \in [Slots -> Ents \cup {NoEnt}]
    /\ eqes \in Seq(Slots)  /\ fwDone \subseteq Ents

TypeOut ==
    /\ outcome \in [Ents -> OutcomeCodes]  /\ nOut \in [Ents -> Nat]
    /\ throttleSem \in Nat

(* The type of every variable; ent->idx and the vector bits stay within    *)
(* the slots that mlx5_cmd_enable() found, and no counter goes below zero. *)
TypeOK ==
    /\ TypeLife  /\ TypeEntry  /\ TypePc  /\ TypeComp  /\ TypeEnv  /\ TypeHw
    /\ TypeOut

ThrottleMax == (MaxReg + 1) \div 2      \* DIV_ROUND_UP(max_reg_cmds, 2)

(* mlx5_cmd_enable(), and, without Reconfig, a completed create_async_eqs() *)
Init ==
    /\ mode = (IF Reconfig THEN "POLLING" ELSE "EVENTS")  /\ allowed = "ALL"
    /\ bitmask = Slots
    /\ sem = MaxReg  /\ pagesSem = 1  /\ throttleSem = ThrottleMax
    /\ entArr = [s \in Slots |-> NoEnt]
    /\ refcnt = [e \in Ents |-> 0]  /\ uaf = FALSE
    /\ idx = [e \in Ents |-> NoIdx]
    /\ pending = [e \in Ents |-> FALSE]  /\ rref = [e \in Ents |-> FALSE]
    /\ ret = [e \in Ents |-> "OK"]  /\ pollCmd = [e \in Ents |-> FALSE]
    /\ handling = [e \in Ents |-> FALSE]
    /\ slotted = [e \in Ents |-> FALSE]  /\ done = [e \in Ents |-> FALSE]
    /\ timer = [e \in Ents |-> "off"]
    /\ wq = << >>
    /\ hpc = [e \in Ents |-> "none"]  /\ cpc = [e \in Ents |-> "init"]
    /\ comp = [c \in Ctx |-> CompIdle]
    /\ devState = "UP"  /\ offline = FALSE
    /\ eqUp = ~Reconfig  /\ nbReg = ~Reconfig
    /\ fw = [s \in Slots |-> NoEnt]  /\ eqes = << >>  /\ fwDone = {}
    /\ phase = (IF Reconfig THEN "boot" ELSE "running")  /\ got = 0
    /\ fpc = "idle"  /\ fgot = 0  /\ ftodo = {}  /\ fheld = {}
    /\ outcome = [e \in Ents |-> "none"]  /\ nOut = [e \in Ents |-> 0]

-----------------------------------------------------------------------------
(* Helpers of the code.                                                    *)

(* cmd->state is MLX5_CMDIF_STATE_UP throughout: the model begins after     *)
(* mlx5_function_enable().  No command of the model is the EQ opcode that   *)
(* cmd->allowed_opcode singles out while the EQs change.                   *)
mlx5_cmd_is_down_PciOnly == offline     \* mutant: the device state is not tested
mlx5_cmd_is_down == offline \/ devState = "INTERNAL_ERROR"
opcode_allowed   == allowed = "ALL"

Lowest(S) == CHOOSE s \in S : \A t \in S : s <= t

(* Any access to an entry: harmless while a reference keeps it alive.      *)
Touch(e) ==
    /\ uaf' = (refcnt[e] = 0)
    /\ UNCHANGED <<refcnt, bitmask, sem, pagesSem>>

cmd_ent_get_OneLess(e, n) ==    \* mutant: one cmd_ent_get() forgotten
    IF refcnt[e] = 0 THEN 0 ELSE refcnt[e] + n - 1

(* cmd_ent_get(), n times: refcount_inc() does not bring a freed entry     *)
(* back.                                                                   *)
cmd_ent_get(e, n) == IF refcnt[e] = 0 THEN 0 ELSE refcnt[e] + n

LastRef_Early(e)  == refcnt[e] = 2 /\ idx[e] # NoIdx   \* mutant: off by one
LastRef_NoTest(e) == refcnt[e] = 1      \* mutant: idx >= 0 is not tested
LastRef_Never(e)  == FALSE              \* mutant: the slot is never given back

LastRef(e) == refcnt[e] = 1 /\ idx[e] # NoIdx

cmd_free_index_Missing(e) == bitmask' = bitmask     \* mutant: set_bit() forgotten

cmd_free_index(e) ==
    bitmask' = IF LastRef(e) THEN bitmask \cup {idx[e]} ELSE bitmask

(* cmd_ent_put(): under alloc_lock; the last reference frees the slot and  *)
(* gives the permit of its semaphore back.                                 *)
cmd_ent_put(e) ==
    /\ uaf' = (refcnt[e] = 0)
    /\ refcnt' = [refcnt EXCEPT ![e] = IF @ = 0 THEN 0 ELSE @ - 1]
    /\ cmd_free_index(e)
    /\ sem' = IF LastRef(e) /\ ~Kind[e].page THEN sem + 1 ELSE sem
    /\ pagesSem' = IF LastRef(e) /\ Kind[e].page THEN pagesSem + 1 ELSE pagesSem

(* What the caller, or the callback, is told.                              *)
Tell(e, r) ==
    /\ outcome' = [outcome EXCEPT ![e] = r]
    /\ nOut' = [nOut EXCEPT ![e] = @ + 1]

(* A call of mlx5_cmd_comp_handler(dev, 1 << s, t) in context c.           *)
CallComp(c, s, t) ==
    comp' = [comp EXCEPT ![c] = [pc |-> "claim", slot |-> s,
                                 ent |-> NoEnt, type |-> t]]

CompAt(c, pc) == comp' = [comp EXCEPT ![c].pc = pc]
CompReturn(c) == comp' = [comp EXCEPT ![c] = CompIdle]

(* On one CPU without preemption a context that is inside code that does   *)
(* not sleep runs on until it sleeps, except for the interrupt.            *)
Inside(c) ==
    \/ c # Other /\ comp[c].pc # "idle"
    \/ \E e \in Ents : c = Work(e) /\ hpc[e] \in {"slotErr", "slotted", "armed"}
    \/ c = Flush /\ fpc \in {"comp", "put"}
    \/ c = Other /\ phase = "unregister"

Cpu(c) ==
    \/ Smp
    \/ c = Irq
    \/ \A d \in (Ctx \cup {Other}) \ {c} : ~Inside(d)

-----------------------------------------------------------------------------
(* The caller: cmd_exec(), mlx5_cmd_invoke(), wait_func().                  *)

(* The checks at the head of cmd_exec(); they are not repeated after the   *)
(* wait for the throttle semaphore, which an asynchronous command, perhaps *)
(* in atomic context, may not enter.                                       *)
CmdRefuse(e) ==
    /\ cpc[e] = "init"  /\ Cpu(Wait(e))
    /\ \/ (mlx5_cmd_is_down \/ ~opcode_allowed) /\ Tell(e, "ENXIO")
       \/ /\ ~mlx5_cmd_is_down  /\ opcode_allowed
          /\ Kind[e].throttle  /\ Kind[e].callback
          /\ Tell(e, "EINVAL")
    /\ cpc' = [cpc EXCEPT ![e] = "returned"]
    /\ UNCHANGED <<lifeVars, entryVars, wq, hpc, envVars, hwVars, throttleSem,
                   timer, comp>>

CmdExec(e) ==
    /\ cpc[e] = "init"  /\ Cpu(Wait(e))
    /\ ~mlx5_cmd_is_down  /\ opcode_allowed
    /\ ~(Kind[e].throttle /\ Kind[e].callback)
    /\ cpc' = [cpc EXCEPT ![e] = IF Kind[e].throttle THEN "throttle" ELSE "submit"]
    /\ UNCHANGED <<lifeVars, entryVars, wq, hpc, envVars, hwVars, outVars,
                   throttleSem, timer, comp>>

ThrottleDown(e) ==
    /\ cpc[e] = "throttle"  /\ Cpu(Wait(e))  /\ throttleSem > 0
    /\ throttleSem' = throttleSem - 1
    /\ cpc' = [cpc EXCEPT ![e] = "submit"]
    /\ UNCHANGED <<lifeVars, entryVars, wq, hpc, envVars, hwVars, outVars,
                   timer, comp>>

ThrottleUp_Missing(e) == UNCHANGED throttleSem  \* mutant: no up() at out_up

ThrottleUp(e) ==
    throttleSem' = IF Kind[e].throttle THEN throttleSem + 1 ELSE throttleSem

(* A message or the entry cannot be allocated, or a page command asks for  *)
(* a callback.                                                             *)
SubmitFails(e) ==
    /\ cpc[e] = "submit"  /\ Cpu(Wait(e))
    /\ \E r \in {"ENOMEM", "EINVAL"} :
          /\ r = "ENOMEM" => "nomem" \in Faults
          /\ r = "EINVAL" => Kind[e].callback /\ Kind[e].page
          /\ Tell(e, r)
    /\ ThrottleUp(e)
    /\ cpc' = [cpc EXCEPT ![e] = "returned"]
    /\ UNCHANGED <<lifeVars, entryVars, wq, hpc, envVars, hwVars, timer, comp>>

(* mlx5_cmd_invoke(): the entry is allocated with one reference and handed *)
(* to the work queue; a page command runs the handler in the caller.  A    *)
(* fresh work is never queued already (-EALREADY).                         *)
Submit(e) ==
    /\ cpc[e] = "submit"  /\ Cpu(Wait(e))
    /\ ~(Kind[e].callback /\ Kind[e].page)
    /\ refcnt' = [refcnt EXCEPT ![e] = 1]
    /\ IF Kind[e].page
       THEN /\ handling' = [handling EXCEPT ![e] = TRUE]
            /\ hpc' = [hpc EXCEPT ![e] = "wantSem"]
            /\ UNCHANGED wq
       ELSE /\ wq' = Append(wq, e)
            /\ UNCHANGED <<handling, hpc>>
    /\ cpc' = [cpc EXCEPT ![e] = IF Kind[e].callback THEN "returned"
                                 ELSE IF Kind[e].page THEN "inline"
                                 ELSE "waitHandling"]
    /\ UNCHANGED <<uaf, bitmask, sem, pagesSem, slotVars, entVars, slotted,
                   done, envVars, hwVars, outVars, throttleSem, timer, comp>>

(* The steps of wait_func() that only wait.                                *)
WaitStep(e) ==
    /\ Cpu(Wait(e))
    /\ \/ cpc[e] = "inline" /\ hpc[e] = "exit"
          /\ cpc' = [cpc EXCEPT ![e] = "waitHandling"]
       \/ cpc[e] = "waitHandling" /\ handling[e]
          /\ cpc' = [cpc EXCEPT ![e] = "waitSlotted"]
       \/ cpc[e] = "waitSlotted" /\ slotted[e]
          /\ cpc' = [cpc EXCEPT ![e] = IF mode = "POLLING" \/ Kind[e].polling
                                       THEN "waitDone" ELSE "waitDoneT"]
       \/ cpc[e] \in {"waitDone", "waitDoneT", "rewait"} /\ done[e]
          /\ cpc' = [cpc EXCEPT ![e] = "out"]
       \/ cpc[e] = "forced" /\ comp[Wait(e)].pc = "idle"
          /\ cpc' = [cpc EXCEPT ![e] = "out"]
    /\ Touch(e)
    /\ UNCHANGED <<entryVars, wq, hpc, envVars, hwVars, outVars, throttleSem,
                   timer, comp>>

(* The handler did not start in time: cancel_work_sync() follows.          *)
HandlingTimeout(e) ==
    /\ cpc[e] = "waitHandling"  /\ ~handling[e]  /\ "handling" \in Faults
    /\ Cpu(Wait(e))
    /\ cpc' = [cpc EXCEPT ![e] = "cancel"]
    /\ UNCHANGED <<lifeVars, entryVars, wq, hpc, envVars, hwVars, outVars,
                   throttleSem, timer, comp>>

Without(q, k) == [i \in 1 .. Len(q) - 1 |-> IF i < k THEN q[i] ELSE q[i + 1]]

CancelWork_Keep(e) ==           \* mutant: the work stays queued
    /\ cpc[e] = "cancel"  /\ Cpu(Wait(e))  /\ Touch(e)
    /\ ret' = [ret EXCEPT ![e] = "ECANCELED"]
    /\ cpc' = [cpc EXCEPT ![e] = "out"]
    /\ UNCHANGED <<slotVars, pending, rref, pollCmd, syncVars, wq, hpc, envVars,
                   hwVars, outVars, throttleSem, timer, comp>>

(* cancel_work_sync() takes the work off the queue, or waits for the       *)
(* handler that meanwhile started.                                         *)
CancelWork(e) ==
    /\ cpc[e] = "cancel"  /\ Cpu(Wait(e))
    /\ \/ /\ \E k \in DOMAIN wq : wq[k] = e /\ wq' = Without(wq, k)
          /\ ret' = [ret EXCEPT ![e] = "ECANCELED"]
          /\ cpc' = [cpc EXCEPT ![e] = "out"]
       \/ /\ hpc[e] = "exit"
          /\ cpc' = [cpc EXCEPT ![e] = "waitSlotted"]
          /\ UNCHANGED <<wq, ret>>
    /\ Touch(e)
    /\ UNCHANGED <<slotVars, pending, rref, pollCmd, syncVars, hpc, envVars,
                   hwVars, outVars, throttleSem, timer, comp>>

(* The command did not complete in time: wait_func_handle_exec_timeout().  *)
ExecTimeout(e) ==
    /\ cpc[e] = "waitDoneT"  /\ ~done[e]  /\ "exec" \in Faults
    /\ Cpu(Wait(e))
    /\ cpc' = [cpc EXCEPT ![e] = "recover"]
    /\ UNCHANGED <<lifeVars, entryVars, wq, hpc, envVars, hwVars, outVars,
                   throttleSem, timer, comp>>

(* mlx5_cmd_eq_recover() returns once the EQ is empty and the EQ lock free; *)
(* the EQEs it finds are handled by the code of IrqTake.                   *)
EqRecovered == eqes = << >> /\ comp[Irq].pc = "idle"

Recover(e) ==
    /\ cpc[e] = "recover"  /\ EqRecovered  /\ Cpu(Wait(e))
    /\ cpc' = [cpc EXCEPT ![e] = "rewait"]
    /\ UNCHANGED <<lifeVars, entryVars, wq, hpc, envVars, hwVars, outVars,
                   throttleSem, timer, comp>>

RewaitTimeout_NoRet(e) ==       \* mutant: ent->ret is not set
    /\ cpc[e] = "rewait"  /\ ~done[e]  /\ Cpu(Wait(e))  /\ Touch(e)
    /\ CallComp(Wait(e), idx[e], "FORCED")
    /\ cpc' = [cpc EXCEPT ![e] = "forced"]
    /\ UNCHANGED <<entryVars, wq, hpc, envVars, hwVars, outVars, throttleSem, timer>>

(* No completion after the recovery either: the caller completes the       *)
(* command itself.                                                         *)
RewaitTimeout(e) ==
    /\ cpc[e] = "rewait"  /\ ~done[e]  /\ Cpu(Wait(e))
    /\ ret' = [ret EXCEPT ![e] = "ETIMEDOUT"]
    /\ CallComp(Wait(e), idx[e], "FORCED")
    /\ cpc' = [cpc EXCEPT ![e] = "forced"]
    /\ Touch(e)
    /\ UNCHANGED <<slotVars, pending, rref, pollCmd, syncVars, wq, hpc,
                   envVars, hwVars, outVars, throttleSem, timer>>

CmdReturn_Early(e) ==           \* mutant: any wakeup ends wait_func()
    /\ cpc[e] \in {"waitDoneT", "out"}  /\ Cpu(Wait(e))
    /\ Tell(e, ret[e])  /\ cmd_ent_put(e)  /\ ThrottleUp(e)
    /\ cpc' = [cpc EXCEPT ![e] = "returned"]
    /\ UNCHANGED <<entryVars, wq, hpc, envVars, hwVars, timer, comp>>

(* The end of mlx5_cmd_invoke() and of cmd_exec().                         *)
CmdReturn(e) ==
    /\ cpc[e] = "out"  /\ Cpu(Wait(e))
    /\ Tell(e, ret[e])
    /\ cmd_ent_put(e)
    /\ ThrottleUp(e)
    /\ cpc' = [cpc EXCEPT ![e] = "returned"]
    /\ UNCHANGED <<entryVars, wq, hpc, envVars, hwVars, timer, comp>>

-----------------------------------------------------------------------------
(* The handler: cmd_work_handler(), on the ordered work queue or, for a    *)
(* page command, in its caller.                                            *)

WorkerIdle == \A e \in Ents : Kind[e].page \/ hpc[e] \in {"none", "exit"}

WorkStart ==
    /\ wq # << >>  /\ WorkerIdle  /\ Cpu(Work(Head(wq)))
    /\ LET e == Head(wq) IN
          /\ handling' = [handling EXCEPT ![e] = TRUE]
          /\ hpc' = [hpc EXCEPT ![e] = "wantSem"]
          /\ Touch(e)
    /\ wq' = Tail(wq)
    /\ UNCHANGED <<slotVars, entVars, slotted, done, cpc, envVars, hwVars,
                   outVars, throttleSem, timer, comp>>

WorkDown(e) ==
    /\ hpc[e] = "wantSem"  /\ Cpu(Work(e))
    /\ IF Kind[e].page
       THEN pagesSem > 0 /\ pagesSem' = pagesSem - 1 /\ UNCHANGED sem
       ELSE sem > 0 /\ sem' = sem - 1 /\ UNCHANGED pagesSem
    /\ hpc' = [hpc EXCEPT ![e] = "gotSem"]
    /\ UNCHANGED <<refcnt, uaf, bitmask, entryVars, wq, cpc, envVars, hwVars,
                   outVars, throttleSem, timer, comp>>

(* The failure branches of cmd_work_handler(), before the entry has a      *)
(* slot: an asynchronous command is answered and released, the waiter of a *)
(* synchronous one is woken; then permits go back to sem.                  *)
FailEarly(e, r, permits) ==
    /\ IF Kind[e].callback
       THEN /\ Tell(e, r)
            /\ refcnt' = [refcnt EXCEPT ![e] = IF @ = 0 THEN 0 ELSE @ - 1]
            /\ UNCHANGED <<ret, done>>
       ELSE /\ ret' = [ret EXCEPT ![e] = r]
            /\ done' = [done EXCEPT ![e] = TRUE]
            /\ UNCHANGED <<refcnt, outVars>>
    /\ uaf' = (refcnt[e] = 0)
    /\ sem' = sem + permits
    /\ UNCHANGED <<bitmask, pagesSem>>

WorkDownTimeout_Up(e) ==        \* mutant: up() of a permit never taken
    /\ hpc[e] = "wantSem"  /\ ~Kind[e].page  /\ sem = 0
    /\ "slotwait" \in Faults  /\ Cpu(Work(e))
    /\ FailEarly(e, "EBUSY", 1)
    /\ hpc' = [hpc EXCEPT ![e] = "slotErr"]
    /\ UNCHANGED <<slotVars, pending, rref, pollCmd, handling, slotted, wq,
                   cpc, envVars, hwVars, throttleSem, timer, comp>>

WorkDownTimeout(e) ==
    /\ hpc[e] = "wantSem"  /\ ~Kind[e].page  /\ sem = 0
    /\ "slotwait" \in Faults  /\ Cpu(Work(e))
    /\ FailEarly(e, "EBUSY", 0)
    /\ hpc' = [hpc EXCEPT ![e] = "slotErr"]
    /\ UNCHANGED <<slotVars, pending, rref, pollCmd, handling, slotted, wq,
                   cpc, envVars, hwVars, throttleSem, timer, comp>>

(* complete(&ent->slotted) after that.                                     *)
WorkSlotErr(e) ==
    /\ hpc[e] = "slotErr"  /\ Cpu(Work(e))
    /\ slotted' = [slotted EXCEPT ![e] = TRUE]
    /\ hpc' = [hpc EXCEPT ![e] = "exit"]
    /\ Touch(e)
    /\ UNCHANGED <<slotVars, entVars, handling, done, wq, cpc, envVars, hwVars,
                   outVars, throttleSem, timer, comp>>

cmd_alloc_index_NoStore(e, s) ==    \* mutant: ent_arr is not set
    /\ bitmask' = bitmask \ {s}  /\ idx' = [idx EXCEPT ![e] = s]
    /\ uaf' = (refcnt[e] = 0)  /\ UNCHANGED <<entArr, refcnt, sem, pagesSem>>

(* cmd_alloc_index(), or the pages slot: under alloc_lock.                 *)
cmd_alloc_index(e, s) ==
    /\ bitmask' = bitmask \ {s}
    /\ idx' = [idx EXCEPT ![e] = s]
    /\ entArr' = [entArr EXCEPT ![s] = e]
    /\ uaf' = (refcnt[e] = 0)
    /\ UNCHANGED <<refcnt, sem, pagesSem>>

FreeSlots(e) == IF Kind[e].page THEN {MaxReg} ELSE bitmask \cap Reg

WorkAlloc(e) ==
    /\ hpc[e] = "gotSem"  /\ Cpu(Work(e))
    /\ IF FreeSlots(e) # {}
       THEN /\ cmd_alloc_index(e, Lowest(FreeSlots(e)))
            /\ hpc' = [hpc EXCEPT ![e] = "slotted"]
            /\ UNCHANGED <<ret, done, outVars>>
       ELSE /\ FailEarly(e, "EAGAIN", 1)
            /\ hpc' = [hpc EXCEPT ![e] = "exit"]
            /\ UNCHANGED slotVars
    /\ UNCHANGED <<pending, rref, pollCmd, handling, slotted, wq, cpc, envVars,
                   hwVars, throttleSem, timer, comp>>

(* The descriptor is written, the timeout of an asynchronous command       *)
(* armed, the completion made pending, and a reference taken for the       *)
(* timeout and one for the real completion.                                *)
WorkArm(e) ==
    /\ hpc[e] = "slotted"  /\ Cpu(Work(e))
    /\ slotted' = [slotted EXCEPT ![e] = TRUE]
    /\ pollCmd' = [pollCmd EXCEPT ![e] = mode = "POLLING" \/ Kind[e].polling]
    /\ timer' = IF Kind[e].callback THEN [timer EXCEPT ![e] = "armed"] ELSE timer
    /\ pending' = [pending EXCEPT ![e] = TRUE]
    /\ refcnt' = [refcnt EXCEPT ![e] =
                      cmd_ent_get(e, IF Kind[e].callback THEN 2 ELSE 1)]
    /\ uaf' = (refcnt[e] = 0)
    /\ hpc' = [hpc EXCEPT ![e] = "armed"]
    /\ UNCHANGED <<bitmask, sem, pagesSem, slotVars, rref, ret, handling, done,
                   wq, cpc, envVars, hwVars, outVars, throttleSem, comp>>

(* The doorbell, unless the device is down or the opcode not allowed.      *)
WorkSend(e) ==
    /\ hpc[e] = "armed"  /\ Cpu(Work(e))
    /\ Touch(e)
    /\ IF mlx5_cmd_is_down \/ ~opcode_allowed
       THEN /\ ret' = [ret EXCEPT ![e] = "ENXIO"]
            /\ CallComp(Work(e), idx[e], "FORCED")
            /\ hpc' = [hpc EXCEPT ![e] = "comp"]
            /\ UNCHANGED fw
       ELSE /\ fw' = [fw EXCEPT ![idx[e]] = e]
            /\ hpc' = [hpc EXCEPT ![e] = IF pollCmd[e] THEN "poll" ELSE "exit"]
            /\ UNCHANGED <<ret, comp>>
    /\ UNCHANGED <<slotVars, pending, rref, pollCmd, syncVars, wq, cpc,
                   envVars, eqes, fwDone, outVars, throttleSem, timer>>

(* poll_timeout() ends when the firmware gives the descriptor back, or in  *)
(* a timeout.                                                              *)
WorkPoll(e) ==
    /\ hpc[e] = "poll"  /\ Cpu(Work(e))
    /\ Touch(e)
    /\ \/ /\ fw[idx[e]] # e
          /\ ret' = [ret EXCEPT ![e] = "OK"]
          /\ CallComp(Work(e), idx[e], "POLLING")
       \/ /\ fw[idx[e]] = e  /\ "exec" \in Faults
          /\ ret' = [ret EXCEPT ![e] = "ETIMEDOUT"]
          /\ CallComp(Work(e), idx[e], "FORCED")
    /\ hpc' = [hpc EXCEPT ![e] = "comp"]
    /\ UNCHANGED <<slotVars, pending, rref, pollCmd, syncVars, wq, cpc,
                   envVars, hwVars, outVars, throttleSem, timer>>

WorkExit(e) ==
    /\ hpc[e] = "comp"  /\ comp[Work(e)].pc = "idle"  /\ Cpu(Work(e))
    /\ hpc' = [hpc EXCEPT ![e] = "exit"]
    /\ UNCHANGED <<lifeVars, entryVars, wq, cpc, envVars, hwVars, outVars,
                   throttleSem, timer, comp>>

-----------------------------------------------------------------------------
(* mlx5_cmd_comp_handler() for one slot, in context c.  The steps are cut  *)
(* at its calls of cmd_ent_put().                                          *)

Trig_Never(c) == FALSE      \* mutant: vec loses the flag

Trig(c) == c = Flush        \* vec & MLX5_TRIGGERED_CMD_COMP

Claimed_Again(c, e) == "cancel"     \* mutant: test_and_clear_bit() ignored
Claimed_Swapped(c, e) ==            \* mutant: the test of ent->polling inverted
    IF pending[e] /\ Kind[e].polling THEN "cancel" ELSE "idle"

(* What the handler does with entry e, by the type of the completion and   *)
(* by whether the completion was still pending.                            *)
Claimed(c, e) ==
    LET t    == comp[c].type
        lost == ~pending[e]
    IN  CASE lost /\ t = "EVENT" /\ ~Kind[e].polling -> "lateput"
          [] lost /\ Trig(c) /\ ret[e] = "ETIMEDOUT" /\ rref[e] -> "trigput"
          [] ~lost /\ ~(t = "EVENT" /\ Kind[e].polling) -> "cancel"
          [] lost /\ t = "POLLING" -> "cancel"
          [] OTHER -> "idle"

(* The entry of the slot is looked up and its pending bit tested and       *)
(* cleared.                                                                *)
CompClaim(c) ==
    /\ comp[c].pc = "claim"  /\ Cpu(c)
    /\ LET e == entArr[comp[c].slot]
           p == Claimed(c, e)
       IN  /\ comp' = [comp EXCEPT ![c] = IF p = "idle" THEN CompIdle
                                          ELSE [@ EXCEPT !.pc = p, !.ent = e]]
           /\ pending' = [pending EXCEPT ![e] = FALSE]
           /\ Touch(e)
    /\ UNCHANGED <<slotVars, rref, ret, pollCmd, syncVars, pcVars, envVars,
                   hwVars, outVars, throttleSem, timer>>

(* A command that was completed before: a late event, or a flush that      *)
(* meets a command that timed out, drops a reference.                      *)
CompLatePut(c) ==
    /\ comp[c].pc \in {"lateput", "trigput"}  /\ Cpu(c)
    /\ cmd_ent_put(comp[c].ent)
    /\ CompReturn(c)
    /\ UNCHANGED <<entryVars, pcVars, envVars, hwVars, outVars, throttleSem,
                   timer>>

(* cancel_delayed_work() and the reference of the timeout.                 *)
CompCancel(c) ==
    /\ comp[c].pc = "cancel"  /\ Cpu(c)
    /\ LET e == comp[c].ent
       IN  IF Kind[e].callback /\ timer[e] = "armed"
           THEN cmd_ent_put(e) /\ timer' = [timer EXCEPT ![e] = "off"]
           ELSE Touch(e) /\ UNCHANGED timer
    /\ CompAt(c, "rput")
    /\ UNCHANGED <<entryVars, pcVars, envVars, hwVars, outVars, throttleSem>>

(* The reference of the real completion.                                   *)
CompRealPut(c) ==
    /\ comp[c].pc = "rput"  /\ Cpu(c)
    /\ LET e == comp[c].ent
       IN  IF comp[c].type # "FORCED" \/ mlx5_cmd_is_down \/ ~opcode_allowed
           THEN cmd_ent_put(e) /\ rref' = [rref EXCEPT ![e] = TRUE]
           ELSE Touch(e) /\ UNCHANGED rref
    /\ CompAt(c, "finish")
    /\ UNCHANGED <<slotVars, pending, ret, pollCmd, syncVars, pcVars, envVars,
                   hwVars, outVars, throttleSem, timer>>

(* The result, then the callback or the waiter.  Whatever the firmware     *)
(* answered, its delivery status and the signature included, is "OK".      *)
CompFinish(c) ==
    /\ comp[c].pc = "finish"  /\ Cpu(c)
    /\ LET e == comp[c].ent
           r == IF Trig(c) THEN "ENXIO" ELSE ret[e]
       IN  /\ ret' = [ret EXCEPT ![e] = r]
           /\ IF Kind[e].callback
              THEN cmd_ent_put(e) /\ Tell(e, r) /\ UNCHANGED done
              ELSE Touch(e) /\ done' = [done EXCEPT ![e] = TRUE] /\ UNCHANGED outVars
    /\ CompReturn(c)
    /\ UNCHANGED <<slotVars, pending, rref, pollCmd, handling, slotted, pcVars,
                   envVars, hwVars, throttleSem, timer>>

-----------------------------------------------------------------------------
(* cb_timeout_handler()                                                    *)

TimerFire(e) ==
    /\ timer[e] = "armed"  /\ "exec" \in Faults  /\ Cpu(Tmo(e))
    /\ timer' = [timer EXCEPT ![e] = "recover"]
    /\ UNCHANGED <<lifeVars, entryVars, pcVars, envVars, hwVars, outVars,
                   throttleSem, comp>>

TimerRecover(e) ==
    /\ timer[e] = "recover"  /\ EqRecovered  /\ Cpu(Tmo(e))
    /\ Touch(e)
    /\ IF pending[e]
       THEN /\ ret' = [ret EXCEPT ![e] = "ETIMEDOUT"]
            /\ CallComp(Tmo(e), idx[e], "FORCED")
            /\ timer' = [timer EXCEPT ![e] = "forced"]
       ELSE /\ timer' = [timer EXCEPT ![e] = "put"]
            /\ UNCHANGED <<ret, comp>>
    /\ UNCHANGED <<slotVars, pending, rref, pollCmd, syncVars, pcVars, envVars,
                   hwVars, outVars, throttleSem>>

TimerPut(e) ==
    /\ \/ timer[e] = "put"
       \/ timer[e] = "forced" /\ comp[Tmo(e)].pc = "idle"
    /\ Cpu(Tmo(e))
    /\ cmd_ent_put(e)
    /\ timer' = [timer EXCEPT ![e] = "off"]
    /\ UNCHANGED <<entryVars, pcVars, envVars, hwVars, outVars, throttleSem,
                   comp>>

-----------------------------------------------------------------------------
(* The firmware and the interrupt of the command EQ.                       *)

(* The firmware executes the command of a slot, gives the descriptor back  *)
(* and, when it has a command EQ, reports the slot there.                  *)
FwDone(s) ==
    /\ fw[s] # NoEnt
    /\ fwDone' = fwDone \cup {fw[s]}
    /\ fw' = [fw EXCEPT ![s] = NoEnt]
    /\ eqes' = IF eqUp THEN Append(eqes, s) ELSE eqes
    /\ UNCHANGED <<lifeVars, entryVars, pcVars, envVars, outVars, throttleSem,
                   timer, comp>>

(* mlx5_eq_async_int() takes one EQE; cmd_comp_notifier(), when it is      *)
(* registered, ignores it once the device is in error.                     *)
IrqTake ==
    /\ eqes # << >>  /\ comp[Irq].pc = "idle"
    /\ eqes' = Tail(eqes)
    /\ IF nbReg /\ devState # "INTERNAL_ERROR"
       THEN CallComp(Irq, Head(eqes), "EVENT")
       ELSE UNCHANGED comp
    /\ UNCHANGED <<lifeVars, entryVars, pcVars, envVars, fw, fwDone, outVars,
                   throttleSem, timer>>

-----------------------------------------------------------------------------
(* A dead device: enter_error_state(), mlx5_cmd_flush(),                   *)
(* mlx5_cmd_trigger_completions().                                         *)

PciOffline ==
    /\ "offline" \in Faults  /\ ~offline  /\ Cpu(Other)
    /\ offline' = TRUE
    /\ UNCHANGED <<lifeVars, entryVars, pcVars, modeVars, devState, eqVars,
                   adminVars, flushVars, hwVars, outVars, throttleSem, timer,
                   comp>>

DevError ==
    /\ "error" \in Faults  /\ devState = "UP"  /\ Cpu(Other)
    /\ devState' = "INTERNAL_ERROR"
    /\ fpc' = "start"
    /\ UNCHANGED <<lifeVars, entryVars, pcVars, modeVars, offline, eqVars,
                   adminVars, fgot, ftodo, fheld, hwVars, outVars, throttleSem,
                   timer, comp>>

(* down_trylock() of each permit of sem, then of pages_sem; every failure  *)
(* triggers the completions of the slots in use.                           *)
FlushTry ==
    /\ fpc \in {"start", "try"}  /\ Cpu(Flush)
    /\ IF fgot < MaxReg /\ sem > 0
       THEN sem' = sem - 1 /\ fgot' = fgot + 1 /\ fpc' = "try" /\ UNCHANGED pagesSem
       ELSE IF fgot = MaxReg /\ pagesSem > 0
       THEN pagesSem' = pagesSem - 1 /\ fgot' = fgot + 1 /\ fpc' = "unlock" /\ UNCHANGED sem
       ELSE fpc' = "trigger" /\ UNCHANGED <<sem, pagesSem, fgot>>
    /\ UNCHANGED <<refcnt, uaf, bitmask, entryVars, pcVars, modeVars, devVars,
                   eqVars, adminVars, ftodo, fheld, hwVars, outVars,
                   throttleSem, timer, comp>>

(* synchronize_irq(), then a reference on every entry that has a slot.     *)
FlushTrigger ==
    /\ fpc = "trigger"  /\ comp[Irq].pc = "idle"  /\ Cpu(Flush)
    /\ LET vector == Slots \ bitmask
           hit(e) == \E s \in vector : entArr[s] = e
       IN  /\ ftodo' = vector  /\ fheld' = vector
           /\ fpc' = IF vector = {} THEN "try" ELSE "comp"
           /\ refcnt' = [e \in Ents |-> IF hit(e) THEN cmd_ent_get(e, 1)
                                             ELSE refcnt[e]]
           /\ uaf' = (\E e \in Ents : hit(e) /\ refcnt[e] = 0)
    /\ UNCHANGED <<bitmask, sem, pagesSem, entryVars, pcVars, modeVars,
                   devVars, eqVars, adminVars, fgot, hwVars, outVars,
                   throttleSem, timer, comp>>

(* The loop of mlx5_cmd_comp_handler() over the vector.                    *)
FlushComp ==
    /\ fpc = "comp"  /\ comp[Flush].pc = "idle"  /\ Cpu(Flush)
    /\ IF ftodo # {}
       THEN /\ CallComp(Flush, Lowest(ftodo), "FORCED")
            /\ ftodo' = ftodo \ {Lowest(ftodo)}
            /\ UNCHANGED fpc
       ELSE fpc' = "put" /\ UNCHANGED <<comp, ftodo>>
    /\ UNCHANGED <<lifeVars, entryVars, pcVars, modeVars, devVars, eqVars,
                   adminVars, fgot, fheld, hwVars, outVars, throttleSem,
                   timer>>

FlushPut ==
    /\ fpc = "put"  /\ fheld # {}  /\ Cpu(Flush)
    /\ LET s == Lowest(fheld)
       IN  /\ cmd_ent_put(entArr[s])
           /\ fheld' = fheld \ {s}
           /\ fpc' = IF fheld = {s} THEN "try" ELSE "put"
    /\ UNCHANGED <<entryVars, pcVars, modeVars, devVars, eqVars, adminVars,
                   fgot, ftodo, hwVars, outVars, throttleSem, timer, comp>>

FlushUnlock ==
    /\ fpc = "unlock"  /\ Cpu(Flush)
    /\ sem' = sem + MaxReg  /\ pagesSem' = pagesSem + 1
    /\ fgot' = 0  /\ fpc' = "done"
    /\ UNCHANGED <<refcnt, uaf, bitmask, entryVars, pcVars, modeVars, devVars,
                   eqVars, adminVars, ftodo, fheld, hwVars, outVars,
                   throttleSem, timer, comp>>

-----------------------------------------------------------------------------
(* The administrator: one create_async_eqs(), later one                    *)
(* destroy_async_eqs().  The commands that create and destroy the EQ       *)
(* itself are not entries of the model.                                    *)

Locked == {"allowCreate", "events", "allowAll", "allowDestroy", "polling", "allowBoot"}

NextPhase == [p \in Locked |->
    CASE p = "allowCreate"  -> "create"
      [] p = "events"       -> "allowAll"
      [] p = "allowAll"     -> "running"
      [] p = "allowDestroy" -> "polling"
      [] p = "polling"      -> "unregister"
      [] p = "allowBoot"    -> "off"]

AdminDown_NoWait ==     \* mutant: the result of a down_trylock() ignored
    /\ phase \in Locked  /\ got <= MaxReg  /\ Cpu(Other)
    /\ IF got < MaxReg
       THEN sem' = (IF sem > 0 THEN sem - 1 ELSE sem) /\ UNCHANGED pagesSem
       ELSE pagesSem > 0 /\ pagesSem' = pagesSem - 1 /\ UNCHANGED sem
    /\ got' = got + 1
    /\ UNCHANGED <<refcnt, uaf, bitmask, entryVars, pcVars, modeVars, devVars,
                   eqVars, phase, flushVars, hwVars, outVars, throttleSem,
                   timer, comp>>

(* down() of one permit of sem, and of pages_sem after the last.           *)
AdminDown ==
    /\ phase \in Locked  /\ got <= MaxReg  /\ Cpu(Other)
    /\ IF got < MaxReg
       THEN sem > 0 /\ sem' = sem - 1 /\ UNCHANGED pagesSem
       ELSE pagesSem > 0 /\ pagesSem' = pagesSem - 1 /\ UNCHANGED sem
    /\ got' = got + 1
    /\ UNCHANGED <<refcnt, uaf, bitmask, entryVars, pcVars, modeVars, devVars,
                   eqVars, phase, flushVars, hwVars, outVars, throttleSem,
                   timer, comp>>

(* mlx5_cmd_allowed_opcode() and mlx5_cmd_change_mod() with every permit   *)
(* held; the permits are given back.                                       *)
AdminApply ==
    /\ phase \in Locked  /\ got = MaxReg + 1  /\ Cpu(Other)
    /\ mode' = CASE phase = "events"  -> "EVENTS"
                 [] phase = "polling" -> "POLLING"
                 [] OTHER             -> mode
    /\ allowed' = CASE phase \in {"allowCreate", "allowDestroy"} -> "EQ"
                    [] phase \in {"allowAll", "allowBoot"}       -> "ALL"
                    [] OTHER                                     -> allowed
    /\ sem' = sem + MaxReg  /\ pagesSem' = pagesSem + 1
    /\ got' = 0  /\ phase' = NextPhase[phase]
    /\ UNCHANGED <<refcnt, uaf, bitmask, entryVars, pcVars, devVars, eqVars,
                   flushVars, hwVars, outVars, throttleSem, timer, comp>>

(* The steps between: setup_async_eq() and the registration of the         *)
(* notifier; its removal, which waits for a running interrupt; the end of  *)
(* the EQ.  A failure of the next EQ goes to mlx5_cmd_use_polling() with   *)
(* every opcode allowed (err2), a failure of this one to err1.             *)
AdminStep ==
    /\ Reconfig  /\ Cpu(Other)
    /\ \/ /\ phase \in {"boot", "running"}
          /\ phase' = IF phase = "boot" THEN "allowCreate" ELSE "allowDestroy"
          /\ UNCHANGED <<eqVars, eqes>>
       \/ /\ phase \in {"create", "running"}  /\ "eqfail" \in Faults
          /\ phase' = IF phase = "create" THEN "allowBoot" ELSE "polling"
          /\ UNCHANGED <<eqVars, eqes>>
       \/ /\ phase = "create"
          /\ eqUp' = TRUE  /\ nbReg' = TRUE  /\ phase' = "events"
          /\ UNCHANGED eqes
       \/ /\ phase = "unregister"  /\ comp[Irq].pc = "idle"
          /\ nbReg' = FALSE  /\ phase' = "destroy"
          /\ UNCHANGED <<eqUp, eqes>>
       \/ /\ phase = "destroy"  /\ comp[Irq].pc = "idle"
          /\ eqUp' = FALSE  /\ eqes' = << >>  /\ phase' = "allowBoot"
          /\ UNCHANGED nbReg
    /\ UNCHANGED <<lifeVars, entryVars, pcVars, modeVars, devVars, got,
                   flushVars, fw, fwDone, outVars, throttleSem, timer, comp>>

-----------------------------------------------------------------------------
CallerStep(e) ==
    \/ ThrottleDown(e) \/ SubmitFails(e) \/ Submit(e) \/ WaitStep(e)
    \/ HandlingTimeout(e) \/ CancelWork(e)
    \/ ExecTimeout(e) \/ Recover(e) \/ RewaitTimeout(e) \/ CmdReturn(e)

HandlerStep(e) ==
    \/ WorkDown(e) \/ WorkDownTimeout(e) \/ WorkSlotErr(e) \/ WorkAlloc(e)
    \/ WorkArm(e) \/ WorkSend(e) \/ WorkPoll(e) \/ WorkExit(e)

TimerStep(e) == TimerFire(e) \/ TimerRecover(e) \/ TimerPut(e)

CompStep(c) ==
    \/ CompClaim(c) \/ CompLatePut(c) \/ CompCancel(c)
    \/ CompRealPut(c) \/ CompFinish(c)

FlushStep == FlushTry \/ FlushTrigger \/ FlushComp \/ FlushPut \/ FlushUnlock
AdminNext == AdminDown \/ AdminApply \/ AdminStep

Next ==
    /\ ~uaf
    /\ \/ \E e \in Ents : CmdRefuse(e) \/ CmdExec(e) \/ CallerStep(e) \/ HandlerStep(e) \/ TimerStep(e)
       \/ \E c \in Ctx : CompStep(c)
       \/ \E s \in Slots : FwDone(s)
       \/ WorkStart \/ IrqTake
       \/ PciOffline \/ DevError \/ FlushStep
       \/ AdminNext

Spec == Init /\ [][Next]_vars

(* The steps of the machine, without the choices of its users, the errors  *)
(* of the device and the loop of the flush.  The firmware answers unless   *)
(* the run allows it not to ("exec").                                      *)
Runnable ==
    \/ \E e \in Ents : CallerStep(e) \/ HandlerStep(e) \/ TimerStep(e)
    \/ \E c \in Ctx \ {Flush} : CompStep(c)
    \/ \E s \in Slots : "exec" \notin Faults /\ FwDone(s)
    \/ WorkStart \/ IrqTake \/ AdminNext

(* The CPU does not idle while something can run; the flush, a busy loop,  *)
(* yields to it at every cond_resched().                                   *)
Fairness == SF_vars(~uaf /\ Runnable) /\ WF_vars(~uaf /\ (FlushStep \/ CompStep(Flush)))

FairSpec == Spec /\ Fairness

-----------------------------------------------------------------------------
(* Properties.                                                             *)

(* cmd_ent_get() and cmd_ent_put() keep every entry alive for as long as   *)
(* some context uses it: nobody touches a freed entry.                     *)
NoUseAfterFree == ~uaf

(* A live entry that has a slot owns it: the slot is not free and          *)
(* cmd->ent_arr leads from it to the entry, so two commands never share a  *)
(* descriptor and a completion reaches the command it belongs to.          *)
SlotExclusive ==
    \A e \in Ents : refcnt[e] > 0 /\ idx[e] # NoIdx =>
        idx[e] \notin bitmask /\ entArr[idx[e]] = e

(* Whoever holds a permit of sem finds a free slot, whatever was leaked,   *)
(* flushed or drained before: the "failed to allocate command entry"       *)
(* branch of cmd_work_handler(), which does not complete ent->slotted, is  *)
(* never taken.                                                            *)
SlotAvailable ==
    \A e \in Ents : hpc[e] = "gotSem" => FreeSlots(e) # {}

(* A slot is not given back while the firmware of a working device owns    *)
(* its descriptor, even after the command timed out ("only real completion *)
(* can free the cmd slot").                                                *)
FwOwnsSlot ==
    ~mlx5_cmd_is_down =>
        \A s \in Slots : fw[s] # NoEnt => s \notin bitmask /\ entArr[s] = fw[s]

(* mlx5_cmd_comp_handler() finds an entry, never NULL, in every slot it is *)
(* called for, and so does the flush that takes references through         *)
(* cmd->ent_arr.                                                           *)
LookupSafe ==
    /\ \A c \in Ctx : comp[c].pc = "claim" =>
           comp[c].slot \in Slots /\ entArr[comp[c].slot] \in Ents
    /\ \A s \in Slots : s \notin bitmask \/ s \in ftodo \cup fheld =>
           entArr[s] \in Ents

(* A command is completed by one context: no two of them are past the      *)
(* pending bit of the same entry.                                          *)
CompletedOnce ==
    \A c, d \in Ctx :
        /\ c # d
        /\ comp[c].pc \in {"cancel", "rput", "finish"}
        /\ comp[d].pc \in {"cancel", "rput", "finish"}
        => comp[c].ent # comp[d].ent

(* Nothing is under way any more.                                          *)
Quiet ==
    /\ \A e \in Ents : /\ cpc[e] = "returned"  /\ hpc[e] \in {"none", "exit"}
                       /\ timer[e] = "off"
    /\ \A c \in Ctx : comp[c].pc = "idle"
    /\ wq = << >>  /\ eqes = << >>  /\ \A s \in Slots : fw[s] = NoEnt
    /\ got = 0  /\ fpc \in {"idle", "done"}

(* The promise of CmdService: a command told ENXIO in cmd_exec() was       *)
(* refused, one told ENXIO later was aborted; the refinement need not tell *)
(* the two apart.  A second answer is shown as an answer to nobody.        *)
Service == INSTANCE CmdService WITH
    Refusals <- {"EINVAL", "ENOMEM", "EBUSY", "EAGAIN", "ECANCELED"},
    Unknown  <- {"ENXIO", "ETIMEDOUT"},
    answered <- {e \in Ents : nOut[e] = 1},
    answer   <- outcome,
    executed <- fwDone

(* CmdIf implements CmdService.                                            *)
Implements == Service!Spec

(* When nothing is under way every call was answered once, every entry is  *)
(* freed and every slot and every permit is back.                          *)
NoLeak ==
    Quiet =>
        /\ bitmask = Slots  /\ sem = MaxReg  /\ pagesSem = 1
        /\ throttleSem = ThrottleMax
        /\ \A e \in Ents : refcnt[e] = 0 /\ nOut[e] = 1

(* mlx5_cmd_change_mod() and mlx5_cmd_allowed_opcode() change the mode and *)
(* the opcodes only while no command has a slot.                           *)
SwitchWhenDrained ==
    [][<<mode, allowed>>' # <<mode, allowed>> => bitmask = Slots]_vars

(* Every command that is submitted is answered: there is always a later    *)
(* moment at which cmd_exec() owes an answer to nobody.                    *)
Answered == []<>(\A e \in Ents : cpc[e] # "init" => nOut[e] > 0)

(* Every change of mode or opcodes gets all its permits in the end.        *)
SwitchEnds == []<>(phase \notin Locked)

(* The flush of a dead device ends.                                        *)
FlushEnds == []<>(fpc \in {"idle", "done"})

-----------------------------------------------------------------------------
(* The inductive invariant behind TypeOK, LookupSafe, SlotExclusive and    *)
(* SlotAvailable.  It holds for every instance, with all faults on several *)
(* CPUs: what those faults break are the reference counts, not the slots.  *)

(* The program counters agree with the slot of the entry.                  *)
EntryShape ==
    \A e \in Ents :
        /\ hpc[e] \in {"none", "wantSem", "gotSem", "slotErr"} => idx[e] = NoIdx
        /\ hpc[e] \in {"slotted", "armed", "poll"} => idx[e] # NoIdx
        /\ timer[e] # "off" => idx[e] # NoIdx
        /\ idx[e] # NoIdx => (idx[e] = MaxReg <=> Kind[e].page)
        /\ idx[e] # NoIdx => entArr[idx[e]] \in Ents
        /\ cpc[e] \in {"init", "throttle", "submit"} => hpc[e] = "none"
        /\ ~Kind[e].callback /\ slotted[e] => idx[e] # NoIdx \/ done[e]
        /\ ~Kind[e].callback /\ hpc[e] = "slotErr" => done[e]
        /\ cpc[e] \in {"waitDone", "waitDoneT", "recover", "rewait"} => slotted[e]
        /\ Kind[e].callback => cpc[e] \in {"init", "throttle", "submit", "returned"}

(* An entry is queued once, before its handler starts.                     *)
QueueShape ==
    /\ \A i \in DOMAIN wq : /\ hpc[wq[i]] = "none"
                            /\ cpc[wq[i]] \notin {"init", "throttle", "submit"}
    /\ \A i, j \in DOMAIN wq : wq[i] = wq[j] => i = j

(* Every slot that is mentioned anywhere had a command.                    *)
SlotShape ==
    /\ \A s \in Slots : fw[s] # NoEnt => entArr[s] \in Ents
    /\ \A i \in DOMAIN eqes : entArr[eqes[i]] \in Ents
    /\ \A c \in Ctx : comp[c].pc \notin {"idle", "claim"} => comp[c].ent \in Ents

(* pages_sem is a mutex: between an entry that has taken it, with or       *)
(* without its slot, the flush and the administrator.                      *)
HoldsPages(e) ==
    /\ Kind[e].page
    /\ \/ hpc[e] = "gotSem"
       \/ refcnt[e] > 0 /\ idx[e] = MaxReg

PagesExclusive ==
    /\ pagesSem \in {0, 1}
    /\ fgot = MaxReg + 1 => pagesSem = 0 /\ got # MaxReg + 1
    /\ got = MaxReg + 1 => pagesSem = 0
    /\ \A e \in Ents : HoldsPages(e) =>
           pagesSem = 0 /\ fgot # MaxReg + 1 /\ got # MaxReg + 1
    /\ \A e, f \in Ents : HoldsPages(e) /\ HoldsPages(f) => e = f
    /\ fpc = "unlock" => fgot = MaxReg + 1

(* Every permit of sem, wherever it is, stands for a free slot.            *)
Claimants == {e \in Ents : ~Kind[e].page /\ hpc[e] = "gotSem"}
Drained(n) == IF n < MaxReg THEN n ELSE MaxReg

PermitsBacked ==
    Cardinality(bitmask \cap Reg) =
        sem + Cardinality(Claimants) + Drained(got) + Drained(fgot)

IndInv ==
    /\ TypeOK  /\ EntryShape  /\ QueueShape  /\ SlotShape  /\ LookupSafe
    /\ SlotExclusive  /\ PagesExclusive  /\ PermitsBacked

(* The pages slot is in use only while a live page command has it.         *)
PagesBacked ==
    ~uaf /\ MaxReg \notin bitmask =>
        \E e \in Ents : Kind[e].page /\ refcnt[e] > 0 /\ idx[e] = MaxReg

(* A completion that is past the pending bit owns its entry: the bit is    *)
(* clear, it was set before and is set only once, and nobody else is past  *)
(* it.  A poller is the exception: it completes its command also when it   *)
(* lost the bit.                                                           *)
Past(c) == comp[c].pc \in {"cancel", "rput", "finish"} /\ comp[c].type # "POLLING"
Armed(e) == hpc[e] \in {"armed", "poll", "comp", "exit"}

ClaimedOnce ==
    /\ \A e \in Ents : pending[e] => Armed(e)
    /\ \A c \in Ctx : Past(c) => ~pending[comp[c].ent] /\ Armed(comp[c].ent)
    /\ \A c, d \in Ctx : c # d /\ Past(c) /\ Past(d) => comp[c].ent # comp[d].ent

(* With them, what SwitchWhenDrained and CompletedOnce rest on.            *)
FullInv == IndInv /\ PagesBacked /\ ClaimedOnce
=============================================================================
