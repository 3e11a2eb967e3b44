------------------------------ MODULE CmdApi -------------------------------
(***************************************************************************)
(* The calls through which the rest of the driver issues commands          *)
(* (cmd.c): mlx5_cmd_do(), mlx5_cmd_exec() and mlx5_cmd_exec_polling(),    *)
(* which wait, and mlx5_cmd_exec_cb() with its asynchronous context, whose *)
(* cleanup waits for the callbacks under way.                              *)
(*                                                                         *)
(* cmd_exec() below them is CmdService, the specification that CmdIf       *)
(* implements.  Added here are the verdict of the firmware, the outbox of  *)
(* the caller, the translation of the two into the result, and the counter *)
(* of the context.  Statistics and log lines are left out.                 *)
(***************************************************************************)
EXTENDS Integers, FiniteSets

CONSTANTS Ents,         \* the calls
          Verdicts      \* the verdicts of the firmware that may occur

ASSUME EntsAssumption == IsFiniteSet(Ents)

(* mlx5_cmd_do(); mlx5_cmd_exec() or mlx5_cmd_exec_polling(), which differ *)
(* only below cmd_exec(); mlx5_cmd_exec_cb().                              *)
Apis == {"do", "exec", "cb"}

(* The classes of opcodes that mlx5_internal_err_ret_value() tells apart.  *)
Ops == {"teardown", "other", "unknown"}

VARIABLES answered, answer, executed,   \* CmdService
          accepted,         \* the commands cmd_exec() queued
          verdict,          \* the verdict of the firmware, "none" before it
          api, op,          \* the function called, the class of its opcode
          out,              \* status in the caller's outbox
          result,           \* what the caller, or its callback, is told
          pc,               \* where the call is
          num_inflight, inflight_done,      \* struct mlx5_async_ctx
          cleanup           \* mlx5_cmd_cleanup_async_ctx()

service == <<answered, answer, executed>>
ctx == <<num_inflight, inflight_done>>
request == <<api, op>>
vars == <<answered, answer, executed, accepted, verdict, api, op, out, result, pc,
          num_inflight, inflight_done, cleanup, request>>

Refusals == {"EINVAL", "ENOMEM", "EBUSY", "EAGAIN", "ECANCELED"}
Unknown == {"ENXIO", "ETIMEDOUT"}
Service == INSTANCE CmdService

-----------------------------------------------------------------------------
(* Delivery status of a command the firmware could not take, and its errno *)
deliv_status_to_err ==
    [DELIV_TOKEN |-> "EBADR", DELIV_ALIGN |-> "EFAULT",
     DELIV_LENGTH |-> "ENOMSG", DELIV_FW |-> "EIO", DELIV_OTHER |-> "EINVAL"]

(* Status in the outbox of an executed command, and its errno.             *)
cmd_status_to_err ==
    [OK |-> "0", INT_ERR |-> "EIO", BAD_PARAM |-> "EINVAL", RES_BUSY |-> "EBUSY",
     LIM |-> "ENOMEM", NO_RES |-> "EAGAIN", ABORTED |-> "EIO"]

Delivery == DOMAIN deliv_status_to_err
Statuses == DOMAIN cmd_status_to_err

Errnos == {"0", "EIO", "EINVAL", "EBUSY", "ENOMEM", "EAGAIN", "EBADR", "EFAULT",
           "ENOMSG", "ENXIO", "ETIMEDOUT", "ECANCELED", "EREMOTEIO", "ENOLINK"}

ASSUME VerdictsAssumption == Verdicts \subseteq Delivery \cup (Statuses \ {"ABORTED"})

(* -EREMOTEIO is kept for an outbox whose status is not OK.                *)
cmd_status_err(err, status) ==
    CASE err = "EREMOTEIO"                 -> "EIO"
      [] err = "0" /\ status # "OK"        -> "EREMOTEIO"
      [] OTHER                             -> err

(* What a command that was aborted with the device is made to return.      *)
mlx5_internal_err_ret_value(opcode) ==
    CASE opcode = "teardown" -> [err |-> "0", status |-> "OK"]
      [] opcode = "other"    -> [err |-> "ENOLINK", status |-> "ABORTED"]
      [] opcode = "unknown"  -> [err |-> "EINVAL", status |-> "OK"]

mlx5_cmd_check_Remote(opcode, err, status) ==   \* mutant: -EREMOTEIO not translated
    IF err = "ENXIO"
      THEN mlx5_internal_err_ret_value(opcode)
      ELSE [err |-> err, status |-> status]

(* The errno and the status left in the outbox.                            *)
mlx5_cmd_check(opcode, err, status) ==
    IF err = "ENXIO"
      THEN mlx5_internal_err_ret_value(opcode)
      ELSE [err |-> IF err \in {"EREMOTEIO", "0"} THEN cmd_status_to_err[status] ELSE err,
            status |-> status]

(* cmd_exec()'s own errno for answer r: the verdict, if the command came   *)
(* back from the firmware.  Only then is the outbox copied.                *)
ExecErr(e, r) ==
    IF r # "OK" THEN r
    ELSE IF verdict[e] \in Delivery THEN deliv_status_to_err[verdict[e]] ELSE "0"

OutAfter(e, r) == IF ExecErr(e, r) = "0" THEN verdict[e] ELSE out[e]

-----------------------------------------------------------------------------
Init ==
    /\ Service!Init
    /\ accepted = {}
    /\ verdict = [e \in Ents |-> "none"]
    /\ api = [e \in Ents |-> "none"]  /\ op = [e \in Ents |-> "other"]
    /\ out = [e \in Ents |-> "OK"]
    /\ result = [e \in Ents |-> "none"]
    /\ pc = [e \in Ents |-> "idle"]
    /\ num_inflight = 1  /\ inflight_done = FALSE
    /\ cleanup = "no"

Goto(e, l) == pc' = [pc EXCEPT ![e] = l]

-----------------------------------------------------------------------------
(* Below: cmd_exec() and the firmware.                                     *)

Accept(e) ==
    /\ pc[e] = "exec"
    /\ accepted' = accepted \cup {e}
    /\ Goto(e, "queued")
    /\ UNCHANGED <<service, verdict, out, result, ctx, cleanup, request>>

(* The firmware takes the command, also after a timeout or an abort.       *)
Firmware(e) ==
    /\ e \in accepted
    /\ Service!Execute(e)
    /\ \E v \in Verdicts : verdict' = [verdict EXCEPT ![e] = v]
    /\ UNCHANGED <<accepted, out, result, pc, ctx, cleanup, request>>

-----------------------------------------------------------------------------
(* The calls that wait.                                                    *)

(* The buffer for the outbox holds zeros (status OK) or an older outbox.   *)
OutHolds(e) == \E s \in {"OK", "INT_ERR"} : out' = [out EXCEPT ![e] = s]

Call(e) ==
    /\ pc[e] = "idle"
    /\ \E a \in Apis \ {"cb"} : api' = [api EXCEPT ![e] = a]
    /\ \E o \in Ops : op' = [op EXCEPT ![e] = o]
    /\ OutHolds(e)
    /\ Goto(e, "exec")
    /\ UNCHANGED <<service, accepted, verdict, result, ctx, cleanup>>

(* cmd_exec() returns, refused (from "exec") or answered, and the result   *)
(* is translated.                                                          *)
Return(e, r) ==
    /\ api[e] # "cb"
    /\ \/ pc[e] = "exec" /\ r \in {"ENXIO", "ENOMEM"}
       \/ pc[e] = "queued"
    /\ Service!Answer(e, r)
    /\ LET err == cmd_status_err(ExecErr(e, r), OutAfter(e, r))
           checked == IF api[e] = "do"
                        THEN [err |-> err, status |-> OutAfter(e, r)]
                        ELSE mlx5_cmd_check(op[e], err, OutAfter(e, r))
       IN  /\ result' = [result EXCEPT ![e] = checked.err]
           /\ out' = [out EXCEPT ![e] = checked.status]
    /\ Goto(e, "done")
    /\ UNCHANGED <<accepted, verdict, ctx, cleanup, request>>

-----------------------------------------------------------------------------
(* mlx5_cmd_exec_cb() and its callback.                                    *)

Counts_Always(n) == TRUE        \* mutant: atomic_inc()

(* atomic_inc_not_zero(): nothing is counted any more once it is zero.     *)
Counts(n) == n # 0

(* Callers must not come during or after the cleanup; a call that comes    *)
(* while it waits is modelled, one with a context that is gone is not.     *)
mlx5_cmd_exec_cb(e) ==
    /\ pc[e] = "idle"
    /\ cleanup # "returned"
    /\ api' = [api EXCEPT ![e] = "cb"]
    /\ \/ /\ Counts(num_inflight)
          /\ num_inflight' = num_inflight + 1
          /\ Goto(e, "exec")
          /\ UNCHANGED result
       \/ /\ ~Counts(num_inflight)
          /\ result' = [result EXCEPT ![e] = "EIO"]
          /\ Goto(e, "done")
          /\ UNCHANGED num_inflight
    /\ OutHolds(e)
    /\ UNCHANGED <<service, accepted, verdict, op, inflight_done, cleanup>>

(* cmd_exec() fails: no callback will come.                                *)
Refused(e) ==
    /\ api[e] = "cb"  /\ pc[e] = "exec"
    /\ \E r \in {"ENXIO", "EINVAL", "ENOMEM"} :
           /\ Service!Answer(e, r)
           /\ result' = [result EXCEPT ![e] = r]
    /\ Goto(e, "uncount")
    /\ UNCHANGED <<accepted, verdict, out, ctx, cleanup, request>>

mlx5_cmd_exec_cb_handler_Early(e, r) ==     \* mutant: counted down first
    /\ api[e] = "cb"
    /\ \/ /\ pc[e] = "queued"
          /\ num_inflight' = num_inflight - 1
          /\ inflight_done' = (inflight_done \/ num_inflight = 1)
          /\ Goto(e, "called")
          /\ UNCHANGED <<service, out, result>>
       \/ /\ pc[e] = "called"
          /\ Service!Answer(e, r)
          /\ out' = [out EXCEPT ![e] = OutAfter(e, r)]
          /\ result' = [result EXCEPT ![e] = cmd_status_err(ExecErr(e, r), OutAfter(e, r))]
          /\ Goto(e, "done")
          /\ UNCHANGED ctx
    /\ UNCHANGED <<accepted, verdict, cleanup, request>>

(* mlx5_cmd_exec_cb_handler() up to the return of the user's callback.     *)
mlx5_cmd_exec_cb_handler(e, r) ==
    /\ api[e] = "cb"  /\ pc[e] = "queued"
    /\ Service!Answer(e, r)
    /\ out' = [out EXCEPT ![e] = OutAfter(e, r)]
    /\ result' = [result EXCEPT ![e] = cmd_status_err(ExecErr(e, r), OutAfter(e, r))]
    /\ Goto(e, "uncount")
    /\ UNCHANGED <<accepted, verdict, ctx, cleanup, request>>

Uncount_NotRefused(e) ==    \* mutant: a refused call stays counted
    /\ pc[e] = "uncount"
    /\ num_inflight' = IF e \in accepted THEN num_inflight - 1 ELSE num_inflight
    /\ Goto(e, IF num_inflight = 1 THEN "wake" ELSE "done")
    /\ UNCHANGED <<service, accepted, verdict, out, result, inflight_done, cleanup, request>>

(* atomic_dec_and_test() of the handler and of a refused call.             *)
Uncount(e) ==
    /\ pc[e] = "uncount"
    /\ num_inflight' = num_inflight - 1
    /\ Goto(e, IF num_inflight = 1 THEN "wake" ELSE "done")
    /\ UNCHANGED <<service, accepted, verdict, out, result, inflight_done, cleanup, request>>

Wake(e) ==
    /\ pc[e] = "wake"
    /\ inflight_done' = TRUE
    /\ Goto(e, "done")
    /\ UNCHANGED <<service, accepted, verdict, out, result, num_inflight, cleanup, request>>

-----------------------------------------------------------------------------
(* mlx5_cmd_cleanup_async_ctx()                                            *)

CleanupStart_NoDec ==           \* mutant: the initial count is kept
    /\ cleanup = "no"
    /\ cleanup' = IF num_inflight = 1 THEN "returned" ELSE "waiting"
    /\ UNCHANGED <<service, accepted, verdict, out, result, pc, ctx, request>>

CleanupStart ==
    /\ cleanup = "no"
    /\ num_inflight' = num_inflight - 1
    /\ cleanup' = IF num_inflight = 1 THEN "returned" ELSE "waiting"
    /\ UNCHANGED <<service, accepted, verdict, out, result, pc, inflight_done, request>>

CleanupWoken ==
    /\ cleanup = "waiting"  /\ inflight_done
    /\ cleanup' = "returned"
    /\ UNCHANGED <<service, accepted, verdict, out, result, pc, ctx, request>>

Cleanup == CleanupStart \/ CleanupWoken

-----------------------------------------------------------------------------
Answers == Refusals \cup Unknown \cup {"OK"}

Step(e) ==
    \/ Call(e)
    \/ Accept(e)
    \/ \E r \in Answers : Return(e, r)
    \/ mlx5_cmd_exec_cb(e)
    \/ Refused(e)
    \/ \E r \in Answers : mlx5_cmd_exec_cb_handler(e, r)
    \/ Uncount(e)
    \/ Wake(e)

Next == Cleanup \/ \E e \in Ents : Step(e) \/ Firmware(e)

Spec == Init /\ [][Next]_vars

(* A call that was started goes on, and cmd_exec() answers what it         *)
(* accepted (Answered in CmdIf).  No caller has to call, but the context   *)
(* is cleaned up in the end.                                               *)
FairSpec ==
    /\ Spec
    /\ WF_vars(Cleanup)
    /\ \A e \in Ents : WF_vars(pc[e] # "idle" /\ Step(e))

-----------------------------------------------------------------------------
(* Callers counted in num_inflight.                                        *)
Counted == {e \in Ents : api[e] = "cb" /\ pc[e] \in {"exec", "queued", "uncount"}}

TypeOK ==
    /\ answered \subseteq Ents  /\ executed \subseteq Ents  /\ accepted \subseteq Ents
    /\ answer \in [Ents -> Answers \cup {"none"}]
    /\ verdict \in [Ents -> Verdicts \cup {"none"}]
    /\ api \in [Ents -> Apis \cup {"none"}]  /\ op \in [Ents -> Ops]
    /\ out \in [Ents -> Statuses]  /\ result \in [Ents -> Errnos \cup {"none"}]
    /\ pc \in [Ents -> {"idle", "exec", "queued", "uncount", "wake", "done"}]
    /\ num_inflight \in Int  /\ inflight_done \in BOOLEAN
    /\ cleanup \in {"no", "waiting", "returned"}

(* num_inflight is one for the context that is not being cleaned up and    *)
(* one for each counted caller: mlx5_cmd_init_async_ctx() starts at 1,     *)
(* mlx5_cmd_exec_cb() and its handler keep the balance on all paths.       *)
CountExact ==
    num_inflight = Cardinality(Counted) + IF cleanup = "no" THEN 1 ELSE 0

(* The one who counted down to zero wakes the cleanup, and is alone.       *)
WakerAlone ==
    /\ \A e \in Ents : pc[e] = "wake" =>
           /\ api[e] = "cb"  /\ cleanup = "waiting"
           /\ num_inflight = 0  /\ ~inflight_done
    /\ \A e, f \in Ents : pc[e] = "wake" /\ pc[f] = "wake" => e = f
    /\ inflight_done => cleanup # "no" /\ num_inflight = 0
    /\ cleanup = "returned" => num_inflight = 0

(* Every accepted call is on its way, or its callback was called.          *)
CallbackDue ==
    /\ \A e \in Ents : e \in accepted => pc[e] \in {"queued", "uncount", "wake", "done"}
    /\ \A e \in Ents : pc[e] \in {"uncount", "wake"} => api[e] = "cb"
    /\ \A e \in Ents : pc[e] = "idle" <=> api[e] = "none"
    /\ \A e \in Ents : pc[e] \in {"uncount", "wake", "done"} => result[e] # "none"

(* The firmware's verdict is there when the command has been executed; no  *)
(* caller is told anything before it calls.                                *)
VerdictKnown ==
    \A e \in Ents : /\ e \in executed <=> verdict[e] # "none"
                    /\ pc[e] = "idle" => result[e] = "none"

(* The inductive invariant of the context.                                 *)
CtxInv == TypeOK /\ CountExact /\ WakerAlone /\ CallbackDue /\ VerdictKnown

(* Once mlx5_cmd_cleanup_async_ctx() has returned, the callbacks of all    *)
(* calls that cmd_exec() accepted have been called, and nobody who counted *)
(* in the context is still going to touch it.                              *)
CleanedUp ==
    cleanup = "returned" =>
        \A e \in Ents : api[e] = "cb" =>
            /\ pc[e] = "done"
            /\ e \in accepted => result[e] # "none"

(* A context that reached zero stays there: a call during the cleanup      *)
(* cannot revive it.                                                       *)
ZeroIsFinal == [][num_inflight = 0 => num_inflight' = 0]_num_inflight

(* Whoever is told 0 has a command that the firmware executed with status  *)
(* OK, or a teardown command that mlx5_cmd_check() lets succeed on a dead  *)
(* device; -EREMOTEIO means that the outbox holds the firmware's status.   *)
ResultHonest ==
    \A e \in Ents :
        /\ result[e] = "0" =>
               \/ verdict[e] = "OK"
               \/ /\ answer[e] = "ENXIO"  /\ op[e] = "teardown"
                  /\ api[e] = "exec"
        /\ result[e] = "EREMOTEIO" =>
               /\ api[e] \in {"do", "cb"}
               /\ verdict[e] \in Statuses \ {"OK"}  /\ out[e] = verdict[e]

(* The cleanup returns.                                                    *)
CleanupEnds == <>(cleanup = "returned")
=============================================================================
