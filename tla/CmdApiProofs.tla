---------------------------- MODULE CmdApiProofs ---------------------------
(***************************************************************************)
(* Proofs about CmdApi, for any finite set of calls: the counter of the    *)
(* asynchronous context is exact, so the cleanup does not return while a   *)
(* callback is due, a context at zero stays there, and nobody is told of a *)
(* success that did not happen.                                            *)
(***************************************************************************)
EXTENDS CmdApi, FiniteSetTheorems, TLAPS

-----------------------------------------------------------------------------
(* The set of counted calls is finite.                                     *)
LEMMA CountedFinite == IsFiniteSet(Counted) /\ Cardinality(Counted) \in Nat
  <1>1. Counted \subseteq Ents BY DEF Counted
  <1> QED BY <1>1, EntsAssumption, FS_Subset, FS_CardinalityType

(* A call that joins the counted ones adds one to their number.            *)
LEMMA CountedJoins ==
  ASSUME NEW e \in Ents, e \notin Counted, Counted' = Counted \cup {e}
  PROVE  Cardinality(Counted)' = Cardinality(Counted) + 1
  BY CountedFinite, FS_AddElement

(* A counted call that leaves takes one from it.                           *)
LEMMA CountedLeaves ==
  ASSUME NEW e \in Ents, e \in Counted, Counted' = Counted \ {e}
  PROVE  Cardinality(Counted)' = Cardinality(Counted) - 1
  BY CountedFinite, FS_RemoveElement

(* The codes of delivery errors and of outbox statuses.                    *)
LEMMA Codes ==
  /\ Delivery = {"DELIV_TOKEN", "DELIV_ALIGN", "DELIV_LENGTH", "DELIV_FW", "DELIV_OTHER"}
  /\ Statuses = {"OK", "INT_ERR", "BAD_PARAM", "RES_BUSY", "LIM", "NO_RES", "ABORTED"}
  /\ "none" \notin Verdicts
  <1>1. Delivery = {"DELIV_TOKEN", "DELIV_ALIGN", "DELIV_LENGTH", "DELIV_FW", "DELIV_OTHER"}
    BY DEF Delivery, deliv_status_to_err
  <1>2. Statuses = {"OK", "INT_ERR", "BAD_PARAM", "RES_BUSY", "LIM", "NO_RES", "ABORTED"}
    BY DEF Statuses, cmd_status_to_err
  <1> QED BY <1>1, <1>2, VerdictsAssumption

(* deliv_status_to_err() never turns a delivery error into success.        *)
LEMMA DeliveryFails ==
  ASSUME NEW d \in Delivery
  PROVE  deliv_status_to_err[d] \in {"EBADR", "EFAULT", "ENOMSG", "EIO", "EINVAL"}
  BY Codes DEF deliv_status_to_err

(* cmd_status_to_err() is 0 for status OK alone, and is never -EREMOTEIO.  *)
LEMMA StatusErr ==
  ASSUME NEW s \in Statuses
  PROVE  /\ cmd_status_to_err[s] = "0" => s = "OK"
         /\ cmd_status_to_err[s] \in Errnos \ {"EREMOTEIO"}
  BY Codes DEF cmd_status_to_err, Errnos

(* cmd_exec() reports 0 only for a command that came back from the         *)
(* firmware, and then the outbox holds the firmware's status.              *)
LEMMA ExecErrZero ==
  ASSUME CtxInv, NEW e \in Ents, NEW r \in Answers, r = "OK" => e \in executed
  PROVE  /\ ExecErr(e, r) \in Errnos \ {"EREMOTEIO"}
         /\ ExecErr(e, r) = "0" => verdict[e] \in Statuses \ {"ABORTED"}
         /\ OutAfter(e, r) \in Statuses
  <1>1. CASE r # "OK"
    BY <1>1 DEF ExecErr, OutAfter, CtxInv, TypeOK, Answers, Refusals, Unknown, Errnos
  <1>2. CASE r = "OK"
    <2>1. verdict[e] \in Delivery \cup (Statuses \ {"ABORTED"})
      BY <1>2, VerdictsAssumption DEF CtxInv, VerdictKnown, TypeOK
    <2>2. verdict[e] \in Delivery => ExecErr(e, r) \in {"EBADR", "EFAULT", "ENOMSG", "EIO", "EINVAL"}
      BY <1>2, DeliveryFails DEF ExecErr
    <2>3. verdict[e] \notin Delivery => ExecErr(e, r) = "0"
      BY <1>2 DEF ExecErr
    <2> QED BY <2>1, <2>2, <2>3 DEF OutAfter, CtxInv, TypeOK, Errnos
  <1> QED BY <1>1, <1>2

(* mlx5_cmd_init_async_ctx() establishes the invariant.                    *)
LEMMA CtxInit == Init => CtxInv
  <1> SUFFICES ASSUME Init PROVE CtxInv OBVIOUS
  <1>1. Counted = {} BY DEF Init, Counted
  <1>2. CountExact BY <1>1, FS_EmptySet DEF Init, CountExact
  <1>3. TypeOK
    <2>1. answer \in [Ents -> Answers \cup {"none"}] /\ verdict \in [Ents -> Verdicts \cup {"none"}]
      BY DEF Init, Service!Init
    <2>2. api \in [Ents -> Apis \cup {"none"}] /\ op \in [Ents -> Ops]
      BY DEF Init, Ops
    <2>3. out \in [Ents -> Statuses] /\ result \in [Ents -> Errnos \cup {"none"}]
      BY Codes DEF Init
    <2>4. answered \subseteq Ents /\ executed \subseteq Ents /\ accepted \subseteq Ents
      BY DEF Init, Service!Init
    <2>5. inflight_done \in BOOLEAN BY Zenon DEF Init
    <2> QED BY <2>1, <2>2, <2>3, <2>4, <2>5 DEF Init, TypeOK
  <1>4. WakerAlone /\ CallbackDue /\ VerdictKnown
    BY DEF Init, Service!Init, WakerAlone, CallbackDue, VerdictKnown
  <1> QED BY <1>2, <1>3, <1>4 DEF CtxInv

-----------------------------------------------------------------------------
(* cmd_exec() queues a command.                                            *)
LEMMA AcceptStep ==
  ASSUME CtxInv, NEW e \in Ents, Accept(e)
  PROVE  CtxInv'
  <1> USE DEF CtxInv, TypeOK, Accept, Goto, service, ctx, request
  <1>1. Counted' = Counted BY DEF Counted
  <1>2. CountExact' BY <1>1 DEF CountExact
  <1>3. TypeOK' BY Zenon
  <1>4. WakerAlone' /\ CallbackDue' /\ VerdictKnown'
    BY DEF WakerAlone, CallbackDue, VerdictKnown
  <1> QED BY <1>2, <1>3, <1>4

(* The firmware reaches its verdict.                                       *)
LEMMA FirmwareStep ==
  ASSUME CtxInv, NEW e \in Ents, Firmware(e)
  PROVE  CtxInv'
  <1> USE DEF CtxInv, TypeOK, Firmware, Service!Execute, ctx, request
  <1>1. Counted' = Counted BY DEF Counted
  <1>2. CountExact' BY <1>1 DEF CountExact
  <1>3. TypeOK' OBVIOUS
  <1>4. WakerAlone' /\ CallbackDue' BY DEF WakerAlone, CallbackDue
  <1>5. VerdictKnown' BY Codes DEF VerdictKnown
  <1> QED BY <1>2, <1>3, <1>4, <1>5

(* A call that waits begins.                                               *)
LEMMA CallStep ==
  ASSUME CtxInv, NEW e \in Ents, Call(e)
  PROVE  CtxInv'
  <1> USE DEF CtxInv, TypeOK, Call, Goto, OutHolds, service, ctx
  <1>1. Counted' = Counted BY DEF Counted
  <1>2. CountExact' BY <1>1 DEF CountExact
  <1>3. TypeOK' BY Codes
  <1>4. WakerAlone' /\ CallbackDue' /\ VerdictKnown'
    BY DEF WakerAlone, CallbackDue, VerdictKnown, Apis
  <1> QED BY <1>2, <1>3, <1>4

(* cmd_status_err() returns an errno.                                      *)
LEMMA StatusErrType ==
  ASSUME NEW err \in Errnos, NEW s \in Statuses
  PROVE  cmd_status_err(err, s) \in Errnos
  BY DEF cmd_status_err, Errnos

(* mlx5_cmd_check() returns one too, and leaves a status in the outbox.    *)
LEMMA CheckType ==
  ASSUME NEW o \in Ops, NEW err \in Errnos, NEW s \in Statuses
  PROVE  /\ mlx5_cmd_check(o, err, s).err \in Errnos
         /\ mlx5_cmd_check(o, err, s).status \in Statuses
  <1>1. CASE err = "ENXIO"
    BY <1>1, Codes DEF mlx5_cmd_check, mlx5_internal_err_ret_value, Ops, Errnos
  <1>2. CASE err # "ENXIO"
    BY <1>2, StatusErr DEF mlx5_cmd_check
  <1> QED BY <1>1, <1>2

(* A call that waits returns.                                              *)
LEMMA ReturnStep ==
  ASSUME CtxInv, NEW e \in Ents, NEW r \in Answers, Return(e, r)
  PROVE  CtxInv'
  <1> USE DEF CtxInv, TypeOK, Return, Goto, Service!Answer, ctx, request
  <1>1. Counted' = Counted BY DEF Counted
  <1>2. CountExact' BY <1>1 DEF CountExact
  <1>3. OutAfter(e, r) \in Statuses BY ExecErrZero
  <1>4. cmd_status_err(ExecErr(e, r), OutAfter(e, r)) \in Errnos
    BY <1>3, ExecErrZero, StatusErrType
  <1>5. TypeOK'
    BY <1>3, <1>4, CheckType
  <1>6. result'[e] # "none"
    BY <1>3, <1>4, CheckType DEF Errnos
  <1>7. WakerAlone' /\ CallbackDue' /\ VerdictKnown'
    BY <1>6 DEF WakerAlone, CallbackDue, VerdictKnown
  <1> QED BY <1>2, <1>5, <1>7

(* mlx5_cmd_exec_cb() counts itself, or is turned away.                    *)
LEMMA ExecCbStep ==
  ASSUME CtxInv, NEW e \in Ents, mlx5_cmd_exec_cb(e)
  PROVE  CtxInv'
  <1> USE DEF CtxInv, TypeOK, mlx5_cmd_exec_cb, Goto, OutHolds, service, Counts
  <1>1. TypeOK'
    <2>1. api' \in [Ents -> Apis \cup {"none"}] BY DEF Apis
    <2>2. out' \in [Ents -> Statuses] BY Codes
    <2>3. result' \in [Ents -> Errnos \cup {"none"}] BY DEF Errnos
    <2>4. num_inflight' \in Int
      /\ pc' \in [Ents -> {"idle", "exec", "queued", "uncount", "wake", "done"}]
      OBVIOUS
    <2> QED BY <2>1, <2>2, <2>3, <2>4
  <1>2. CASE num_inflight # 0
    <2>1. e \notin Counted /\ Counted' = Counted \cup {e} BY <1>2 DEF Counted
    <2>2. CountExact'
      <3>1. Cardinality(Counted)' = Cardinality(Counted) + 1 BY <2>1, CountedJoins
      <3> QED BY <1>2, <3>1, CountedFinite DEF CountExact
    <2>3. WakerAlone' BY <1>2 DEF WakerAlone
    <2>4. CallbackDue' /\ VerdictKnown' BY <1>2 DEF CallbackDue, VerdictKnown
    <2> QED BY <1>1, <2>2, <2>3, <2>4
  <1>3. CASE num_inflight = 0
    <2>1. Counted' = Counted BY <1>3 DEF Counted
    <2>2. CountExact' BY <1>3, <2>1 DEF CountExact
    <2>3. WakerAlone' BY <1>3 DEF WakerAlone
    <2>4. CallbackDue' /\ VerdictKnown' BY <1>3 DEF CallbackDue, VerdictKnown
    <2> QED BY <1>1, <2>2, <2>3, <2>4
  <1> QED BY <1>2, <1>3

(* cmd_exec() refuses a call of mlx5_cmd_exec_cb().                        *)
LEMMA RefusedStep ==
  ASSUME CtxInv, NEW e \in Ents, Refused(e)
  PROVE  CtxInv'
  <1> USE DEF CtxInv, TypeOK, Refused, Goto, Service!Answer, ctx, request
  <1>1. Counted' = Counted BY DEF Counted
  <1>2. CountExact' BY <1>1 DEF CountExact
  <1>3. TypeOK' BY DEF Answers, Refusals, Unknown, Errnos
  <1>4. WakerAlone' /\ CallbackDue' /\ VerdictKnown'
    BY DEF WakerAlone, CallbackDue, VerdictKnown
  <1> QED BY <1>2, <1>3, <1>4

(* mlx5_cmd_exec_cb_handler() calls the user's callback.                   *)
LEMMA HandlerStep ==
  ASSUME CtxInv, NEW e \in Ents, NEW r \in Answers, mlx5_cmd_exec_cb_handler(e, r)
  PROVE  CtxInv'
  <1> USE DEF CtxInv, TypeOK, mlx5_cmd_exec_cb_handler, Goto, Service!Answer, ctx, request
  <1>1. Counted' = Counted BY DEF Counted
  <1>2. CountExact' BY <1>1 DEF CountExact
  <1>3. OutAfter(e, r) \in Statuses BY ExecErrZero
  <1>4. cmd_status_err(ExecErr(e, r), OutAfter(e, r)) \in Errnos
    BY <1>3, ExecErrZero, StatusErrType
  <1>5. TypeOK' BY <1>3, <1>4
  <1>6. WakerAlone' /\ CallbackDue' /\ VerdictKnown'
    BY <1>4 DEF Errnos, WakerAlone, CallbackDue, VerdictKnown
  <1> QED BY <1>2, <1>5, <1>6

(* atomic_dec_and_test(): the last one goes on to wake the cleanup.        *)
LEMMA UncountStep ==
  ASSUME CtxInv, NEW e \in Ents, Uncount(e)
  PROVE  CtxInv'
  <1> USE DEF CtxInv, TypeOK, Uncount, Goto, service, request
  <1>1. api[e] = "cb" BY DEF CallbackDue
  <1>2. e \in Counted /\ Counted' = Counted \ {e} BY <1>1 DEF Counted
  <1>3. CountExact'
    <2>1. Cardinality(Counted)' = Cardinality(Counted) - 1 BY <1>2, CountedLeaves
    <2> QED BY <2>1, CountedFinite DEF CountExact
  <1>4. TypeOK' OBVIOUS
  <1>5. Cardinality(Counted) >= 1
    BY <1>2, CountedFinite, FS_EmptySet
  <1>6. WakerAlone'
    BY <1>1, <1>5, CountedFinite DEF WakerAlone, CountExact
  <1>7. CallbackDue' /\ VerdictKnown' BY <1>1 DEF CallbackDue, VerdictKnown
  <1> QED BY <1>3, <1>4, <1>6, <1>7

(* complete(&ctx->inflight_done)                                           *)
LEMMA WakeStep ==
  ASSUME CtxInv, NEW e \in Ents, Wake(e)
  PROVE  CtxInv'
  <1> USE DEF CtxInv, TypeOK, Wake, Goto, service, request
  <1>1. Counted' = Counted BY DEF Counted
  <1>2. CountExact' BY <1>1 DEF CountExact
  <1>3. TypeOK' OBVIOUS
  <1>4. WakerAlone' /\ CallbackDue' /\ VerdictKnown'
    BY DEF WakerAlone, CallbackDue, VerdictKnown
  <1> QED BY <1>2, <1>3, <1>4

(* mlx5_cmd_cleanup_async_ctx()                                            *)
LEMMA CleanupStep ==
  ASSUME CtxInv, Cleanup
  PROVE  CtxInv'
  <1> USE DEF CtxInv, TypeOK, Cleanup, CleanupStart, CleanupWoken, service, ctx, request
  <1>1. Counted' = Counted BY DEF Counted
  <1>2. CountExact' BY <1>1, CountedFinite DEF CountExact
  <1>3. TypeOK' OBVIOUS
  <1>4. WakerAlone' /\ CallbackDue' /\ VerdictKnown'
    BY DEF WakerAlone, CallbackDue, VerdictKnown
  <1> QED BY <1>2, <1>3, <1>4

-----------------------------------------------------------------------------
(* Every step keeps the invariant.                                         *)
LEMMA CtxNext ==
  ASSUME CtxInv, [Next]_vars
  PROVE  CtxInv'
  <1>1. CASE Cleanup BY <1>1, CleanupStep
  <1>2. ASSUME NEW e \in Ents, Step(e) PROVE CtxInv'
    BY <1>2, CallStep, AcceptStep, ReturnStep, ExecCbStep, RefusedStep,
       HandlerStep, UncountStep, WakeStep DEF Step
  <1>3. ASSUME NEW e \in Ents, Firmware(e) PROVE CtxInv' BY <1>3, FirmwareStep
  <1>4. CASE UNCHANGED vars
    BY <1>4 DEF CtxInv, TypeOK, CountExact, WakerAlone, CallbackDue, VerdictKnown,
                Counted, vars
  <1> QED BY <1>1, <1>2, <1>3, <1>4 DEF Next

(* The counter is exact and the waker alone, whatever calls come when.     *)
THEOREM ContextInvariant == Spec => []CtxInv
  <1>1. Init => CtxInv BY CtxInit
  <1>2. CtxInv /\ [Next]_vars => CtxInv' BY CtxNext
  <1> QED BY <1>1, <1>2, PTL DEF Spec

(* Upon return of mlx5_cmd_cleanup_async_ctx() all callbacks given to      *)
(* mlx5_cmd_exec_cb() and accepted have been called, and no counted caller *)
(* touches the context any more (cmd.c:2137).                              *)
THEOREM CleanupComplete == Spec => []CleanedUp
  <1>1. CtxInv => CleanedUp
    <2> SUFFICES ASSUME CtxInv, cleanup = "returned", NEW e \in Ents, api[e] = "cb"
                 PROVE  /\ pc[e] = "done"
                        /\ e \in accepted => result[e] # "none"
      BY DEF CleanedUp
    <2> USE DEF CtxInv, TypeOK
    <2>1. Cardinality(Counted) = 0 BY CountedFinite DEF CountExact, WakerAlone
    <2>2. e \notin Counted BY <2>1, CountedFinite, FS_EmptySet
    <2>3. pc[e] # "wake" BY DEF WakerAlone
    <2>4. pc[e] # "idle" BY DEF CallbackDue
    <2>5. pc[e] = "done" BY <2>2, <2>3, <2>4 DEF Counted
    <2> QED BY <2>5 DEF CallbackDue
  <1> QED BY <1>1, ContextInvariant, PTL

(* A context that has come to zero is not revived.                         *)
THEOREM ZeroStays == Spec => ZeroIsFinal
  <1>1. CtxInv /\ [Next]_vars => [num_inflight = 0 => num_inflight' = 0]_num_inflight
    <2> SUFFICES ASSUME CtxInv, Next, num_inflight = 0
                 PROVE  num_inflight' = 0
      BY DEF vars
    <2>1. CASE Cleanup
      BY <2>1, CountedFinite DEF Cleanup, CleanupStart, CleanupWoken, ctx, CtxInv, CountExact
    <2>2. ASSUME NEW e \in Ents, Uncount(e) PROVE FALSE
      <3>1. e \in Counted BY <2>2 DEF Uncount, Counted, CtxInv, CallbackDue
      <3>2. Cardinality(Counted) # 0 BY <3>1, CountedFinite, FS_EmptySet
      <3> QED BY <3>2, CountedFinite DEF CtxInv, CountExact
    <2>3. ASSUME NEW e \in Ents, Step(e) PROVE num_inflight' = 0
      BY <2>2, <2>3 DEF Step, Call, Accept, Return, mlx5_cmd_exec_cb, Counts, Refused,
                        mlx5_cmd_exec_cb_handler, Wake, ctx
    <2>4. ASSUME NEW e \in Ents, Firmware(e) PROVE num_inflight' = 0
      BY <2>4 DEF Firmware, ctx
    <2> QED BY <2>1, <2>3, <2>4 DEF Next
  <1> QED BY <1>1, ContextInvariant, PTL DEF Spec, ZeroIsFinal

-----------------------------------------------------------------------------
(* What ResultHonest says of one call.                                     *)
Honest(e) ==
    /\ result[e] = "0" =>
           \/ verdict[e] = "OK"
           \/ answer[e] = "ENXIO" /\ op[e] = "teardown" /\ api[e] = "exec"
    /\ result[e] = "EREMOTEIO" =>
           /\ api[e] \in {"do", "cb"}
           /\ verdict[e] \in Statuses \ {"OK"}  /\ out[e] = verdict[e]

(* cmd_status_err() keeps 0 and -EREMOTEIO apart.                          *)
LEMMA StatusErrHonest ==
  ASSUME CtxInv, NEW e \in Ents, NEW r \in Answers, r = "OK" => e \in executed
  PROVE  LET err == cmd_status_err(ExecErr(e, r), OutAfter(e, r))
         IN  /\ err = "0" => verdict[e] = "OK" /\ OutAfter(e, r) = "OK"
             /\ err = "EREMOTEIO" => /\ verdict[e] \in Statuses \ {"OK"}
                                     /\ OutAfter(e, r) = verdict[e]
             /\ err = "ENXIO" => r = "ENXIO"
  <1>1. ExecErr(e, r) = "ENXIO" => r = "ENXIO"
    <2>1. CASE r = "OK"
      <3>1. verdict[e] \in Delivery => ExecErr(e, r) # "ENXIO"
        BY <2>1, DeliveryFails DEF ExecErr
      <3> QED BY <2>1, <3>1 DEF ExecErr
    <2> QED BY <2>1 DEF ExecErr
  <1> QED BY <1>1, ExecErrZero DEF cmd_status_err, OutAfter

(* mlx5_cmd_check() returns 0 only as cmd_status_err() left it or for an   *)
(* aborted teardown, and never -EREMOTEIO.                                 *)
LEMMA CheckHonest ==
  ASSUME NEW o \in Ops, NEW err \in Errnos, NEW s \in Statuses
  PROVE  /\ mlx5_cmd_check(o, err, s).err # "EREMOTEIO"
         /\ mlx5_cmd_check(o, err, s).err = "0" =>
                \/ err = "ENXIO" /\ o = "teardown"
                \/ err \in {"0", "EREMOTEIO"} /\ s = "OK"
  <1>1. CASE err = "ENXIO"
    BY <1>1 DEF mlx5_cmd_check, mlx5_internal_err_ret_value, Ops
  <1>2. CASE err # "ENXIO" BY <1>2, StatusErr DEF mlx5_cmd_check
  <1> QED BY <1>1, <1>2

(* A call that waits is told the truth.                                    *)
LEMMA ReturnHonest ==
  ASSUME CtxInv, NEW e \in Ents, NEW r \in Answers, Return(e, r)
  PROVE  Honest(e)'
  <1> DEFINE err == cmd_status_err(ExecErr(e, r), OutAfter(e, r))
  <1> USE DEF CtxInv, TypeOK, Return, Service!Answer, request
  <1>1. r = "OK" => e \in executed OBVIOUS
  <1>2. OutAfter(e, r) \in Statuses BY <1>1, ExecErrZero
  <1>3. err \in Errnos BY <1>1, <1>2, ExecErrZero, StatusErrType
  <1>4. /\ err = "0" => verdict[e] = "OK" /\ OutAfter(e, r) = "OK"
        /\ err = "EREMOTEIO" => verdict[e] \in Statuses \ {"OK"} /\ OutAfter(e, r) = verdict[e]
        /\ err = "ENXIO" => r = "ENXIO"
    BY <1>1, StatusErrHonest
  <1> HIDE DEF err
  <1>5. CASE api[e] = "do"
    <2>1. result'[e] = err /\ out'[e] = OutAfter(e, r) BY <1>5 DEF err
    <2> QED BY <1>4, <1>5, <2>1 DEF Honest
  <1>6. CASE api[e] # "do"
    <2>1. result'[e] = mlx5_cmd_check(op[e], err, OutAfter(e, r)).err BY <1>6 DEF err
    <2>2. result'[e] # "EREMOTEIO" BY <2>1, <1>2, <1>3, CheckHonest
    <2>3. ASSUME result'[e] = "0"
          PROVE  verdict[e] = "OK" \/ (r = "ENXIO" /\ op[e] = "teardown")
      <3>1. \/ err = "ENXIO" /\ op[e] = "teardown"
            \/ err \in {"0", "EREMOTEIO"} /\ OutAfter(e, r) = "OK"
        <4>1. op[e] \in Ops OBVIOUS
        <4>2. mlx5_cmd_check(op[e], err, OutAfter(e, r)).err = "0" BY <2>1, <2>3
        <4> QED BY <4>1, <4>2, <1>2, <1>3, CheckHonest
      <3> QED BY <3>1, <1>4
    <2>4. pc[e] \in {"exec", "queued"} OBVIOUS
    <2>5. api[e] = "exec" BY <1>6, <2>4 DEF CallbackDue, Apis
    <2> QED BY <2>2, <2>3, <2>5 DEF Honest
  <1> QED BY <1>5, <1>6

(* A step of e keeps what e is told true.                                  *)
LEMMA StepHonest ==
  ASSUME CtxInv, NEW e \in Ents, Honest(e), Step(e)
  PROVE  Honest(e)'
  <1> USE DEF CtxInv, TypeOK, Goto, Service!Answer, request, service
  <1>1. CASE pc[e] = "idle"
    <2>1. ~(\E r \in Answers : Return(e, r)) BY <1>1 DEF Return
    <2>2. ~(\E r \in Answers : mlx5_cmd_exec_cb_handler(e, r))
      BY <1>1 DEF mlx5_cmd_exec_cb_handler
    <2>3. ~Accept(e) /\ ~Refused(e) /\ ~Uncount(e) /\ ~Wake(e)
      BY <1>1 DEF Accept, Refused, Uncount, Wake
    <2>4. Call(e) \/ mlx5_cmd_exec_cb(e) BY <2>1, <2>2, <2>3 DEF Step
    <2>5. result'[e] \in {"none", "EIO"}
      BY <1>1, <2>4 DEF Call, mlx5_cmd_exec_cb, VerdictKnown
    <2> QED BY <2>5 DEF Honest
  <1>2. CASE \E r \in Answers : Return(e, r) BY <1>2, ReturnHonest
  <1>3. CASE Refused(e) BY <1>3 DEF Refused, Honest
  <1>4. ASSUME NEW r \in Answers, mlx5_cmd_exec_cb_handler(e, r) PROVE Honest(e)'
    <2>1. r = "OK" => e \in executed BY <1>4 DEF mlx5_cmd_exec_cb_handler
    <2> QED BY <1>4, <2>1, StatusErrHonest DEF mlx5_cmd_exec_cb_handler, Honest
  <1>5. CASE Accept(e) \/ Uncount(e) \/ Wake(e)
    BY <1>5 DEF Accept, Uncount, Wake, Honest
  <1> QED BY <1>1, <1>2, <1>3, <1>4, <1>5 DEF Step, Call, mlx5_cmd_exec_cb

(* A step of another call, of the firmware or of the cleanup leaves what e *)
(* is told alone, and does not take the ground from under it.              *)
LEMMA OthersHonest ==
  ASSUME CtxInv, NEW e \in Ents, Honest(e)
  PROVE  /\ Cleanup => Honest(e)'
         /\ \A f \in Ents : Firmware(f) => Honest(e)'
         /\ \A f \in Ents \ {e} : Step(f) => Honest(e)'
  <1> USE DEF CtxInv, TypeOK, request, service
  <1>1. ASSUME Cleanup PROVE Honest(e)'
    BY <1>1 DEF Cleanup, CleanupStart, CleanupWoken, Honest
  <1>2. ASSUME NEW f \in Ents, Firmware(f) PROVE Honest(e)'
    <2>1. f = e => verdict[e] = "none" BY <1>2 DEF Firmware, Service!Execute, VerdictKnown
    <2>2. verdict'[e] = verdict[e] \/ verdict[e] = "none" BY <1>2, <2>1 DEF Firmware
    <2> QED BY <1>2, <2>2, Codes DEF Firmware, Service!Execute, Honest
  <1>3. ASSUME NEW f \in Ents \ {e}, Step(f) PROVE Honest(e)'
    <2>1. /\ result'[e] = result[e]  /\ out'[e] = out[e]  /\ answer'[e] = answer[e]
          /\ api'[e] = api[e]  /\ op'[e] = op[e]  /\ verdict'[e] = verdict[e]
      BY <1>3 DEF Step, Call, OutHolds, Accept, Return, mlx5_cmd_exec_cb, Refused,
                  mlx5_cmd_exec_cb_handler, Uncount, Wake, Service!Answer
    <2> QED BY <2>1 DEF Honest
  <1> QED BY <1>1, <1>2, <1>3

(* Whoever is told 0 has what was asked for; mlx5_cmd_check() alone turns  *)
(* an abort into success, and only for a teardown.                         *)
THEOREM ResultsHonest == Spec => []ResultHonest
  <1>1. Init => ResultHonest BY DEF Init, ResultHonest
  <1>2. CtxInv /\ ResultHonest /\ [Next]_vars => ResultHonest'
    <2> SUFFICES ASSUME CtxInv, ResultHonest, [Next]_vars, NEW e \in Ents
                 PROVE  Honest(e)'
      BY DEF ResultHonest, Honest
    <2>1. Honest(e) BY DEF ResultHonest, Honest
    <2>2. CASE UNCHANGED vars BY <2>1, <2>2 DEF vars, Honest
    <2>3. CASE Next BY <2>1, <2>3, StepHonest, OthersHonest DEF Next
    <2> QED BY <2>2, <2>3
  <1> QED BY <1>1, <1>2, ContextInvariant, PTL DEF Spec
=============================================================================
