-------------------------------- MODULE IbCm --------------------------------
(***************************************************************************)
(* The connection manager of InfiniBand, drivers/infiniband/core/cm.c: how *)
(* two hosts set up, refuse, break and forget connections.                 *)
(*                                                                         *)
(* An element of Act is a struct cm_id_private of the host that connects,  *)
(* one of Pas of the host that listens, made when a REQ comes.  net holds  *)
(* every message that was sent; it may arrive at any time, any number of   *)
(* times, or never, so that sending again changes nothing.  A handler runs *)
(* under the lock of its ID and is one step; the callback of the client    *)
(* is the time from an event's place at the head of the list to its        *)
(* return.                                                                 *)
(***************************************************************************)
EXTENDS Integers, Sequences, FiniteSets

CONSTANTS
    Act, Pas,
    NoId,    \* a communication ID of zero
    Qpn,     \* the number of the QP that each ID connects
    Calls,   \* of each ID: what its client does besides connecting, of Extras
    Faults,  \* "crash": the connecting host restarts; "post": a DREQ cannot be
             \* sent
    Racing   \* a client may destroy an ID whose send has just failed

Ids == Act \cup Pas

(* A client may send a DREQ, a REJ or an MRA, destroy the ID, return an      *)
(* error from its callbacks, and be slow to return from them.                *)
Extras == {"dreq", "rej", "mra", "destroy", "fail", "slow"}

ASSUME IbCmAssumption ==
    /\ Act \cap Pas = {} /\ NoId \notin Ids
    /\ Qpn \in [Ids -> Nat]
    /\ Calls \in [Ids -> SUBSET Extras]
    /\ Faults \subseteq {"crash", "post"}
    /\ Racing \in BOOLEAN

VARIABLES
    id,   \* struct cm_id_private
    net,  \* the messages
    host  \* whether the connecting host has restarted

vars == <<id, net, host>>
-----------------------------------------------------------------------------
States == {"IDLE", "REQ_SENT", "REQ_RCVD", "MRA_REQ_SENT", "MRA_REQ_RCVD",
           "REP_SENT", "REP_RCVD", "MRA_REP_SENT", "MRA_REP_RCVD",
           "ESTABLISHED", "DREQ_SENT", "DREQ_RCVD", "TIMEWAIT"}
Sends == {"REQ", "REP", "DREQ"}   \* those that wait for an answer

Msg(t, i, j) == [type |-> t, src |-> i, dst |-> j, of |-> "none", why |-> "none"]
Rej(i, j, of, why) == [type |-> "REJ", src |-> i, dst |-> j, of |-> of, why |-> why]

(* struct cm_timewait_info while it belongs to the ID. *)
NoInfo == [on |-> FALSE, remote |-> NoId, inId |-> FALSE, inQp |-> FALSE]
Info(r) == [on |-> TRUE, remote |-> r, inId |-> FALSE, inQp |-> FALSE]

NewId == [life |-> "none", state |-> "IDLE", remote |-> NoId, info |-> NoInfo,
          wait |-> {}, est |-> FALSE, msg |-> "none", sends |-> {},
          refcount |-> 0, work |-> 0, err |-> FALSE]

TypeOK ==
    /\ \A i \in Ids :
          /\ id[i].life \in {"none", "live", "dying", "freed", "lost"}
          /\ id[i].state \in States
          /\ id[i].remote \in Ids \cup {NoId}
          /\ id[i].info.remote \in Ids \cup {NoId}
          /\ {id[i].info.on, id[i].info.inId, id[i].info.inQp, id[i].est, id[i].err}
                \subseteq BOOLEAN
          /\ id[i].wait \subseteq Ids \cup {NoId}
          /\ id[i].msg \in Sends \cup {"none"} /\ id[i].sends \subseteq Sends
          /\ id[i].refcount \in 0..4 /\ id[i].work \in 0..7
    /\ \A m \in net : {m.src, m.dst} \subseteq Ids \cup {NoId}
    /\ host \in {"up", "restarted"}

Init ==
    /\ id = [i \in Ids |-> NewId]
    /\ net = {}
    /\ host = "up"
-----------------------------------------------------------------------------
(* HELPERS: x is the struct of an ID *)

(* Mutant: the info stays in the tables of remote IDs and QPs. *)
cm_enter_timewait_Keep(x) ==
    [x EXCEPT !.state = "TIMEWAIT", !.wait = @ \cup {x.info.remote}]

(* The timewait_info leaves the tables (cm_remove_remote()) and becomes a    *)
(* delayed work, which keeps the remote ID.                                  *)
cm_enter_timewait(x) ==
    [x EXCEPT !.state = "TIMEWAIT", !.wait = @ \cup {x.info.remote},
              !.info = NoInfo]

cm_reset_to_idle(x) == [x EXCEPT !.state = "IDLE", !.info = NoInfo]

(* Mutant: no reference for the thread that runs the callbacks. *)
Queue_NoRef(x) == [x EXCEPT !.work = @ + 1]

(* cm_queue_work_unlock(): the thread that runs the callbacks has one        *)
(* reference.                                                                *)
Queue(x) ==
    [x EXCEPT !.work = @ + 1,
              !.refcount = IF x.work = 0 THEN @ + 1 ELSE @]

(* cm_alloc_priv_msg() and ib_post_send_mad(). *)
SendPriv(x, k) == [x EXCEPT !.msg = k, !.sends = @ \cup {k}, !.refcount = @ + 1]

(* cm_acquire_id(). *)
Acquired(i, remote) == i \in Ids /\ id[i].life = "live" /\ id[i].remote = remote

Peers(i) == (IF i \in Act THEN Act ELSE Pas) \ {i}

(* cm_insert_remote_id() and cm_insert_remote_qpn() for an ID of the host of *)
(* i: the entry that is there already.                                       *)
SameRemote(i, r) == {j \in Peers(i) : id[j].info.inId /\ id[j].info.remote = r}
SameQp(i, r) == {j \in Peers(i) : id[j].info.inQp /\ Qpn[id[j].info.remote] = Qpn[r]}

Inserted(x) == [x EXCEPT !.info.inId = TRUE, !.info.inQp = TRUE]

(* cm_send_dreq_locked(): what becomes of the ID, and the message.  A DREQ   *)
(* that cannot be sent ends the connection at this side.                     *)
cm_send_dreq(i, x) ==
    IF x.state # "ESTABLISHED" THEN {[x |-> x, out |-> {}]}
    ELSE {[x |-> [SendPriv(x, "DREQ") EXCEPT !.state = "DREQ_SENT"],
           out |-> {Msg("DREQ", i, x.remote)}]}
         \cup (IF "post" \in Faults
               THEN {[x |-> cm_enter_timewait(x), out |-> {}]} ELSE {})

(* cm_send_drep_locked(). *)
cm_send_drep(i, x) ==
    [x |-> cm_enter_timewait(x), out |-> {Msg("DREP", i, x.remote)}]

(* cm_format_rej(). *)
cm_format_rej(i, x, why) ==
    CASE x.state = "REQ_RCVD"     -> Rej(NoId, x.remote, "REQ", why)
      [] x.state = "MRA_REQ_SENT" -> Rej(i, x.remote, "REQ", why)
      [] x.state \in {"REP_RCVD", "MRA_REP_SENT"} -> Rej(i, x.remote, "REP", why)
      [] OTHER -> Rej(i, x.remote, "none", why)

Rejecting == {"REQ_SENT", "MRA_REQ_RCVD", "REQ_RCVD", "MRA_REQ_SENT",
              "REP_RCVD", "MRA_REP_SENT", "REP_SENT", "MRA_REP_RCVD"}

(* cm_send_rej_locked(), in one of these states. *)
cm_send_rej(i, x, why) ==
    [x |-> IF x.state \in {"REP_SENT", "MRA_REP_RCVD"} THEN cm_enter_timewait(x)
           ELSE cm_reset_to_idle(x),
     out |-> {cm_format_rej(i, x, why)}]

(* The switch of cm_destroy_id(): the messages it sends, and the ID at the   *)
(* end of it.                                                                *)
Farewells(i, x) ==
    CASE x.state \in {"REQ_SENT", "MRA_REQ_RCVD"} -> {cm_send_rej(i, x, "timeout")}
      [] x.state \in Rejecting \ {"REQ_SENT", "MRA_REQ_RCVD"} ->
            {cm_send_rej(i, x, "other")}
      [] x.state = "ESTABLISHED" ->
            {[x |-> IF s.x.state = "TIMEWAIT" THEN s.x ELSE cm_enter_timewait(s.x),
              out |-> s.out] : s \in cm_send_dreq(i, x)}
      [] x.state = "DREQ_SENT" -> {[x |-> cm_enter_timewait(x), out |-> {}]}
      [] x.state = "DREQ_RCVD" -> {cm_send_drep(i, x)}
      [] OTHER -> {[x |-> x, out |-> {}]}

(* cm_destroy_id(), up to the wait for the last reference.  The works that   *)
(* are left find no ID any more.                                             *)
cm_destroy_id(i, x) ==
    {[x |-> [s.x EXCEPT !.state = "IDLE", !.info = NoInfo, !.life = "dying",
                        !.wait = {}, !.est = FALSE, !.refcount = @ - 1],
      out |-> s.out] : s \in Farewells(i, x)}

(* The state that a send of kind k was made for, or that an MRA changed it   *)
(* to (context[1]).                                                          *)
Waits(k) == CASE k = "REQ" -> {"REQ_SENT", "MRA_REQ_RCVD"}
              [] k = "REP" -> {"REP_SENT", "MRA_REP_RCVD"}
              [] k = "DREQ" -> {"DREQ_SENT"}

(* Unless the client of an ID is slow, its callbacks return, and messages    *)
(* that are cancelled complete, before anything else happens.                *)
Prompt(i, x) ==
    LET over == {k \in x.sends : x.msg # k \/ x.state \notin Waits(k)}
    IN  IF "slow" \in Calls[i] THEN x
        ELSE [x EXCEPT !.sends = @ \ over, !.work = 0, !.err = FALSE,
                       !.refcount = @ - Cardinality(over) - (IF x.work > 0 THEN 1 ELSE 0)]

(* The ID becomes s.x, and s.out is sent. *)
Become(i, s) == id' = [id EXCEPT ![i] = Prompt(i, s.x)] /\ net' = net \cup s.out
-----------------------------------------------------------------------------
(* THE CALLS OF THE CLIENTS *)

(* The ID of a client that still uses it. *)
Open(i, states) == id[i].life = "live" /\ id[i].state \in states

(* ib_create_cm_id() and ib_send_cm_req().  A client makes one request with  *)
(* an ID, and uses a QP for one ID at a time.                                *)
SendReq(a) ==
    /\ id[a].life = "none"
    /\ \A b \in Act \ {a} : Qpn[b] = Qpn[a] => id[b].life \in {"none", "freed", "lost"}
    /\ LET x == [NewId EXCEPT !.life = "live", !.state = "REQ_SENT",
                              !.info = Info(NoId), !.refcount = 1]
       IN  Become(a, [x |-> SendPriv(x, "REQ"), out |-> {Msg("REQ", a, NoId)}])
    /\ UNCHANGED host

SendRep(p) ==
    /\ Open(p, {"REQ_RCVD", "MRA_REQ_SENT"})
    /\ Become(p, [x |-> [SendPriv(id[p], "REP") EXCEPT !.state = "REP_SENT"],
                  out |-> {Msg("REP", p, id[p].remote)}])
    /\ UNCHANGED host

SendRtu(a) ==
    /\ Open(a, {"REP_RCVD", "MRA_REP_SENT"})
    /\ Become(a, [x |-> [id[a] EXCEPT !.state = "ESTABLISHED"],
                  out |-> {Msg("RTU", a, id[a].remote)}])
    /\ UNCHANGED host

SendDreq(i) ==
    /\ "dreq" \in Calls[i] /\ Open(i, {"ESTABLISHED"})
    /\ \E s \in cm_send_dreq(i, id[i]) : Become(i, s)
    /\ UNCHANGED host

SendDrep(i) ==
    /\ Open(i, {"DREQ_RCVD"})
    /\ Become(i, cm_send_drep(i, id[i]))
    /\ UNCHANGED host

SendRej(i) ==
    /\ "rej" \in Calls[i] /\ Open(i, Rejecting)
    /\ Become(i, cm_send_rej(i, id[i], "other"))
    /\ UNCHANGED host

(* ib_send_cm_mra(): the answer will take longer. *)
SendMra(i) ==
    /\ "mra" \in Calls[i]
    /\ Open(i, {"REQ_RCVD", "REP_RCVD"})
    /\ LET req == id[i].state = "REQ_RCVD"
       IN  Become(i, [x |-> [id[i] EXCEPT !.state = IF req THEN "MRA_REQ_SENT"
                                                    ELSE "MRA_REP_SENT"],
                      out |-> {[Msg("MRA", i, id[i].remote) EXCEPT
                                   !.of = IF req THEN "REQ" ELSE "REP"]}])
    /\ UNCHANGED host

(* cm_establish(): the QP of p has received data before the RTU came, which  *)
(* the other side sends when it is ready.                                    *)
Establish(p) ==
    /\ Open(p, {"REP_SENT", "MRA_REP_RCVD"})
    /\ Msg("RTU", id[p].remote, p) \in net
    /\ Become(p, [x |-> [id[p] EXCEPT !.state = "ESTABLISHED", !.est = TRUE],
                  out |-> {}])
    /\ UNCHANGED host

(* ib_destroy_cm_id(), from outside of a callback. *)
Destroy(i) ==
    /\ "destroy" \in Calls[i] /\ id[i].life = "live"
    /\ Racing \/ ~id[i].err
    /\ \E s \in cm_destroy_id(i, id[i]) : Become(i, s)
    /\ UNCHANGED host

(* The callback for the first event returns.  Not zero: no further event is  *)
(* reported, and the ID is destroyed, unless the client does it already.     *)
Return(i) ==
    /\ id[i].work > 0 /\ id[i].life \in {"live", "dying"}
    /\ LET x == [id[i] EXCEPT !.work = @ - 1,
                              !.refcount = IF id[i].work = 1 THEN @ - 1 ELSE @]
           last == [id[i] EXCEPT !.work = 0, !.refcount = @ - 1]
       IN  \/ Become(i, [x |-> x, out |-> {}])
           \/ /\ "fail" \in Calls[i] /\ id[i].life = "live" /\ (Racing \/ ~id[i].err)
              /\ \E s \in cm_destroy_id(i, last) : Become(i, s)
    /\ UNCHANGED host

(* The wait in cm_destroy_id() is over. *)
Free(i) ==
    /\ id[i].life = "dying" /\ id[i].refcount = 0
    /\ Become(i, [x |-> [id[i] EXCEPT !.life = "freed", !.remote = NoId], out |-> {}])
    /\ UNCHANGED host
-----------------------------------------------------------------------------
(* THE HANDLERS OF MESSAGES *)

(* Another ID of the host turns out to be stale: ib_send_cm_dreq(). *)
Stale(S, out) ==
    \E j \in S :
       IF Acquired(j, id[j].info.remote)
       THEN \E s \in cm_send_dreq(j, id[j]) : Become(j, [s EXCEPT !.out = @ \cup out])
       ELSE net' = net \cup out /\ UNCHANGED id

(* cm_req_handler() and cm_match_req(): a repeated REQ is dropped, the MRA   *)
(* for it being in net already (cm_dup_req_handler()).  Somebody listens:    *)
(* the answer to a REQ that nobody waits for is that of a client that        *)
(* refuses it.                                                               *)
RecvReq(a, p) ==
    /\ Msg("REQ", a, NoId) \in net
    /\ id[p].life = "none" /\ SameRemote(p, a) = {}
    /\ \/ /\ SameQp(p, a) # {}
          /\ Stale(SameQp(p, a), {Rej(NoId, a, "REQ", "stale")})
       \/ /\ SameQp(p, a) = {}
          /\ LET x == [NewId EXCEPT !.life = "live", !.state = "REQ_RCVD",
                                    !.remote = a, !.refcount = 1,
                                    !.info = Info(a)]
             IN  Become(p, [x |-> Queue(Inserted(x)), out |-> {}])
    /\ UNCHANGED host

(* cm_rep_handler(): the first REP.  The info of the ID gets the remote ID   *)
(* before the tables are asked.  A repeated REP is answered with the RTU or  *)
(* the MRA that is in net already.                                           *)
RecvRep(p, a) ==
    /\ Msg("REP", p, a) \in net
    /\ Acquired(a, NoId) /\ id[a].state \in {"REQ_SENT", "MRA_REQ_RCVD"}
    /\ LET x == [id[a] EXCEPT !.info.remote = p]
           y == [Inserted(x) EXCEPT !.state = "REP_RCVD", !.remote = p]
       IN  IF SameRemote(a, p) # {}
           THEN Become(a, [x |-> x, out |-> {}])
           ELSE IF SameQp(a, p) = {}
           THEN Become(a, [x |-> Queue(y), out |-> {}])
           ELSE \E j \in SameQp(a, p) :
                   LET D == IF Acquired(j, id[j].info.remote)
                            THEN cm_send_dreq(j, id[j])
                            ELSE {[x |-> id[j], out |-> {}]}
                   IN  \E s \in D :
                          /\ id' = [id EXCEPT ![a] = x, ![j] = Prompt(j, s.x)]
                          /\ net' = net \cup s.out \cup {Rej(a, p, "REP", "stale")}
    /\ UNCHANGED host

(* Mutant: the state of the ID is not looked at. *)
RecvRtu_Any(a, p) ==
    /\ Msg("RTU", a, p) \in net /\ Acquired(p, a)
    /\ Become(p, [x |-> Queue([id[p] EXCEPT !.state = "ESTABLISHED"]), out |-> {}])
    /\ UNCHANGED host

(* cm_rtu_handler(). *)
RecvRtu(a, p) ==
    /\ Msg("RTU", a, p) \in net /\ Acquired(p, a)
    /\ id[p].state \in {"REP_SENT", "MRA_REP_RCVD"}
    /\ Become(p, [x |-> Queue([id[p] EXCEPT !.state = "ESTABLISHED"]),
                  out |-> {}])
    /\ UNCHANGED host

(* cm_establish_handler(). *)
EstablishWork(p) ==
    /\ id[p].est
    /\ LET x == [id[p] EXCEPT !.est = FALSE]
       IN  Become(p, [x |-> IF id[p].life = "live" /\ id[p].state = "ESTABLISHED"
                            THEN Queue(x) ELSE x,
                      out |-> {}])
    /\ UNCHANGED host

(* cm_dreq_handler().  An ID that is unknown, or in timewait, is answered.   *)
RecvDreq(i, j) ==
    /\ Msg("DREQ", i, j) \in net
    /\ \/ /\ ~Acquired(j, i) \/ id[j].state = "TIMEWAIT"
          /\ net' = net \cup {Msg("DREP", j, i)} /\ UNCHANGED id
       \/ /\ Acquired(j, i)
          /\ id[j].state \in {"REP_SENT", "DREQ_SENT", "MRA_REP_RCVD", "ESTABLISHED"}
          /\ Become(j, [x |-> Queue([id[j] EXCEPT !.state = "DREQ_RCVD"]),
                        out |-> {}])
    /\ UNCHANGED host

(* cm_drep_handler(). *)
RecvDrep(i, j) ==
    /\ Msg("DREP", i, j) \in net /\ Acquired(j, i)
    /\ id[j].state \in {"DREQ_SENT", "DREQ_RCVD"}
    /\ Become(j, [x |-> Queue(cm_enter_timewait(id[j])), out |-> {}])
    /\ UNCHANGED host

(* cm_acquire_rejected_id(). *)
Rejected(m, i) ==
    IF m.why = "timeout"
    THEN m.src # NoId /\ id[i].info.inId /\ id[i].info.remote = m.src /\ Acquired(i, m.src)
    ELSE m.dst = i /\ Acquired(i, IF m.of = "REQ" THEN NoId ELSE m.src)

(* cm_rej_handler(). *)
RecvRej(m, i) ==
    /\ m.type = "REJ" /\ Rejected(m, i)
    /\ \/ /\ id[i].state \in {"REQ_SENT", "MRA_REQ_RCVD", "REP_SENT",
                              "MRA_REP_RCVD", "REQ_RCVD", "MRA_REQ_SENT"}
          /\ Become(i, [x |-> Queue(IF m.why = "stale" THEN cm_enter_timewait(id[i])
                                    ELSE cm_reset_to_idle(id[i])),
                        out |-> {}])
       \/ /\ id[i].state \in {"DREQ_SENT", "REP_RCVD", "MRA_REP_SENT", "ESTABLISHED"}
          /\ Become(i, [x |-> Queue(cm_enter_timewait(id[i])), out |-> {}])
    /\ UNCHANGED host

(* cm_mra_handler(): only while the MAD layer still has the message. *)
RecvMra(m, i) ==
    /\ m.type = "MRA" /\ m.dst = i
    /\ Acquired(i, IF m.of = "REQ" THEN NoId ELSE m.src)
    /\ id[i].state = (IF m.of = "REQ" THEN "REQ_SENT" ELSE "REP_SENT")
    /\ Become(i, [x |-> Queue([id[i] EXCEPT !.state = IF m.of = "REQ"
                                                      THEN "MRA_REQ_RCVD"
                                                      ELSE "MRA_REP_RCVD"]),
                  out |-> {}])
    /\ UNCHANGED host
-----------------------------------------------------------------------------
(* TIMERS AND SEND COMPLETIONS *)

(* cm_timewait_handler() for the work that kept the remote ID r. *)
TimewaitExit(i, r) ==
    /\ r \in id[i].wait
    /\ LET x == [id[i] EXCEPT !.wait = @ \ {r}]
       IN  Become(i, [x |-> IF Acquired(i, r) /\ id[i].state = "TIMEWAIT"
                            THEN Queue([x EXCEPT !.state = "IDLE"])
                            ELSE x,
                      out |-> {}])
    /\ UNCHANGED host

(* Mutant: an old message is freed without its reference. *)
SendDone_Keep(i, k) ==
    /\ k \in id[i].sends
    /\ LET failed == id[i].msg = k /\ id[i].state \in Waits(k)
           x == [id[i] EXCEPT !.sends = @ \ {k}, !.refcount = IF failed THEN @ - 1 ELSE @,
                              !.msg = IF @ = k THEN "none" ELSE @]
       IN  Become(i, [x |-> IF ~failed THEN x
                            ELSE [(IF k = "DREQ" THEN cm_enter_timewait(x)
                                   ELSE cm_reset_to_idle(x)) EXCEPT !.err = TRUE],
                      out |-> {}])
    /\ UNCHANGED host

(* cm_process_send_error(): the MAD layer gives a message up, cancelled or   *)
(* timed out.  The reference goes with the message, also when the client is  *)
(* still to be told.                                                         *)
SendDone(i, k) ==
    /\ k \in id[i].sends
    /\ LET x == [id[i] EXCEPT !.sends = @ \ {k}, !.refcount = @ - 1,
                              !.msg = IF @ = k THEN "none" ELSE @]
           failed == id[i].msg = k /\ id[i].state \in Waits(k)
       IN  Become(i, [x |-> IF ~failed THEN x
                            ELSE [(IF k = "DREQ" THEN cm_enter_timewait(x)
                                   ELSE cm_reset_to_idle(x)) EXCEPT !.err = TRUE],
                      out |-> {}])
    /\ UNCHANGED host

(* ... and calls the handler of the client, which may return an error.      *)
ErrorReturn(i) ==
    /\ id[i].err
    /\ LET x == [id[i] EXCEPT !.err = FALSE]
       IN  \/ Become(i, [x |-> x, out |-> {}])
           \/ /\ "fail" \in Calls[i] /\ id[i].life = "live"
              /\ \E s \in cm_destroy_id(i, x) : Become(i, s)
    /\ UNCHANGED host

(* The connecting host restarts, and remembers nothing. *)
Crash ==
    /\ "crash" \in Faults /\ host = "up"
    /\ id' = [i \in Ids |-> IF i \in Act /\ id[i].life # "none"
                            THEN [NewId EXCEPT !.life = "lost"] ELSE id[i]]
    /\ host' = "restarted"
    /\ UNCHANGED net
-----------------------------------------------------------------------------
Client(i) ==
    \/ SendDreq(i) \/ SendDrep(i) \/ SendRej(i) \/ SendMra(i) \/ Destroy(i)
    \/ i \in Act /\ (SendReq(i) \/ SendRtu(i))
    \/ i \in Pas /\ (SendRep(i) \/ Establish(i))

Receive ==
    \/ \E a \in Act, p \in Pas : RecvReq(a, p) \/ RecvRep(p, a) \/ RecvRtu(a, p)
    \/ \E i, j \in Ids : RecvDreq(i, j) \/ RecvDrep(i, j)
    \/ \E m \in net, i \in Ids : RecvRej(m, i) \/ RecvMra(m, i)

(* What the works and the MAD layer do for an ID without being asked. *)
Step(i) ==
    \/ Return(i) \/ Free(i) \/ EstablishWork(i)
    \/ \E r \in id[i].wait : TimewaitExit(i, r)
    \/ \E k \in id[i].sends : SendDone(i, k)
    \/ ErrorReturn(i)

Next == (\E i \in Ids : Client(i) \/ Step(i)) \/ Receive \/ Crash

Spec == Init /\ [][Next]_vars

(* Works run, callbacks return, and the MAD layer gives up.  Nothing is      *)
(* assumed of the fabric or of what clients call.                            *)
FairSpec == Spec /\ \A i \in Ids : WF_vars(Step(i))
-----------------------------------------------------------------------------
(* PROPERTIES *)

Phase(i) ==
    CASE id[i].life = "none" -> "none"
      [] id[i].life \in {"dying", "freed", "lost"} -> "closed"
      [] id[i].state \in {"REQ_RCVD", "MRA_REQ_SENT"} -> "none"
      [] id[i].state \in {"REQ_SENT", "MRA_REQ_RCVD", "REP_RCVD", "MRA_REP_SENT",
                          "REP_SENT", "MRA_REP_RCVD"} -> "asking"
      [] id[i].state = "ESTABLISHED" -> "up"
      [] OTHER -> "closed"

Sent(t) == {<<m.src, m.dst>> : m \in {n \in net : n.type = t}}

Service == INSTANCE CmConnection WITH
    phase <- [i \in Ids |-> Phase(i)],
    accepted <- Sent("REP"),
    confirmed <- Sent("RTU")

(* However messages are lost, repeated and delayed, and even if a host       *)
(* restarts, no ID is connected to two others, none to one that did not      *)
(* accept or confirm it, and a late RTU or REP does not bring a connection   *)
(* back (cm_rep_handler(), cm_rtu_handler()).                                *)
Implements == Service!Spec

(* The tables of remote IDs and of remote QPs name no ID that has ended, and *)
(* no remote ID or QP twice: what they hold is in memory that the ID gives   *)
(* away or frees when it ends (cm_enter_timewait(), cm_reset_to_idle(),      *)
(* cm_destroy_id()).                                                         *)
TablesClean ==
    /\ \A i \in Ids : id[i].info.inId \/ id[i].info.inQp =>
          /\ id[i].life = "live" /\ id[i].info.on
          /\ id[i].state \notin {"IDLE", "REQ_SENT", "MRA_REQ_RCVD", "TIMEWAIT"}
    /\ \A i, j \in Ids : j \in Peers(i) =>
          /\ id[i].info.inId /\ id[j].info.inId
                => id[i].info.remote # id[j].info.remote
          /\ id[i].info.inQp /\ id[j].info.inQp
                => Qpn[id[i].info.remote] # Qpn[id[j].info.remote]

(* An ID is not freed while a callback of it is about to run or runs, nor    *)
(* while the MAD layer has a message of it: ib_destroy_cm_id() "blocks until *)
(* the connection identifier is destroyed".                                  *)
NoUseAfterFree ==
    \A i \in Ids : id[i].life = "freed" =>
        id[i].work = 0 /\ id[i].sends = {} /\ ~id[i].err

(* "we need to ensure that the user callback is single threaded"             *)
(* (cm_queue_work_unlock()).                                                 *)
SingleThreaded == \A i \in Ids : ~(id[i].err /\ id[i].work > 0)

(* Nothing that waits for the other side, for a timer or for a reference     *)
(* waits for ever: requests, answers and disconnects time out, timewait      *)
(* ends, and ib_destroy_cm_id() returns.                                     *)
Settles ==
    []<>(\A i \in Ids :
            /\ id[i].life # "dying"
            /\ id[i].life = "live" => id[i].state \notin
                  {"REQ_SENT", "MRA_REQ_RCVD", "REP_SENT", "MRA_REP_RCVD",
                   "DREQ_SENT", "TIMEWAIT"})
=============================================================================
