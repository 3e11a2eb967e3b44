-------------------------------- MODULE Rmpp --------------------------------
(***************************************************************************)
(* A reliable multi-packet transfer (RMPP) between two MAD agents:         *)
(* drivers/infiniband/core/mad_rmpp.c with the send side of mad.c.         *)
(*                                                                         *)
(* The sender's agent sends a MAD of N segments, window by window, resends *)
(* from the last acknowledged segment when its timer expires, and tells    *)
(* its client once how the send ended.  The receiver's agent keeps a       *)
(* struct mad_rmpp_recv while it puts the segments in order, and hands the *)
(* whole list to its client.  The fabric loses, repeats and reorders: net  *)
(* is every packet sent and not yet dead, and any of them may arrive, any  *)
(* number of times, or never.                                              *)
(*                                                                         *)
(* On each port the completions of sends and of receives are handled one   *)
(* after the other (the work of one CQ), and the timers one after the      *)
(* other (one ordered workqueue); the two run beside each other.           *)
(***************************************************************************)
EXTENDS Integers, Sequences, FiniteSets

CONSTANTS
    N,           \* send_buf.seg_count
    Window,      \* window_size() of the receiver's agent
    MaxRetries,  \* send_buf.retries
    TimeoutMs,   \* the values of send_buf.timeout_ms: "none" (0: no response
                 \* is expected), "short" (at most 2000), "long"
    MaxRecv,     \* how many struct mad_rmpp_recv the receiver may allocate
    Faults,      \* "post": ib_send_mad() fails; "send": a send completes in
                 \* error; "cancel": the client calls ib_cancel_mad()
    Unregister   \* the receiver's agent may be unregistered

ASSUME RmppAssumption ==
    /\ N \in Nat \ {0} /\ Window \in Nat \ {0} /\ MaxRetries \in Nat
    /\ TimeoutMs \subseteq {"none", "short", "long"}
    /\ MaxRecv \in Nat
    /\ Faults \subseteq {"post", "send", "cancel"}
    /\ Unregister \in BOOLEAN

VARIABLES
    tms,   \* send_buf.timeout_ms
    wr,    \* the sender's struct ib_mad_send_wr_private
    todo,  \* the status with which the sender's CQ work is about to call
           \* ib_mad_complete_send_wr() after it unlocked, or "none"
    net,   \* the packets
    rec,   \* the receiver's records
    cq,    \* where the receiver's CQ work is in continue_rmpp()
    wq,    \* where the receiver's workqueue is in a handler
    agent  \* the receiver's agent: "open", then unregister_mad_agent()

vars == <<tms, wr, todo, net, rec, cq, wq, agent>>
sender == <<tms, wr, todo>>
receiver == <<rec, cq, wq, agent>>
-----------------------------------------------------------------------------
Recs == 1..MaxRecv
NoRec == 0  \* no record

Data(s)   == [type |-> "DATA", seg |-> s, newwin |-> 0]
Ack(s, w) == [type |-> "ACK", seg |-> s, newwin |-> w]
Abort     == [type |-> "ABORT", seg |-> 0, newwin |-> 0]
Response  == [type |-> "RESP", seg |-> 0, newwin |-> 0]

(* The timeout fields hold a relative time until wait_for_response() adds  *)
(* jiffies to it: "zero", "ack" (2 seconds), "resp" (timeout_ms), and      *)
(* "jiffies", the absolute time.                                           *)
Times == {"zero", "ack", "resp", "jiffies"}
Results == {"none", "ok", "timeout", "abort", "flush", "error"}

MaxWin == N + Window

TypeOK ==
    /\ tms \in TimeoutMs
    /\ wr \in [on : {"none", "send", "wait", "done", "gone"}, seg : 0..N,
               last_ack : 0..N, newwin : 0..MaxWin, refcount : 0..2,
               timeout : Times, delay : Times, retries_left : 0..MaxRetries,
               status : Results, result : Results, posted : 0..1]
    /\ todo \in Results
    /\ net \subseteq {Data(s) : s \in 1..N} \cup {Abort, Response}
                     \cup {Ack(s, w) : s \in 0..N, w \in 0..MaxWin}
    /\ \A r \in Recs :
          /\ rec[r].state \in {"none", "ACTIVE", "TIMEOUT", "COMPLETE", "freed"}
          /\ rec[r].seg_num \in 0..N /\ rec[r].last_ack \in 0..N
          /\ rec[r].newwin \in 0..MaxWin /\ rec[r].refcount \in 0..2
          /\ rec[r].segs \in Seq(1..N)
          /\ {rec[r].listed, rec[r].timer, rec[r].cleanup, rec[r].given,
              rec[r].wcFreed, rec[r].raced} \subseteq BOOLEAN
    /\ cq \in [at : {"idle", "check", "body", "finish"}, r : Recs \cup {NoRec},
               seg : 0..N]
    /\ wq \in [at : {"idle", "expire", "nack", "wait", "cwait"}, r : Recs \cup {NoRec}]
    /\ agent \in {"open", "closing", "flushing", "closed"}

MsTime == IF tms = "none" THEN "zero" ELSE "resp"
Held(w) == IF w.timeout # "zero" THEN 1 ELSE 0

(* raced is history, which no action reads: continue_rmpp() has completed a *)
(* transfer that recv_timeout_handler() had already found ACTIVE.           *)
NewRec == [state |-> "none", seg_num |-> 0, newwin |-> 0, last_ack |-> 0,
           refcount |-> 0, segs |-> <<>>, listed |-> FALSE, timer |-> FALSE,
           cleanup |-> FALSE, given |-> FALSE, wcFreed |-> FALSE,
           raced |-> FALSE]

Init ==
    /\ tms \in TimeoutMs
    /\ wr = [on |-> "none", seg |-> 0, last_ack |-> 0, newwin |-> 0,
             refcount |-> 0, timeout |-> "zero", delay |-> "zero",
             retries_left |-> MaxRetries, status |-> "ok", result |-> "none",
             posted |-> 0]
    /\ todo = "none"
    /\ net = {}
    /\ rec = [r \in Recs |-> NewRec]
    /\ cq = [at |-> "idle", r |-> NoRec, seg |-> 0]
    /\ wq = [at |-> "idle", r |-> NoRec]
    /\ agent = "open"
-----------------------------------------------------------------------------
(* THE SENDER *)

(* Whether ib_send_mad() gets the segment out. *)
SendMad == IF "post" \in Faults THEN BOOLEAN ELSE {TRUE}

(* send_next_seg() before ib_send_mad(): a timeout_ms of at most 2000 leaves *)
(* the timeout as it is.                                                     *)
NextSeg(w) ==
    [w EXCEPT !.seg = @ + 1, !.timeout = IF tms = "short" THEN @ ELSE "ack"]

(* send_next_seg() that succeeds: the QP owns the work request. *)
send_next_seg(w) ==
    /\ wr' = [NextSeg(w) EXCEPT !.posted = @ + 1]
    /\ net' = net \cup {Data(w.seg + 1)}

wait_for_response(w) ==
    [w EXCEPT !.on = "wait", !.delay = w.timeout, !.timeout = "jiffies"]

ib_mark_mad_done(w) ==
    [w EXCEPT !.timeout = "zero",
              !.on = IF w.refcount = 1 THEN "done" ELSE @]

(* ib_post_send_mad() and ib_send_rmpp_mad(): no response expected still     *)
(* means a reference until the last ACK.                                     *)
Post ==
    /\ wr.on = "none"
    /\ \E ok \in SendMad :
          LET w == [wr EXCEPT !.on = "send", !.timeout = MsTime, !.newwin = 1,
                              !.refcount = 2]
          IN IF ok THEN send_next_seg(w)
             ELSE wr' = [NextSeg(w) EXCEPT !.on = "gone", !.result = "error"]
                  /\ UNCHANGED net
    /\ UNCHANGED <<tms, todo, receiver>>

PutSend_NoWait(w, status) ==    \* mutant: wait_for_response() forgotten
    LET w1 == [w EXCEPT !.refcount = @ - 1 - (IF status # "ok" /\ w.status = "ok"
                                              THEN Held(w) ELSE 0),
                        !.status = IF @ = "ok" THEN status ELSE @]
    IN  IF w1.refcount > 0 THEN w1
        ELSE [w1 EXCEPT !.on = "gone", !.result = w1.status]

(* The rest of ib_mad_complete_send_wr(), once ib_process_rmpp_send_wc() has *)
(* not taken the completion.                                                 *)
PutSend(w, status) ==
    LET w1 == IF status # "ok" /\ w.status = "ok"
              THEN [w EXCEPT !.status = status, !.refcount = @ - Held(w)]
              ELSE w
        w2 == [w1 EXCEPT !.refcount = @ - 1]
    IN  IF w2.refcount > 0
        THEN IF w2.refcount = 1 /\ w2.timeout # "zero" /\ w2.status = "ok"
             THEN wait_for_response(w2)
             ELSE w2
        ELSE [w2 EXCEPT !.on = "gone",
                        !.result = IF w2.status # "ok" THEN w2.status ELSE status]

ib_mad_complete_send_wr(w, status) ==
    LET running == status = "ok" /\ w.status = "ok" /\ w.timeout # "zero"
        more == /\ running /\ w.last_ack # N
                /\ w.seg # w.newwin /\ w.seg # N
    IN  \/ more /\ send_next_seg(w)
        \/ /\ more /\ "post" \in Faults
           /\ wr' = PutSend(NextSeg(w), "error")
           /\ UNCHANGED net
        \/ /\ ~more
           /\ wr' = PutSend(IF running /\ w.last_ack = N
                            THEN [w EXCEPT !.timeout = MsTime] ELSE w, status)
           /\ UNCHANGED net

(* ib_mad_send_done(): the QP is done with the segment. *)
SendDone ==
    /\ todo = "none" /\ wr.posted > 0
    /\ \E status \in {"ok"} \cup (IF "send" \in Faults THEN {"error"} ELSE {}) :
          ib_mad_complete_send_wr([wr EXCEPT !.posted = @ - 1], status)
    /\ UNCHANGED <<tms, todo, receiver>>

(* The second half of abort_send(), of the last ACK and of a response: the   *)
(* lock has been dropped in between.                                         *)
Complete ==
    /\ todo # "none"
    /\ ib_mad_complete_send_wr(wr, todo)
    /\ todo' = "none"
    /\ UNCHANGED <<tms, receiver>>

(* ib_find_send_mad(): what an arriving ACK, ABORT or response belongs to. *)
Found ==
    /\ wr.on = "wait" \/ (wr.on = "send" /\ wr.timeout # "zero")
    /\ wr.status = "ok"

abort_send ==
    IF Found /\ wr.last_ack # N
    THEN wr' = ib_mark_mad_done(wr) /\ todo' = "abort"
    ELSE UNCHANGED <<wr, todo>>

(* process_rmpp_abort(). *)
RecvAbort ==
    /\ todo = "none" /\ Abort \in net
    /\ abort_send
    /\ UNCHANGED <<tms, net, receiver>>

(* A response that comes: handed to the client with the send it answers, or  *)
(* dropped.                                                                  *)
RecvResponse ==
    /\ todo = "none" /\ Response \in net
    /\ Found
    /\ wr' = ib_mark_mad_done(wr)
    /\ todo' = "ok"
    /\ UNCHANGED <<tms, net, receiver>>

Ready_Posted(w) ==      \* mutant: a segment that the QP still has is not tested
    w.seg < w.newwin /\ w.seg < N

(* process_rmpp_ack() may send the next segment itself. *)
Ready(w) == w.refcount = 1 /\ w.seg < w.newwin /\ w.seg < N

(* process_rmpp_ack(), from the test for an old ACK on. *)
TakeAck(m) ==
    LET w == [wr EXCEPT !.last_ack = m.seg, !.newwin = m.newwin,
                        !.retries_left = IF m.seg > wr.last_ack
                                         THEN MaxRetries ELSE @]
    IN  \/ /\ w.last_ack = N /\ tms = "none"
           /\ wr' = ib_mark_mad_done(w) /\ todo' = "ok" /\ UNCHANGED net
        \/ /\ w.last_ack = N /\ tms # "none"
           /\ wr' = IF w.refcount = 1
                    THEN wait_for_response([w EXCEPT !.timeout = MsTime]) ELSE w
           /\ UNCHANGED <<net, todo>>
        \/ /\ w.last_ack # N
           /\ IF Ready(w)
              THEN \/ /\ send_next_seg([w EXCEPT !.on = "send",
                                                 !.refcount = @ + 1])
                   \/ /\ "post" \in Faults
                      /\ wr' = NextSeg(w) /\ UNCHANGED net
              ELSE wr' = w /\ UNCHANGED net
           /\ UNCHANGED todo

(* process_rmpp_ack().  The ABORT and the ACK of the last ACK it sends back *)
(* change nothing at a receiver that sends no segments: the first finds no  *)
(* send, and the second announces the window of 1 that repwin starts with.  *)
RecvAck(m) ==
    /\ todo = "none" /\ m \in net /\ m.type = "ACK"
    /\ Found
    /\ wr.last_ack # N                          \* not a repeated ACK
    /\ \/ /\ m.seg > N \/ m.seg > wr.newwin     \* IB_MGMT_RMPP_STATUS_S2B
          /\ abort_send /\ UNCHANGED net
       \/ /\ m.seg <= N /\ m.seg <= wr.newwin
          /\ m.newwin >= wr.newwin /\ m.seg >= wr.last_ack   \* not an old ACK
          /\ TakeAck(m)
    /\ UNCHANGED <<tms, receiver>>

(* timeout_sends() and retry_send(), when the wait is over.  A wait as long  *)
(* as jiffies itself, the time since boot and more, does not end.            *)
TimeoutSends ==
    /\ wr.on = "wait" /\ wr.delay # "jiffies"
    /\ LET over == [wr EXCEPT !.on = "gone",
                              !.result = IF wr.status = "ok" THEN "timeout"
                                         ELSE wr.status]
           again == [wr EXCEPT !.retries_left = @ - 1, !.timeout = MsTime,
                               !.seg = wr.last_ack, !.on = "send",
                               !.refcount = @ + 1]
       IN  IF wr.status = "ok" /\ wr.retries_left > 0 /\ wr.last_ack # N
           THEN \/ send_next_seg(again)
                \/ "post" \in Faults /\ wr' = over /\ UNCHANGED net
           ELSE wr' = over /\ UNCHANGED net
    /\ UNCHANGED <<tms, todo, receiver>>

(* ib_cancel_mad(): ib_modify_mad() with timeout_ms 0. *)
CancelMad ==
    /\ "cancel" \in Faults
    /\ wr.on \in {"wait", "send"} /\ wr.status = "ok"
    /\ LET active == wr.timeout = "zero" \/ wr.refcount > 1
           w == [wr EXCEPT !.status = "flush", !.refcount = @ - Held(wr),
                           !.timeout = "zero"]
       IN  wr' = IF active THEN w ELSE wait_for_response(w)
    /\ UNCHANGED <<tms, todo, net, receiver>>

SenderStep ==
    \/ Post \/ SendDone \/ Complete \/ RecvAbort \/ RecvResponse
    \/ (\E m \in net : RecvAck(m)) \/ TimeoutSends \/ CancelMad
-----------------------------------------------------------------------------
(* THE RECEIVER *)

Listed == {r \in Recs : rec[r].listed}
Unused == {r \in Recs : rec[r].state = "none"}

(* recv_timeout_handler() holds agent->lock: there is no looking for a     *)
(* record and no sending of MADs meanwhile.                                *)
Locked == wq.at = "expire"

deref_rmpp_recv(x) == [x EXCEPT !.refcount = @ - 1]

(* format_ack(): the ACK of record x, and x after it. *)
AckOf(x) == Ack(x.seg_num, x.newwin)
Acked(x) == [x EXCEPT !.last_ack = x.seg_num]

complete_rmpp_NoWork(x) ==      \* mutant: cleanup_work is not queued
    [x EXCEPT !.timer = IF x.seg_num > 1 THEN FALSE ELSE @, !.given = TRUE]

(* complete_rmpp() after the ACK: the client gets the list. *)
complete_rmpp(x) ==
    [x EXCEPT !.timer = IF x.seg_num > 1 THEN FALSE ELSE @,
              !.cleanup = TRUE, !.given = TRUE]

(* start_rmpp() of the first segment of a transfer the agent does not know.  *)
(* It ends before the 40 seconds of its timer do.                            *)
StartRmpp ==
    /\ cq.at = "idle" /\ agent = "open" /\ ~Locked /\ Data(1) \in net
    /\ Listed = {} /\ Unused # {}
    /\ LET r == CHOOSE u \in Unused : \A v \in Unused : u <= v
           x == [NewRec EXCEPT !.state = IF N = 1 THEN "COMPLETE" ELSE "ACTIVE",
                               !.seg_num = 1, !.segs = <<1>>, !.refcount = 1,
                               !.listed = TRUE, !.timer = N # 1,
                               !.newwin = IF N = 1 THEN 1 ELSE 1 + Window]
       IN  /\ rec' = [rec EXCEPT ![r] = IF N = 1 THEN complete_rmpp(Acked(x))
                                        ELSE Acked(x)]
           /\ net' = net \cup {AckOf(x)}
    /\ UNCHANGED <<cq, wq, agent, sender>>

Acquire_NoRef(r, s) ==          \* mutant: refcount_inc() forgotten
    /\ cq.at = "idle" /\ agent = "open" /\ ~Locked /\ Data(s) \in net
    /\ rec[r].listed
    /\ cq' = [at |-> "check", r |-> r, seg |-> s]
    /\ UNCHANGED <<rec, wq, agent, net, sender>>

(* acquire_rmpp_recv() for another segment, or for the first one again. *)
Acquire(r, s) ==
    /\ cq.at = "idle" /\ agent = "open" /\ ~Locked /\ Data(s) \in net
    /\ rec[r].listed
    /\ rec' = [rec EXCEPT ![r].refcount = @ + 1]
    /\ cq' = [at |-> "check", r |-> r, seg |-> s]
    /\ UNCHANGED <<wq, agent, net, sender>>

Return == cq' = [at |-> "idle", r |-> NoRec, seg |-> 0]

(* find_seg_location() finds the segment itself. *)
Duplicate(x, s) == \E i \in 1..Len(x.segs) : x.segs[i] = s

(* continue_rmpp(): the tests that need no room in the list. *)
CqCheck ==
    /\ cq.at = "check"
    /\ LET x == rec[cq.r]
           out == x.state = "TIMEOUT" \/ cq.seg > x.newwin
           old == cq.seg <= x.last_ack \/ x.state = "COMPLETE"
       IN  \/ /\ ~out /\ old                    \* ack_recv() once more
              /\ net' = net \cup {AckOf(x)}
              /\ rec' = [rec EXCEPT ![cq.r] = deref_rmpp_recv(Acked(x))]
              /\ Return
           \/ /\ out \/ (~old /\ Duplicate(x, cq.seg))
              /\ rec' = [rec EXCEPT ![cq.r] = deref_rmpp_recv(x)]
              /\ Return /\ UNCHANGED net
           \/ /\ ~out /\ ~old /\ ~Duplicate(x, cq.seg)
              /\ cq' = [cq EXCEPT !.at = "body"] /\ UNCHANGED <<rec, net>>
    /\ UNCHANGED <<wq, agent, sender>>

(* find_seg_location(): how many of the listed segments come before s. *)
Before(x, s) == Cardinality({i \in 1..Len(x.segs) : x.segs[i] < s})

(* cur_seg_buf, the last of the segments that are in order, by its place. *)
Cur(x) == Before(x, x.seg_num + 1)

(* list_add() behind the segments before s. *)
Insert(x, s) ==
    LET k == Before(x, s)
    IN  [x EXCEPT !.segs = SubSeq(@, 1, k) \o <<s>> \o SubSeq(@, k + 1, Len(@))]

update_seg_num_Gap(x, k) ==     \* mutant: the numbers are not compared
    IF k = Cur(x) THEN [x EXCEPT !.seg_num = x.segs[Len(x.segs)]] ELSE x

(* update_seg_num(), when the segment comes right behind cur_seg_buf: as far *)
(* as the list has no gap.                                                   *)
update_seg_num(x, k) ==
    IF k = Cur(x)
    THEN [x EXCEPT !.seg_num = Cardinality({j \in 1..Len(x.segs) :
                                   \A i \in 1..j : x.segs[i] = i})]
    ELSE x

(* recv_timeout_handler() has the record. *)
TimedOut(r) == wq.r = r /\ wq.at \in {"expire", "nack", "wait"}

(* continue_rmpp(): the segment is listed, under rmpp_recv->lock, which does *)
(* not keep recv_timeout_handler() out: the state is not looked at again.    *)
CqBody ==
    /\ cq.at = "body"
    /\ LET x == rec[cq.r]
           k == Before(x, cq.seg)
           y == update_seg_num(Insert(x, cq.seg), k)
           full == [y EXCEPT !.newwin = @ + Window]
       IN  \/ /\ k = Cur(x) /\ y.seg_num = N
              /\ rec' = [rec EXCEPT ![cq.r] = [y EXCEPT !.state = "COMPLETE",
                                                       !.raced = TimedOut(cq.r)]]
              /\ cq' = [cq EXCEPT !.at = "finish"] /\ UNCHANGED net
           \/ /\ k = Cur(x) /\ y.seg_num # N /\ y.seg_num = y.newwin
              /\ net' = net \cup {AckOf(full)}
              /\ rec' = [rec EXCEPT ![cq.r] = deref_rmpp_recv(Acked(full))]
              /\ Return
           \/ /\ ~(k = Cur(x) /\ (y.seg_num = N \/ y.seg_num = y.newwin))
              /\ rec' = [rec EXCEPT ![cq.r] = deref_rmpp_recv(y)]
              /\ Return /\ UNCHANGED net
    /\ UNCHANGED <<wq, agent, sender>>

(* continue_rmpp() with the last segment: complete_rmpp(), unlocked, then    *)
(* the client's recv_handler().                                              *)
CqFinish ==
    /\ cq.at = "finish" /\ ~Locked
    /\ LET x == rec[cq.r]
       IN  /\ net' = net \cup {AckOf(x)}
           /\ rec' = [rec EXCEPT ![cq.r] =
                          deref_rmpp_recv(complete_rmpp(Acked(x)))]
    /\ Return
    /\ UNCHANGED <<wq, agent, sender>>

(* The client of the receiver answers a request that waits for a response. *)
Respond ==
    /\ tms # "none" /\ agent = "open" /\ \E r \in Recs : rec[r].given
    /\ net' = net \cup {Response}
    /\ UNCHANGED <<receiver, sender>>
-----------------------------------------------------------------------------
(* THE RECEIVER'S WORKQUEUE *)

WqStart(at, r) == wq' = [at |-> at, r |-> r]
WqReturn == wq' = [at |-> "idle", r |-> NoRec]

Expires_Always(r) == TRUE       \* mutant: the state is not tested

(* A timer that finds the transfer complete has come too late. *)
Expires(r) == rec[r].state = "ACTIVE"

(* recv_timeout_handler() takes agent->lock and tests the state. *)
RecvTimeout(r) ==
    /\ wq.at = "idle" /\ rec[r].timer
    /\ rec' = [rec EXCEPT ![r].timer = FALSE]
    /\ IF Expires(r) THEN WqStart("expire", r) ELSE UNCHANGED wq
    /\ UNCHANGED <<cq, agent, net, sender>>

(* It changes the state, which continue_rmpp() may have changed to COMPLETE  *)
(* since then, and takes the record off the list.                            *)
RecvExpire ==
    /\ wq.at = "expire"
    /\ rec' = [rec EXCEPT ![wq.r].state = "TIMEOUT", ![wq.r].listed = FALSE]
    /\ WqStart("nack", wq.r)
    /\ UNCHANGED <<cq, agent, net, sender>>

(* nack_recv() and the reference of destroy_rmpp_recv(). *)
RecvNack ==
    /\ wq.at = "nack"
    /\ net' = net \cup {Abort}
    /\ rec' = [rec EXCEPT ![wq.r] = deref_rmpp_recv(@)]
    /\ WqStart("wait", wq.r)
    /\ UNCHANGED <<cq, agent, sender>>

(* kfree(): the client has its list, and nobody the rest. *)
Freed(x) ==
    [x EXCEPT !.state = "freed", !.seg_num = 0, !.newwin = 0, !.last_ack = 0,
              !.segs = IF x.given THEN @ ELSE <<>>]

(* destroy_rmpp_recv() has waited for the last reference; then the received  *)
(* segments go too.                                                          *)
RecvDestroy ==
    /\ wq.at = "wait" /\ rec[wq.r].refcount = 0
    /\ rec' = [rec EXCEPT ![wq.r] = [Freed(@) EXCEPT !.wcFreed = TRUE]]
    /\ WqReturn
    /\ UNCHANGED <<cq, agent, net, sender>>

(* recv_cleanup_handler(), 10 seconds after the transfer, whatever the       *)
(* sender does by then and whichever packets are still on their way.         *)
RecvCleanup(r) ==
    /\ wq.at = "idle" /\ rec[r].cleanup /\ rec[r].state # "freed"
    /\ rec' = [rec EXCEPT ![r] = deref_rmpp_recv([@ EXCEPT !.cleanup = FALSE,
                                                          !.listed = FALSE])]
    /\ WqStart("cwait", r)
    /\ UNCHANGED <<cq, agent, net, sender>>

(* The same handler when the timeout has freed the record: list_del() and    *)
(* refcount_dec() of freed memory.  What comes of that is left open.         *)
CleanupFreed(r) ==
    /\ wq.at = "idle" /\ rec[r].cleanup /\ rec[r].state = "freed"
    /\ rec' = [rec EXCEPT ![r].cleanup = FALSE]
    /\ UNCHANGED <<cq, wq, agent, net, sender>>

CleanupDestroy ==
    /\ wq.at = "cwait" /\ rec[wq.r].refcount = 0
    /\ rec' = [rec EXCEPT ![wq.r] = Freed(@)]
    /\ WqReturn
    /\ UNCHANGED <<cq, agent, net, sender>>

(* unregister_mad_agent(): no receive finds the agent any more; the ones     *)
(* under way are waited for, then ib_cancel_rmpp_recvs() cancels the timers, *)
(* flushes the workqueue and frees what is left in the list.                 *)
UnregStart ==
    /\ Unregister /\ agent = "open"
    /\ agent' = "closing"
    /\ UNCHANGED <<rec, cq, wq, net, sender>>

ib_cancel_rmpp_recvs ==
    /\ agent = "closing" /\ cq.at = "idle" /\ ~Locked
    /\ rec' = [r \in Recs |-> IF rec[r].listed
                              THEN [rec[r] EXCEPT !.timer = FALSE,
                                                  !.cleanup = FALSE]
                              ELSE rec[r]]
    /\ agent' = "flushing"
    /\ UNCHANGED <<cq, wq, net, sender>>

UnregFree ==
    /\ agent = "flushing" /\ wq.at = "idle"
    /\ rec' = [r \in Recs |->
                  IF rec[r].listed
                  THEN [Freed(deref_rmpp_recv(rec[r])) EXCEPT
                           !.listed = FALSE,
                           !.wcFreed = rec[r].state # "COMPLETE"]
                  ELSE rec[r]]
    /\ agent' = "closed"
    /\ UNCHANGED <<cq, wq, net, sender>>

ReceiverCq ==
    \/ StartRmpp \/ (\E r \in Recs, s \in 1..N : Acquire(r, s))
    \/ CqCheck \/ CqBody \/ CqFinish

ReceiverWq ==
    \/ (\E r \in Recs : RecvTimeout(r) \/ RecvCleanup(r) \/ CleanupFreed(r))
    \/ RecvExpire \/ RecvNack \/ RecvDestroy \/ CleanupDestroy

Next ==
    \/ SenderStep \/ ReceiverCq \/ ReceiverWq \/ Respond
    \/ UnregStart \/ ib_cancel_rmpp_recvs \/ UnregFree

Spec == Init /\ [][Next]_vars

(* The CQ works and the workqueues run what they have begun, the QP          *)
(* completes what it was given and the timers expire.  Nothing is assumed of *)
(* the fabric or of the clients.                                             *)
FairSpec ==
    /\ Spec
    /\ WF_vars(SendDone) /\ WF_vars(Complete) /\ WF_vars(TimeoutSends)
    /\ WF_vars(CqCheck \/ CqBody \/ CqFinish)
    /\ WF_vars(ReceiverWq)
    /\ WF_vars(ib_cancel_rmpp_recvs) /\ WF_vars(UnregFree)
-----------------------------------------------------------------------------
(* PROPERTIES *)

(* Each record hands its list over at most once; while a record that did is  *)
(* in the agent's list, the transfer is known to be over.                    *)
Service == INSTANCE RmppService WITH
    Handovers <- Recs,
    sent  <- wr.on # "none",
    got   <- [r \in Recs |-> IF rec[r].given THEN rec[r].segs ELSE <<>>],
    known <- \E r \in Recs : rec[r].given /\ rec[r].listed,
    end   <- IF wr.result \in {"none", "ok"} THEN wr.result ELSE "failed"

(* Whatever the fabric loses, repeats or reorders and whichever timer        *)
(* expires, the receiver's client is handed nothing but the segments 1 to N  *)
(* in order, not again while the agent has the record of the handover, and   *)
(* the sender's client is told of success only after a handover              *)
(* (continue_rmpp(), process_rmpp_ack()).                                    *)
Implements == Service!Spec

(* A send work request is with the QP at most once, and the client is not    *)
(* told of the end of a send, after which it frees it, while the QP has it:  *)
(* the reference counts of ib_mad_complete_send_wr(), of a retry, of an ACK  *)
(* that sends the next segment, and of a cancelled send agree with the QP.   *)
SendOwned == wr.posted <= 1 /\ (wr.on = "gone" => wr.posted = 0 /\ todo = "none")

(* A struct mad_rmpp_recv is not freed while the CQ work uses it, while it   *)
(* is in the agent's list or while its timeout is queued                     *)
(* (destroy_rmpp_recv()); and it is freed with its clean-up queued in one    *)
(* case only, that of a transfer completed by continue_rmpp() when           *)
(* recv_timeout_handler() had it (two different locks).                      *)
NoUseAfterFree ==
    \A r \in Recs : rec[r].state = "freed" =>
        /\ cq.r # r /\ ~rec[r].listed /\ ~rec[r].timer
        /\ rec[r].cleanup => rec[r].raced

(* The MADs handed to the client are the client's: neither the timeout of    *)
(* the receive nor ib_cancel_rmpp_recvs() frees them (ib_mad_recv_handler),  *)
(* except in that one case; and a client has been handed everything that     *)
(* such a timeout frees.                                                     *)
OwnedByClient ==
    \A r \in Recs : rec[r].wcFreed => (rec[r].given <=> rec[r].raced)

(* An ACK that does not come is waited for 2 seconds (send_next_seg()). *)
AckWaitBounded ==
    wr.on = "wait" /\ wr.status = "ok" /\ wr.last_ack < N => wr.delay # "jiffies"

(* Every send ends, whatever the fabric does (timeout_sends()). *)
SendEnds == []<>(wr.on \in {"none", "gone"})

(* Every record is freed in the end: by the timeout of the receive, by the   *)
(* clean-up after it or by ib_cancel_rmpp_recvs().                           *)
RecvFreed == []<>(\A r \in Recs : rec[r].state \in {"none", "freed"})
=============================================================================
