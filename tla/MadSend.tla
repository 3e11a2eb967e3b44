------------------------------- MODULE MadSend ------------------------------
(***************************************************************************)
(* The life of a sent MAD that expects a response, on one port:            *)
(* drivers/infiniband/core/mad.c.                                          *)
(*                                                                         *)
(* A request is posted, waits for its response, is retried and ends, once. *)
(* Three queues may hold it up before the wire: the SA congestion control  *)
(* ("sa" MADs: a window of permits and a FIFO with timeouts, struct        *)
(* to_fifo), the SMP window ("smp" MADs) and the send queue of the QP.     *)
(* Clients cancel MADs and unregister agents meanwhile.                    *)
(*                                                                         *)
(* What a thread does between two locks is kept with the MAD it is about:  *)
(* "handed", out of the FIFO and about to be sent; "exp", taken by         *)
(* timeout_handler_task(); "cancel", on the list of cancel_mads();         *)
(* "smpout", out of the SMP overflow list and about to be posted; resp,    *)
(* answered and about to be completed.                                     *)
(***************************************************************************)
EXTENDS Integers, Sequences, FiniteSets

CONSTANTS
    Mads, Agents,
    AgentOf,      \* the agent of each MAD
    Classes,      \* what the MADs may be: a set of functions from Mads to
                  \* {"sa", "smp"}; a port is checked with each of them
    MaxRetries,   \* send_buf.retries of the MADs of each class
    MaxActive,    \* send_queue.max_active
    SmpWindow,    \* mad_smp_window
    SaWindow,     \* max_outstanding of the SA congestion control
    SaQueue,      \* queue_size of the SA congestion control
    Faults,       \* "map", "post": what fails when a MAD is sent, the mapping
                  \* of its buffers or ib_post_send(); "cancel", "modify":
                  \* ib_modify_mad()
    Unreg         \* the agents that may be unregistered, each with the class
                  \* that its MADs must have

NoMad == "none"

ASSUME MadSendAssumption ==
    /\ IsFiniteSet(Mads) /\ NoMad \notin Mads
    /\ AgentOf \in [Mads -> Agents]
    /\ Classes \subseteq [Mads -> {"sa", "smp"}]
    /\ MaxRetries \in [{"sa", "smp"} -> Nat] /\ SaQueue \in Nat
    /\ {MaxActive, SmpWindow, SaWindow} \subseteq Nat \ {0}
    /\ Faults \subseteq {"map", "post", "cancel", "modify"}
    /\ Unreg \subseteq Agents \X {"sa", "smp"}

VARIABLES
    class,  \* what each MAD is
    mad,    \* struct ib_mad_send_wr_private
    over,   \* the overflow_list of the QP of each class
    smp,    \* struct smp_window; leaked, extra count the ib_post_send()s that
            \* failed in ib_send_mad() and in smp_mad_done()
    cc,     \* struct sa_cc_data and its struct to_fifo; late is a canceled
            \* entry whose timeout was put off, fault that the kernel crashed
    agent   \* how far unregister_mad_agent() has come

vars == <<class, mad, over, smp, cc, agent>>

QpOf == {"sa", "smp"}

Places == {"idle", "cc", "exp", "handed", "list", "wait", "done", "cancel",
           "stuck", "gone"}
Results == {"none", "ok", "timeout", "flush", "error", "busy"}

TypeOK ==
    /\ class \in Classes
    /\ mad \in [Mads -> [place : Places, refcount : 0..2, live : BOOLEAN,
                         hw : {"none", "qp", "qover", "smpover", "smpout"},
                         status : Results, retries_left : Nat,
                         canceled : BOOLEAN, sent : BOOLEAN, resp : BOOLEAN,
                         told : 0..1]]
    /\ over \in [QpOf -> Seq(Mads)]
    /\ {smp.outstanding, smp.leaked, smp.extra} \subseteq Nat
    /\ smp.overflow \in Seq(Mads)
    /\ cc.outstanding \in 0..SaWindow
    /\ cc.fifo \in Seq(Mads) /\ cc.to \in Seq(Mads)
    /\ {cc.timer, cc.work, cc.late} \subseteq Mads \cup {NoMad}
    /\ {cc.running, cc.modified, cc.fault} \subseteq BOOLEAN
    /\ agent \in [Agents -> {"open", "freed_cc", "closed", "drained"}]

Fresh(retries) ==
         [place |-> "idle", refcount |-> 0, live |-> FALSE, hw |-> "none",
          status |-> "ok", retries_left |-> retries, canceled |-> FALSE,
          sent |-> FALSE, resp |-> FALSE, told |-> 0]

Init ==
    /\ class \in Classes
    /\ mad = [m \in Mads |-> Fresh(MaxRetries[class[m]])]
    /\ over = [c \in QpOf |-> <<>>]
    /\ smp = [outstanding |-> 0, overflow |-> <<>>, leaked |-> 0, extra |-> 0]
    /\ cc = [outstanding |-> 0, fifo |-> <<>>, to |-> <<>>, timer |-> NoMad,
             work |-> NoMad, running |-> FALSE, late |-> NoMad,
             modified |-> FALSE, fault |-> FALSE]
    /\ agent = [a \in Agents |-> "open"]

Less(x) == IF x > 0 THEN x - 1 ELSE 0   \* what is never taken below zero
Held(x) == IF x.live THEN 1 ELSE 0

(* q without the elements of S: "at" lists the places of the others. *)
Without(q, S) ==
    LET I == {i \in 1..Len(q) : q[i] \notin S}
        at == CHOOSE f \in [1..Cardinality(I) -> I] :
                 \A j, k \in 1..Cardinality(I) : j < k => f[j] < f[k]
    IN  [k \in 1..Cardinality(I) |-> q[at[k]]]

(* The client is told how its MAD ended. *)
Tell(x) == [x EXCEPT !.place = "gone", !.told = @ + 1]
-----------------------------------------------------------------------------
(* THE SA CONGESTION CONTROL *)

TimerWithout_Off(m) ==  \* mutant: the timer is not set for the next entry
    IF Head(cc.to) # m THEN cc.timer ELSE NoMad

(* The timer after entry m left the timeout list: tf_dequeue() moves it when *)
(* m was the next to expire.                                                 *)
TimerWithout(m) ==
    IF Head(cc.to) # m THEN cc.timer
    ELSE IF Len(cc.to) = 1 THEN NoMad ELSE cc.to[2]

(* tf_dequeue(): the first entry that is not canceled. *)
Waiting(M) == {i \in 1..Len(cc.fifo) : ~M[cc.fifo[i]].canceled}

(* The permit of MAD m goes to the first MAD of the FIFO. *)
PassOn(M, m) ==
    LET n == cc.fifo[CHOOSE i \in Waiting(M) : \A j \in Waiting(M) : i <= j]
    IN  /\ mad' = [M EXCEPT ![m] = Tell(@), ![n].place = "handed"]
        /\ cc' = [cc EXCEPT !.fifo = Without(@, {n}), !.to = Without(@, {n}),
                            !.timer = TimerWithout(n)]

(* The permit of MAD m goes back. *)
GiveBack(M, m) ==
    /\ mad' = [M EXCEPT ![m] = Tell(@)]
    /\ cc' = [cc EXCEPT !.outstanding = Less(@)]

sa_cc_mad_done_Back(M, m) ==    \* mutant: the FIFO is not looked at
    GiveBack(M, m)

sa_cc_mad_done_Lost(M, m) ==    \* mutant: no permit comes back from an empty FIFO
    IF Waiting(M) # {} THEN PassOn(M, m)
    ELSE mad' = [M EXCEPT ![m] = Tell(@)] /\ UNCHANGED cc

(* sa_cc_mad_done() for MAD m, which ends: under cc_obj->lock its permit is  *)
(* passed on or given back; then its client is told.  With nothing but       *)
(* canceled entries tf_dequeue() walks on to the list head and tests, for    *)
(* the flag, what lies behind it in struct to_fifo: while the timer is not   *)
(* pending that may be zero.  It then deletes the head as if it were an      *)
(* entry, through a pointer that is none: the kernel faults with both locks  *)
(* held, and the thread of m never comes back.                               *)
sa_cc_mad_done(M, m) ==
    IF Waiting(M) # {} THEN PassOn(M, m)
    ELSE \/ GiveBack(M, m)
         \/ /\ cc.fifo # <<>> /\ cc.timer = NoMad
            /\ mad' = [M EXCEPT ![m].place = "stuck"]
            /\ cc' = [cc EXCEPT !.fault = TRUE]

(* Sorted insertion in the timeout list, wherever the time of m falls. *)
InsertAt(q, i, m) == SubSeq(q, 1, i) \o <<m>> \o SubSeq(q, i + 1, Len(q))

(* tf_enqueue(). *)
tf_enqueue(m, i) ==
    cc' = [cc EXCEPT !.fifo = Append(@, m), !.to = InsertAt(@, i, m),
                     !.timer = IF i = 0 THEN m ELSE @]

(* ib_post_send_mad() of an SA MAD: sa_cc_mad_send(). *)
PostSa(m) ==
    /\ mad[m].place = "idle" /\ class[m] = "sa" /\ agent[AgentOf[m]] = "open"
    /\ \/ /\ cc.outstanding < SaWindow
          /\ cc' = [cc EXCEPT !.outstanding = @ + 1]
          /\ mad' = [mad EXCEPT ![m].place = "handed"]
       \/ /\ cc.outstanding >= SaWindow /\ Len(cc.fifo) >= SaQueue
          /\ mad' = [mad EXCEPT ![m] = [Tell(@) EXCEPT !.status = "busy"]]
          /\ UNCHANGED cc
       \/ /\ cc.outstanding >= SaWindow /\ Len(cc.fifo) < SaQueue
          /\ \E i \in 0..Len(cc.to) : tf_enqueue(m, i)
          /\ mad' = [mad EXCEPT ![m].place = "cc"]
    /\ UNCHANGED <<class, over, smp, agent>>

(* The timer of the FIFO, set for entry m: activate_timeout_handler_task().  *)
TimerFire ==
    /\ cc.timer # NoMad
    /\ cc' = [cc EXCEPT !.timer = NoMad, !.work = cc.timer]
    /\ UNCHANGED <<class, mad, over, smp, agent>>

(* How many entries have expired: those up to the last canceled one, whose   *)
(* time is that of its cancellation unless it was put off, and the one the   *)
(* timer was set for, if it is still the first.                              *)
Expired(k) ==
    /\ \A i \in 1..Len(cc.to) :
          mad[cc.to[i]].canceled /\ cc.to[i] # cc.late => i <= k
    /\ cc.to # <<>> /\ ~cc.running /\ cc.work = Head(cc.to) => k > 0

(* timeout_handler_task() under lists_lock: takes what has expired, again    *)
(* until nothing has; then sets the timer for the first entry and returns.   *)
ExpireCut(k) ==
    /\ cc.work # NoMad \/ cc.running
    /\ \A m \in Mads : mad[m].place # "exp"
    /\ Expired(k)
    /\ LET E == {cc.to[i] : i \in 1..k}
       IN  /\ mad' = [m \in Mads |-> IF m \in E
                                     THEN [mad[m] EXCEPT !.place = "exp"]
                                     ELSE mad[m]]
           /\ cc' = [cc EXCEPT !.fifo = Without(@, E), !.to = Without(@, E),
                               !.work = IF cc.running THEN @ ELSE NoMad,
                               !.running = k > 0,
                               !.timer = IF k = 0 /\ cc.to # <<>>
                                         THEN Head(cc.to) ELSE @]
    /\ UNCHANGED <<class, over, smp, agent>>

(* timeout_handler_task(), unlocked: notify_failure(). *)
ExpireNotify(m) ==
    /\ mad[m].place = "exp"
    /\ mad' = [mad EXCEPT ![m] =
                 [Tell(@) EXCEPT !.canceled = FALSE,
                                 !.status = IF mad[m].canceled THEN "flush"
                                            ELSE "timeout"]]
    /\ UNCHANGED <<class, over, smp, cc, agent>>
-----------------------------------------------------------------------------
(* THE SMP WINDOW *)

(* smp_mad_done() under window_lock: the first MAD of the overflow list is   *)
(* taken out.  S holds the MADs M and the window w.                          *)
SmpTake(S) ==
    IF S.w.overflow = <<>> THEN S
    ELSE [M |-> [S.M EXCEPT ![Head(S.w.overflow)].hw = "smpout"],
          w |-> [S.w EXCEPT !.overflow = Tail(@)]]

smp_mad_done(S) == SmpTake([S EXCEPT !.w.outstanding = Less(@)])

(* A MAD that was sent has ended, and its client is told.  w is the SMP      *)
(* window at this moment.                                                    *)
Ended(M, m, w) ==
    LET S == smp_mad_done([M |-> [M EXCEPT ![m] = Tell(@)], w |-> w])
    IN  IF class[m] = "smp"
        THEN mad' = S.M /\ smp' = S.w /\ UNCHANGED cc
        ELSE sa_cc_mad_done(M, m) /\ smp' = w

wait_for_response(x) == [x EXCEPT !.place = "wait", !.live = TRUE]

PutSend_NoWait(x, status) ==    \* mutant: wait_for_response() forgotten
    [x EXCEPT !.refcount = @ - 1]

(* The reference that ib_mad_complete_send_wr() puts. *)
PutSend(x, status) ==
    LET failed == status # "ok" /\ x.status = "ok"
        y == [x EXCEPT !.status = IF failed THEN status ELSE @,
                       !.refcount = @ - 1 - (IF failed THEN Held(x) ELSE 0)]
    IN  IF y.refcount = 1 /\ y.live /\ y.status = "ok" THEN wait_for_response(y)
        ELSE y

ib_mad_complete_send_wr(M, m, status) ==
    LET x == PutSend(M[m], status)
    IN  IF x.refcount > 0
        THEN mad' = [M EXCEPT ![m] = x] /\ UNCHANGED <<cc, smp>>
        ELSE Ended([M EXCEPT ![m] = x], m, smp)
-----------------------------------------------------------------------------
(* THE QP *)

Active(c) == Cardinality({m \in Mads : class[m] = c /\ mad[m].hw \in {"qp", "qover"}})

(* The end of ib_send_mad() and of smp_mad_done(): to the QP, or behind the  *)
(* MADs that wait for it.                                                    *)
HwOf(m) == IF Active(class[m]) < MaxActive THEN "qp" ELSE "qover"
OverWith(m) == IF HwOf(m) = "qp" THEN over
               ELSE [over EXCEPT ![class[m]] = Append(@, m)]
Posted(x, hw) == [x EXCEPT !.hw = hw, !.sent = @ \/ hw = "qp"]

(* ib_send_mad() holds an SMP back. *)
HeldBack(m) == class[m] = "smp" /\ smp.outstanding >= SmpWindow

(* ib_send_mad() that succeeds: what it makes of the window and of the MAD. *)
SmpWith(m) == IF class[m] # "smp" THEN smp
              ELSE IF HeldBack(m) THEN [smp EXCEPT !.overflow = Append(@, m)]
              ELSE [smp EXCEPT !.outstanding = @ + 1]
SentMad(x, m) == Posted(x, IF HeldBack(m) THEN "smpover" ELSE HwOf(m))
OverSent(m) == IF HeldBack(m) THEN over ELSE OverWith(m)

(* The ways ib_send_mad() fails, with the window after it: a place that was  *)
(* taken for an SMP is not given back.                                       *)
SmpLeak(m) == IF class[m] # "smp" THEN smp
              ELSE [SmpWith(m) EXCEPT !.leaked = @ + 1]
SendFails(m, w) ==
    \/ "map" \in Faults /\ w = smp
    \/ "post" \in Faults /\ ~HeldBack(m) /\ HwOf(m) = "qp" /\ w = SmpLeak(m)

Listed_OneRef(x) ==     \* mutant: no reference for the response
    [x EXCEPT !.place = "list", !.live = TRUE, !.refcount = 1]

(* send_sa_cc_mad() and ib_post_send_mad() before ib_send_mad(). *)
Listed(x) == [x EXCEPT !.place = "list", !.live = TRUE, !.refcount = 2]

(* ib_post_send_mad() of an SMP. *)
PostSmp(m) ==
    /\ mad[m].place = "idle" /\ class[m] = "smp" /\ agent[AgentOf[m]] = "open"
    /\ \/ /\ mad' = [mad EXCEPT ![m] = SentMad(Listed(@), m)]
          /\ smp' = SmpWith(m) /\ over' = OverSent(m)
       \/ /\ \E w \in {smp, SmpLeak(m)} : SendFails(m, w) /\ smp' = w
          /\ mad' = [mad EXCEPT ![m] = [Tell(@) EXCEPT !.status = "error"]]
          /\ UNCHANGED over
    /\ UNCHANGED <<class, cc, agent>>

(* send_sa_cc_mad(): from sa_cc_mad_send() or for a MAD out of the FIFO.  A  *)
(* MAD that cannot be sent passes its permit on.                             *)
SendHanded(m) ==
    /\ mad[m].place = "handed"
    /\ \/ /\ agent[AgentOf[m]] \in {"open", "freed_cc"}
          /\ mad' = [mad EXCEPT ![m] = SentMad(Listed(@), m)]
          /\ over' = OverSent(m) /\ UNCHANGED cc
       \/ /\ agent[AgentOf[m]] \notin {"open", "freed_cc"} \/ SendFails(m, smp)
          /\ sa_cc_mad_done([mad EXCEPT ![m].status = "error"], m)
          /\ UNCHANGED over
    /\ UNCHANGED <<class, smp, agent>>

(* smp_mad_done() posts what it took from the overflow list.  A failure      *)
(* completes that MAD, which calls smp_mad_done() for it although it has no  *)
(* place in the window, and takes the next one.                              *)
SmpPost(m) ==
    /\ mad[m].hw = "smpout"
    /\ \/ /\ mad' = [mad EXCEPT ![m] = Posted(@, HwOf(m))]
          /\ over' = OverWith(m)
          /\ smp' = [smp EXCEPT !.outstanding = @ + 1]
       \/ /\ "post" \in Faults /\ HwOf(m) = "qp"
          /\ LET x == PutSend([mad[m] EXCEPT !.hw = "none"], "error")
                 w == [smp EXCEPT !.extra = @ + 1]
                 S == IF x.refcount > 0
                      THEN [M |-> [mad EXCEPT ![m] = x], w |-> w]
                      ELSE smp_mad_done([M |-> [mad EXCEPT ![m] = Tell(x)], w |-> w])
             IN  mad' = SmpTake(S).M /\ smp' = SmpTake(S).w
          /\ UNCHANGED over
    /\ UNCHANGED <<class, cc, agent>>

(* ib_mad_send_done(): the first MAD behind the QP takes the place. *)
SendDone(m) ==
    /\ mad[m].hw = "qp"
    /\ LET q == over[class[m]]
           M == [mad EXCEPT ![m].hw = "none"]
       IN  IF q = <<>>
           THEN ib_mad_complete_send_wr(M, m, "ok") /\ UNCHANGED over
           ELSE /\ ib_mad_complete_send_wr([M EXCEPT ![Head(q)] = Posted(@, "qp")],
                                           m, "ok")
                /\ over' = [over EXCEPT ![class[m]] = Tail(@)]
    /\ UNCHANGED <<class, agent>>
-----------------------------------------------------------------------------
(* RESPONSES, TIMEOUTS AND CLIENTS *)

(* ib_mad_complete_recv() under the agent's lock: a response finds its       *)
(* request, also before the send is known to have completed.                 *)
Response(m) ==
    LET x == mad[m]
    IN  /\ x.sent /\ x.status = "ok" /\ ~x.resp
        /\ x.place = "wait" \/ (x.place = "list" /\ x.live)
        /\ mad' = [mad EXCEPT ![m].live = FALSE, ![m].resp = TRUE,
                              ![m].place = IF x.refcount = 1 THEN "done" ELSE @]
        /\ UNCHANGED <<class, over, smp, cc, agent>>

(* ib_mad_complete_recv(), unlocked, after the client's recv_handler(). *)
Complete(m) ==
    /\ mad[m].resp
    /\ ib_mad_complete_send_wr([mad EXCEPT ![m].resp = FALSE], m, "ok")
    /\ UNCHANGED <<class, over, agent>>

(* timeout_sends(), when the wait of m is over: retry_send(), after which    *)
(* an SMP gives back the place in the window that it had before.             *)
TimeoutSends(m) ==
    LET x == mad[m]
        again == [x EXCEPT !.retries_left = @ - 1, !.live = TRUE,
                           !.refcount = @ + 1, !.place = "list"]
        S == [M |-> [mad EXCEPT ![m] = SentMad(again, m)], w |-> SmpWith(m)]
        D == IF class[m] = "smp" THEN smp_mad_done(S) ELSE S
        over1 == [x EXCEPT !.status = IF @ = "ok" THEN "timeout" ELSE @]
    IN  /\ x.place = "wait"
        /\ \/ /\ x.status = "ok" /\ x.retries_left > 0
              /\ mad' = D.M /\ smp' = D.w /\ over' = OverSent(m) /\ UNCHANGED cc
           \/ /\ \E w \in {smp, SmpLeak(m)} :
                    /\ \/ w = smp /\ (x.status # "ok" \/ x.retries_left = 0)
                       \/ x.status = "ok" /\ x.retries_left > 0 /\ SendFails(m, w)
                    /\ Ended([mad EXCEPT ![m] = over1], m, w)
              /\ UNCHANGED over
        /\ UNCHANGED <<class, agent>>

(* tf_modify_item() without a time left: the entry goes to the head of the   *)
(* timeout list and to the tail of the FIFO.                                 *)
tf_cancel_item(m) ==
    /\ mad[m].place = "cc"
    /\ mad' = [mad EXCEPT ![m].canceled = TRUE]
    /\ cc' = [cc EXCEPT !.to = <<m>> \o Without(@, {m}),
                        !.fifo = Append(Without(@, {m}), m), !.timer = m,
                        !.late = IF @ = m THEN NoMad ELSE @]

(* ib_cancel_mad(): ib_modify_mad() with timeout_ms 0, of a MAD on one of    *)
(* the agent's lists, or of one in the FIFO.                                 *)
CancelMad(m) ==
    LET x == mad[m]
        y == [x EXCEPT !.status = "flush", !.refcount = @ - Held(x)]
    IN  /\ "cancel" \in Faults
        /\ \/ /\ x.place \in {"list", "wait"} /\ x.status = "ok"
              /\ mad' = [mad EXCEPT ![m] =
                            IF ~x.live \/ x.refcount > 1
                            THEN [y EXCEPT !.live = FALSE]
                            ELSE wait_for_response(y)]
              /\ UNCHANGED cc
           \/ tf_cancel_item(m)
        /\ UNCHANGED <<class, over, smp, agent>>

(* ib_modify_mad() with another timeout: of a MAD on one of the agent's      *)
(* lists, which waits on as before; of an entry of the FIFO, canceled ones   *)
(* too, which moves in the timeout list, or is canceled if the new timeout   *)
(* is not above time_sa_mad.  A client that put the timeout off for ever     *)
(* would wait for ever: one MAD is modified, once.  No caller modifies a MAD *)
(* whose response is being handled.                                          *)
ModifyMad(m) ==
    /\ "modify" \in Faults /\ ~cc.modified
    /\ \/ /\ mad[m].place \in {"list", "wait"} /\ mad[m].status = "ok" /\ mad[m].live
          /\ cc' = [cc EXCEPT !.modified = TRUE] /\ UNCHANGED mad
       \/ /\ mad[m].place = "cc"
          /\ LET others == Without(cc.to, {m})
             IN  \E i \in 0..Len(others) :
                    cc' = [cc EXCEPT !.to = InsertAt(others, i, m),
                                     !.timer = IF i = 0 THEN m ELSE @,
                                     !.late = IF mad[m].canceled THEN m ELSE @,
                                     !.modified = TRUE]
          /\ UNCHANGED mad
       \/ tf_cancel_item(m)
    /\ UNCHANGED <<class, over, smp, agent>>

(* cancel_mads(): first tf_free_agent(). *)
UnregCc(a) ==
    LET E == {m \in Mads : AgentOf[m] = a /\ mad[m].place = "cc"}
    IN  /\ agent[a] = "open"
        /\ \A m \in Mads : AgentOf[m] = a => <<a, class[m]>> \in Unreg
        /\ mad' = [m \in Mads |-> IF m \in E
                                  THEN [Tell(mad[m]) EXCEPT !.status = "flush"]
                                  ELSE mad[m]]
        /\ cc' = [cc EXCEPT !.fifo = Without(@, E), !.to = Without(@, E)]
        /\ agent' = [agent EXCEPT ![a] = "freed_cc"]
        /\ UNCHANGED <<class, over, smp>>

(* cancel_mads() under the agent's lock. *)
UnregClose(a) ==
    /\ agent[a] = "freed_cc"
    /\ mad' = [m \in Mads |->
                 IF AgentOf[m] # a THEN mad[m]
                 ELSE IF mad[m].place = "wait" THEN [mad[m] EXCEPT !.place = "cancel"]
                 ELSE IF mad[m].place = "list" /\ mad[m].status = "ok"
                 THEN [mad[m] EXCEPT !.status = "flush",
                                     !.refcount = @ - Held(mad[m])]
                 ELSE mad[m]]
    /\ agent' = [agent EXCEPT ![a] = "closed"]
    /\ UNCHANGED <<class, over, smp, cc>>

(* cancel_mads() reports the MADs of its list one by one. *)
UnregReport(m) ==
    LET M == [mad EXCEPT ![m].status = "flush"]
    IN  /\ mad[m].place = "cancel"
        /\ IF class[m] = "smp"
           THEN /\ smp' = [smp EXCEPT !.outstanding = @ - 1]
                /\ mad' = [M EXCEPT ![m] = Tell(@)] /\ UNCHANGED cc
           ELSE Ended(M, m, smp)
        /\ UNCHANGED <<class, over, agent>>

(* cancel_mads(), at last: the MADs in the overflow list of the SMP window. *)
UnregOverflow(a) ==
    LET E == {m \in Mads : AgentOf[m] = a /\ mad[m].hw = "smpover"}
    IN  /\ agent[a] = "closed"
        /\ \A m \in Mads : AgentOf[m] = a => mad[m].place # "cancel"
        /\ mad' = [m \in Mads |-> IF m \in E
                                  THEN [Tell(mad[m]) EXCEPT !.hw = "none"]
                                  ELSE mad[m]]
        /\ smp' = [smp EXCEPT !.overflow = Without(@, E)]
        /\ agent' = [agent EXCEPT ![a] = "drained"]
        /\ UNCHANGED <<class, over, cc>>
-----------------------------------------------------------------------------
(* Nothing is modelled of a kernel that has crashed. *)
Cancel(a) == ~cc.fault /\ (UnregCc(a) \/ UnregClose(a) \/ UnregOverflow(a))

Client ==
    /\ ~cc.fault
    /\ \E m \in Mads : PostSa(m) \/ PostSmp(m) \/ CancelMad(m) \/ ModifyMad(m) \/ Response(m)

(* The steps that the threads of the MAD layer take without being asked. *)
MadStep(m) ==
    /\ ~cc.fault
    /\ \/ SendHanded(m) \/ SmpPost(m) \/ SendDone(m) \/ Complete(m)
       \/ TimeoutSends(m) \/ ExpireNotify(m) \/ UnregReport(m)

Timer == ~cc.fault /\ TimerFire
Expire == ~cc.fault /\ \E k \in 0..Len(cc.to) : ExpireCut(k)

Next ==
    \/ Client \/ Timer \/ Expire
    \/ \E m \in Mads : MadStep(m)
    \/ \E a \in Agents : Cancel(a)

Spec == Init /\ [][Next]_vars

(* Every MAD the QP has completes and every timer expires; a thread that is  *)
(* inside a function goes on; an agent that is being unregistered too.       *)
FairSpec ==
    /\ Spec
    /\ \A m \in Mads : WF_vars(MadStep(m))
    /\ WF_vars(Timer) /\ WF_vars(Expire)
    /\ \A a \in Agents : WF_vars(Cancel(a) /\ agent[a] # "open")
-----------------------------------------------------------------------------
(* PROPERTIES *)

(* The MADs that use a permit of the SA congestion control, and those that   *)
(* should take a place in the SMP window: sent and not at an end yet.        *)
SaHolders == {m \in Mads : class[m] = "sa" /\ mad[m].place \in
                             {"handed", "list", "wait", "done", "cancel", "stuck"}}
SmpHolders == {m \in Mads : /\ class[m] = "smp"
                            /\ mad[m].place \in {"list", "wait", "done", "cancel"}
                            /\ mad[m].hw \notin {"smpover", "smpout"}}

(* The permits are exactly those of the SA MADs under way: none is lost or   *)
(* used twice when a MAD is handed over, retried, answered late, cancelled,  *)
(* fails to be sent or is taken down by the fault of tf_dequeue().  The SMP  *)
(* window counts the SMPs under way and, for ever, every one that            *)
(* ib_send_mad() failed to post; it can be short by one for every SMP that   *)
(* smp_mad_done() failed to post, and by no other step (sa_cc_mad_done(),    *)
(* ib_send_mad(), smp_mad_done()).                                           *)
Counted ==
    /\ cc.outstanding = Cardinality(SaHolders)
    /\ LET full == Cardinality(SmpHolders) + smp.leaked
       IN  smp.outstanding \in full - smp.extra .. full

(* A MAD waits for a permit only while some MAD is under way that will pass  *)
(* one on when it ends, or while ib_post_send()s that failed have used up    *)
(* the whole SMP window.                                                     *)
NoneStranded ==
    /\ Waiting(mad) # {} => SaHolders # {}
    /\ smp.overflow # <<>> => \/ SmpHolders # {} \/ smp.leaked >= SmpWindow
                             \/ \E m \in Mads : mad[m].hw = "smpout"

(* The client is told of each MAD once, and only when neither the QP nor a   *)
(* queue nor a thread that will complete it has it any more.                 *)
ToldOnce ==
    \A m \in Mads :
       /\ mad[m].told <= 1
       /\ mad[m].place = "gone" => mad[m].hw = "none" /\ ~mad[m].resp

(* The FIFO is never left without the timer that ends the wait of its        *)
(* entries, whichever entry is dequeued, cancelled, modified or freed        *)
(* (tf_dequeue(), tf_modify_item(), timeout_handler_task()).                 *)
TimerArmed == cc.to # <<>> => cc.timer # NoMad \/ cc.work # NoMad \/ cc.running

(* "Maximun number of outgoing SMP requests" (mad_smp_window). *)
WindowHeld == Cardinality(SmpHolders) <= SmpWindow

=============================================================================
