----------------------------- MODULE RmppProofs -----------------------------
(***************************************************************************)
(* Proofs about Rmpp, for every number of segments, every window and every *)
(* number of retries and of receive records, with every fault, and with    *)
(* the race between recv_timeout_handler() and continue_rmpp(): what is    *)
(* proved of the receiver says that the race is the only way to a record   *)
(* or a MAD that is freed too early.                                       *)
(***************************************************************************)
EXTENDS Rmpp, TLAPS, FiniteSetTheorems, SequenceTheorems, WellFoundedInduction

USE DEF sender, receiver

(* The types that both halves of the invariant need.                       *)
WrType == [on : {"none", "send", "wait", "done", "gone"}, seg : Nat,
           last_ack : Nat, newwin : Nat, refcount : Int, timeout : Times,
           delay : Times, retries_left : Int, status : Results \ {"none"},
           result : Results, posted : Int]

RecType == [state : {"none", "ACTIVE", "TIMEOUT", "COMPLETE", "freed"},
            seg_num : Nat, newwin : Nat, last_ack : Nat, refcount : Int,
            segs : Seq(1..N), listed : BOOLEAN, timer : BOOLEAN,
            cleanup : BOOLEAN, given : BOOLEAN, wcFreed : BOOLEAN,
            raced : BOOLEAN]

Packet == [type : {"DATA", "ACK", "ABORT", "RESP"}, seg : Nat, newwin : Nat]

Types ==
    /\ tms \in TimeoutMs
    /\ wr \in WrType /\ todo \in Results
    /\ net \subseteq Packet
    /\ rec \in [Recs -> RecType]
    /\ cq \in [at : {"idle", "check", "body", "finish"}, r : Recs \cup {NoRec},
               seg : 0..N]
    /\ wq \in [at : {"idle", "expire", "nack", "wait", "cwait"}, r : Recs \cup {NoRec}]
    /\ cq.at # "idle" => cq.r \in Recs /\ cq.seg \in 1..N
    /\ wq.at # "idle" => wq.r \in Recs
    /\ agent \in {"open", "closing", "flushing", "closed"}

-----------------------------------------------------------------------------
(* THE SENDER *)

Count(b) == IF b THEN 1 ELSE 0

(* The reference count of the send: one while the QP has it, one for the   *)
(* response or the ACK that is waited for, until the send fails, and one   *)
(* for a completion under way.                                             *)
SendRefs ==
    /\ wr.on \in {"none", "gone"} => wr.posted = 0 /\ todo = "none"
    /\ wr.on = "send" => wr.posted = 1
    /\ wr.on = "wait" => /\ wr.posted = 0 /\ todo = "none"
                         /\ wr.status = "ok" => wr.timeout # "zero"
    /\ wr.on = "done" => wr.posted = 0 /\ todo # "none"
    /\ todo # "none" => wr.timeout = "zero"
    /\ wr.on \in {"send", "wait", "done"} =>
          wr.refcount = wr.posted
                        + Count(wr.status = "ok" /\ wr.timeout # "zero")
                        + Count(todo # "none")
    /\ wr.on = "gone" <=> wr.result # "none"
    /\ wr.on = "none" => wr.last_ack = 0 /\ wr.status = "ok"
    /\ tms = "none" /\ wr.last_ack = N /\ wr.status = "ok" => wr.timeout = "zero"

SendInv ==
    /\ tms \in TimeoutMs /\ wr \in WrType /\ todo \in Results /\ net \subseteq Packet
    /\ SendRefs

(* The types of the fields of a send.                                      *)
LEMMA WrFields ==
    ASSUME NEW w \in WrType
    PROVE  /\ w.on \in {"none", "send", "wait", "done", "gone"}
           /\ w.seg \in Nat /\ w.last_ack \in Nat /\ w.newwin \in Nat
           /\ w.refcount \in Int /\ w.timeout \in Times /\ w.delay \in Times
           /\ w.retries_left \in Int /\ w.status \in Results \ {"none"}
           /\ w.result \in Results /\ w.posted \in Int
  BY DEF WrType

(* send_next_seg() advances seg and arms the response time, nothing else.  *)
LEMMA NextSegType ==
    ASSUME NEW w \in WrType
    PROVE  /\ NextSeg(w) \in WrType
           /\ NextSeg(w).on = w.on /\ NextSeg(w).posted = w.posted
           /\ NextSeg(w).refcount = w.refcount /\ NextSeg(w).status = w.status
           /\ NextSeg(w).result = w.result /\ NextSeg(w).last_ack = w.last_ack
           /\ NextSeg(w).timeout = IF tms = "short" THEN w.timeout ELSE "ack"
<1> DEFINE k == w.seg + 1
           t == IF tms = "short" THEN w.timeout ELSE "ack"
           v == [w EXCEPT !.seg = k, !.timeout = t]
<1>1. k \in Nat /\ t \in Times
  BY WrFields DEF Times
<1>2. NextSeg(w) = v
  BY DEF NextSeg
<1> HIDE DEF k, t
<1>3. v \in WrType
  BY <1>1 DEF WrType
<1>4. /\ v.on = w.on /\ v.posted = w.posted /\ v.refcount = w.refcount
      /\ v.status = w.status /\ v.result = w.result /\ v.last_ack = w.last_ack
      /\ v.timeout = t
  BY DEF WrType
<1> HIDE DEF v
<1> QED BY <1>2, <1>3, <1>4, WrFields DEF t

(* ib_mad_complete_send_wr() drops one reference, or two when it is the    *)
(* first to fail the send, and ends the send when none is left.            *)
LEMMA PutSendType ==
    ASSUME NEW w \in WrType, NEW s \in Results \ {"none"}
    PROVE  /\ PutSend(w, s) \in WrType
           /\ PutSend(w, s).posted = w.posted /\ PutSend(w, s).last_ack = w.last_ack
           /\ LET st == IF s # "ok" /\ w.status = "ok" THEN s ELSE w.status
                  n == w.refcount - 1 - (IF s # "ok" /\ w.status = "ok" THEN Held(w) ELSE 0)
              IN  /\ PutSend(w, s).status = st /\ PutSend(w, s).refcount = n
                  /\ \/ /\ n <= 0 /\ PutSend(w, s).on = "gone"
                        /\ PutSend(w, s).result = IF st # "ok" THEN st ELSE s
                        /\ PutSend(w, s).timeout = w.timeout
                     \/ /\ n = 1 /\ w.timeout # "zero" /\ st = "ok"
                        /\ PutSend(w, s).on = "wait" /\ PutSend(w, s).timeout = "jiffies"
                        /\ PutSend(w, s).result = w.result
                     \/ /\ n > 0 /\ ~(n = 1 /\ w.timeout # "zero" /\ st = "ok")
                        /\ PutSend(w, s).on = w.on /\ PutSend(w, s).timeout = w.timeout
                        /\ PutSend(w, s).result = w.result
<1> DEFINE st == IF s # "ok" /\ w.status = "ok" THEN s ELSE w.status
           n == w.refcount - 1 - (IF s # "ok" /\ w.status = "ok" THEN Held(w) ELSE 0)
           m == w.refcount - Held(w)
           w1 == IF s # "ok" /\ w.status = "ok"
                 THEN [w EXCEPT !.status = s, !.refcount = m] ELSE w
           k == w1.refcount - 1
           v == [w1 EXCEPT !.refcount = k]
           res == IF st # "ok" THEN st ELSE s
<1>1. n \in Int /\ m \in Int /\ st \in Results \ {"none"} /\ res \in Results
  BY WrFields DEF Held
<1>2. PutSend(w, s) = IF v.refcount > 0
        THEN IF v.refcount = 1 /\ v.timeout # "zero" /\ v.status = "ok"
             THEN wait_for_response(v) ELSE v
        ELSE [v EXCEPT !.on = "gone", !.result = IF v.status # "ok" THEN v.status ELSE s]
  BY Zenon DEF PutSend
<1> HIDE DEF m
<1>3. /\ w1 \in WrType /\ w1.on = w.on /\ w1.posted = w.posted
      /\ w1.refcount = (IF s # "ok" /\ w.status = "ok" THEN m ELSE w.refcount)
      /\ w1.status = st /\ w1.result = w.result /\ w1.timeout = w.timeout
      /\ w1.last_ack = w.last_ack
  BY <1>1 DEF WrType
<1> HIDE DEF w1
<1>k. k = n /\ k \in Int
  BY <1>1, <1>3, WrFields DEF m, Held
<1> HIDE DEF n, st, k
<1>4. /\ v \in WrType /\ v.on = w.on /\ v.posted = w.posted /\ v.refcount = n
      /\ v.status = st /\ v.result = w.result /\ v.timeout = w.timeout
      /\ v.last_ack = w.last_ack
  BY <1>3, <1>k DEF WrType
<1> HIDE DEF v
<1>5. CASE n = 1 /\ w.timeout # "zero" /\ st = "ok"
  <2>1. PutSend(w, s) = wait_for_response(v)
    BY <1>2, <1>4, <1>5
  <2>2. wait_for_response(v) \in WrType
    BY <1>4 DEF wait_for_response, WrType, Times
  <2> QED BY <1>4, <1>5, <2>1, <2>2 DEF wait_for_response, WrType, n, st
<1>6. CASE n > 0 /\ ~(n = 1 /\ w.timeout # "zero" /\ st = "ok")
  <2>1. PutSend(w, s) = v
    BY <1>2, <1>4, <1>6
  <2> QED BY <1>4, <1>6, <2>1 DEF n, st
<1>7. CASE n <= 0
  <2>1. PutSend(w, s) = [v EXCEPT !.on = "gone", !.result = res]
    BY <1>1, <1>2, <1>4, <1>7
  <2> HIDE DEF res
  <2>2. [v EXCEPT !.on = "gone", !.result = res] \in WrType
    BY <1>1, <1>4 DEF WrType
  <2>3. LET u == [v EXCEPT !.on = "gone", !.result = res]
        IN  u.on = "gone" /\ u.posted = v.posted /\ u.refcount = v.refcount
            /\ u.status = v.status /\ u.result = res /\ u.timeout = v.timeout
            /\ u.last_ack = v.last_ack
    BY <1>4 DEF WrType
  <2> QED BY <1>4, <1>7, <2>1, <2>2, <2>3 DEF n, st, res
<1> QED BY <1>1, <1>5, <1>6, <1>7

(* A send with another timeout is a send like it in all else.              *)
LEMMA SetTimeout ==
    ASSUME NEW w \in WrType, NEW t \in Times, NEW v, v = [w EXCEPT !.timeout = t]
    PROVE  /\ v \in WrType /\ v.timeout = t
           /\ v.on = w.on /\ v.posted = w.posted /\ v.refcount = w.refcount
           /\ v.status = w.status /\ v.result = w.result /\ v.last_ack = w.last_ack
  BY DEF WrType

(* A send with another count of posted work requests is one too.           *)
LEMMA SetPosted ==
    ASSUME NEW w \in WrType, NEW n \in Int, NEW v, v = [w EXCEPT !.posted = n]
    PROVE  /\ v \in WrType /\ v.posted = n
           /\ v.on = w.on /\ v.timeout = w.timeout /\ v.refcount = w.refcount
           /\ v.status = w.status /\ v.result = w.result /\ v.last_ack = w.last_ack
           /\ v.seg = w.seg
  BY DEF WrType

(* send_next_seg() that succeeds.                                          *)
LEMMA SendNextSeg ==
    ASSUME NEW w \in WrType, send_next_seg(w), net \subseteq Packet
    PROVE  /\ wr' \in WrType /\ wr'.posted = w.posted + 1
           /\ wr'.on = w.on /\ wr'.refcount = w.refcount
           /\ wr'.status = w.status /\ wr'.result = w.result
           /\ wr'.last_ack = w.last_ack
           /\ wr'.timeout = IF tms = "short" THEN w.timeout ELSE "ack"
           /\ net' \subseteq Packet
<1> DEFINE v == NextSeg(w)  n == w.posted + 1
<1>1. n \in Int
  BY WrFields
<1>2. v.posted = w.posted
  BY NextSegType
<1>3. wr' = [v EXCEPT !.posted = n]
  BY <1>2 DEF send_next_seg
<1> HIDE DEF n
<1>4. wr' \in WrType /\ wr'.posted = n /\ wr'.on = v.on /\ wr'.timeout = v.timeout
      /\ wr'.refcount = v.refcount /\ wr'.status = v.status
      /\ wr'.result = v.result /\ wr'.last_ack = v.last_ack
  BY <1>1, <1>3, NextSegType, SetPosted
<1>5. net' \subseteq Packet
  BY WrFields DEF send_next_seg, Data, Packet
<1> QED BY <1>4, <1>5, NextSegType DEF n

(* ib_mad_complete_send_wr(), which holds one of the references.           *)
LEMMA CompleteSend ==
    ASSUME NEW w \in WrType, NEW s \in Results \ {"none"},
           ib_mad_complete_send_wr(w, s), net \subseteq Packet, tms \in TimeoutMs,
           UNCHANGED tms, todo' = "none",
           w.on \in {"send", "done"}, w.result = "none", w.posted \in {0, 1},
           w.posted = 1 => w.on = "send" /\ w.timeout = "zero",
           w.on = "done" => w.timeout = "zero",
           w.refcount = 1 + w.posted + Count(w.status = "ok" /\ w.timeout # "zero"),
           tms = "none" /\ w.last_ack = N /\ w.status = "ok" => w.timeout = "zero"
    PROVE  SendInv'
<1> DEFINE running == s = "ok" /\ w.status = "ok" /\ w.timeout # "zero"
           more == /\ running /\ w.last_ack # N
                   /\ w.seg # w.newwin /\ w.seg # N
           v == IF running /\ w.last_ack = N
                THEN [w EXCEPT !.timeout = MsTime] ELSE w
<1>0. "error" \in Results \ {"none"}
  BY DEF Results
<1>1. CASE more /\ send_next_seg(w)
  <2>1. w.on = "send" /\ w.posted = 0 /\ w.refcount = 2
    BY <1>1 DEF Count
  <2>2. wr'.timeout # "zero"
    BY <1>1, SendNextSeg
  <2> QED BY <1>1, <2>1, <2>2, SendNextSeg DEF SendInv, SendRefs, Count, Results
<1>2. CASE more /\ wr' = PutSend(NextSeg(w), "error") /\ UNCHANGED net
  <2>1. w.on = "send" /\ w.posted = 0 /\ w.refcount = 2
    BY <1>2 DEF Count
  <2>2. NextSeg(w) \in WrType /\ NextSeg(w).timeout # "zero" /\ NextSeg(w).status = "ok"
        /\ NextSeg(w).posted = 0 /\ NextSeg(w).refcount = 2 /\ NextSeg(w).last_ack = w.last_ack
    BY <1>2, <2>1, NextSegType
  <2>3. wr' \in WrType /\ wr'.on = "gone" /\ wr'.result = "error" /\ wr'.posted = 0
        /\ wr'.status = "error"
    BY <1>0, <1>2, <2>2, PutSendType DEF Held
  <2> QED BY <1>2, <2>3 DEF SendInv, SendRefs, Results
<1>3. CASE ~more /\ wr' = PutSend(v, s) /\ UNCHANGED net
  <2>1. MsTime \in Times /\ (tms # "none" => MsTime # "zero")
    BY DEF MsTime, Times
  <2>2. /\ v \in WrType /\ v.on = w.on /\ v.posted = w.posted
        /\ v.refcount = w.refcount /\ v.status = w.status /\ v.result = w.result
        /\ v.last_ack = w.last_ack
        /\ (v.timeout = "zero" <=> w.timeout = "zero")
    BY <2>1, SetTimeout
  <2> HIDE DEF v
  <2> DEFINE st == IF s # "ok" /\ w.status = "ok" THEN s ELSE w.status
             n == w.posted + Count(st = "ok" /\ w.timeout # "zero")
  <2>3. v.refcount - 1 - (IF s # "ok" /\ v.status = "ok" THEN Held(v) ELSE 0) = n
    BY <2>2 DEF Held, Count
  <2>4. /\ wr' \in WrType /\ wr'.posted = w.posted /\ wr'.last_ack = w.last_ack
        /\ wr'.status = st /\ wr'.refcount = n
        /\ \/ n <= 0 /\ wr'.on = "gone" /\ wr'.result = (IF st # "ok" THEN st ELSE s)
              /\ wr'.timeout = v.timeout
           \/ n = 1 /\ v.timeout # "zero" /\ st = "ok" /\ wr'.on = "wait"
              /\ wr'.timeout = "jiffies" /\ wr'.result = "none"
           \/ n > 0 /\ ~(n = 1 /\ v.timeout # "zero" /\ st = "ok")
              /\ wr'.on = w.on /\ wr'.timeout = v.timeout /\ wr'.result = "none"
    <3> HIDE DEF n
    <3> QED BY <1>3, <2>2, <2>3, PutSendType
  <2>5. w.status \in Results \ {"none"} /\ st # "none"
    BY WrFields
  <2>6. SendRefs'
    BY <2>2, <2>4, <2>5 DEF SendRefs, Count
  <2> QED BY <1>3, <2>4, <2>6 DEF SendInv, Results
<1> QED BY <1>1, <1>2, <1>3 DEF ib_mad_complete_send_wr

(* ib_mark_mad_done() moves a send to done_list only when the completion   *)
(* of its last segment is all it waits for.                                *)
LEMMA MarkDone ==
    ASSUME NEW w \in WrType, NEW v, v = ib_mark_mad_done(w)
    PROVE  /\ v \in WrType /\ v.timeout = "zero"
           /\ v.on = IF w.refcount = 1 THEN "done" ELSE w.on
           /\ v.posted = w.posted /\ v.refcount = w.refcount
           /\ v.status = w.status /\ v.result = w.result /\ v.last_ack = w.last_ack
  BY DEF ib_mark_mad_done, WrType, Times

(* wait_for_response() puts the send on wait_list and changes no           *)
(* reference.                                                              *)
LEMMA WaitForResponse ==
    ASSUME NEW w \in WrType, NEW v, v = wait_for_response(w)
    PROVE  /\ v \in WrType /\ v.timeout = "jiffies" /\ v.on = "wait"
           /\ v.posted = w.posted /\ v.refcount = w.refcount
           /\ v.status = w.status /\ v.result = w.result /\ v.last_ack = w.last_ack
  BY DEF wait_for_response, WrType, Times

(* A send completion, and the report to the client after it, keep the      *)
(* references of the send accounted for.                                   *)
LEMMA SendDoneInv ==
    ASSUME SendInv, SendDone \/ Complete
    PROVE  SendInv'
<1>1. CASE SendDone
  <2> DEFINE n == wr.posted - 1  w == [wr EXCEPT !.posted = n]
  <2>1. PICK s \in {"ok", "error"} : ib_mad_complete_send_wr(w, s)
    BY <1>1 DEF SendDone
  <2>2. /\ wr.on = "send" /\ n = 0 /\ wr.result = "none" /\ todo = "none"
        /\ wr.refcount = 1 + Count(wr.status = "ok" /\ wr.timeout # "zero")
    BY <1>1, WrFields DEF SendDone, SendInv, SendRefs, Count, WrType
  <2>3. /\ w \in WrType /\ w.posted = 0 /\ w.on = "send" /\ w.timeout = wr.timeout
        /\ w.refcount = wr.refcount /\ w.status = wr.status /\ w.result = "none"
        /\ w.last_ack = wr.last_ack
    <3>1. n \in Int
      BY <2>2
    <3> HIDE DEF n
    <3> QED BY <3>1, <2>2 DEF SendInv, WrType
  <2>4. /\ UNCHANGED tms /\ todo' = "none" /\ s \in Results \ {"none"}
        /\ net \subseteq Packet /\ tms \in TimeoutMs
        /\ tms = "none" /\ w.last_ack = N /\ w.status = "ok" => w.timeout = "zero"
    BY <1>1, <2>2, <2>3 DEF SendDone, SendInv, SendRefs, Results
  <2> HIDE DEF w
  <2> QED BY <2>1, <2>2, <2>3, <2>4, CompleteSend DEF Count
<1>2. CASE Complete
  <2>1. /\ wr.on \in {"send", "done"} /\ wr.result = "none" /\ wr.posted \in {0, 1}
        /\ wr.timeout = "zero" /\ (wr.posted = 1 => wr.on = "send")
        /\ wr.refcount = 1 + wr.posted + Count(wr.status = "ok" /\ wr.timeout # "zero")
    BY <1>2, WrFields DEF Complete, SendInv, SendRefs, Count, WrType
  <2>2. /\ todo \in Results \ {"none"} /\ todo' = "none" /\ UNCHANGED tms
        /\ wr \in WrType /\ net \subseteq Packet /\ tms \in TimeoutMs
        /\ ib_mad_complete_send_wr(wr, todo)
    BY <1>2 DEF Complete, SendInv
  <2> QED BY <2>1, <2>2, CompleteSend
<1> QED BY <1>1, <1>2

(* A send that ib_find_send_mad() finds holds the reference of the timeout *)
(* and is not being completed.                                             *)
LEMMA FoundRefs ==
    ASSUME SendInv, Found, todo = "none"
    PROVE  /\ wr.on \in {"send", "wait"} /\ wr.status = "ok" /\ wr.timeout # "zero"
           /\ wr.posted \in {0, 1} /\ wr.refcount = wr.posted + 1
           /\ (wr.posted = 1 <=> wr.on = "send") /\ wr.result = "none"
  BY WrFields DEF SendInv, SendRefs, Found, Count

(* An ACK of the last segment, or an ABORT, ends the wait for the response *)
(* and hands its reference to the code that reports.                       *)
LEMMA MarkDoneInv ==
    ASSUME SendInv, Found, todo = "none", NEW w \in WrType,
           w.on = wr.on, w.posted = wr.posted, w.refcount = wr.refcount,
           w.status = wr.status, w.result = wr.result,
           wr' = ib_mark_mad_done(w), todo' \in Results \ {"none"},
           net' \subseteq Packet, UNCHANGED tms
    PROVE  SendInv'
<1>1. /\ wr' \in WrType /\ wr'.timeout = "zero"
      /\ wr'.on = (IF w.refcount = 1 THEN "done" ELSE w.on)
      /\ wr'.posted = w.posted /\ wr'.refcount = w.refcount
      /\ wr'.status = w.status /\ wr'.result = w.result
  BY MarkDone
<1>2. SendRefs'
  BY <1>1, FoundRefs DEF SendRefs, Count
<1> QED BY <1>1, <1>2 DEF SendInv

(* abort_send() keeps the invariant, found or not.                         *)
LEMMA AbortSendInv ==
    ASSUME SendInv, todo = "none", abort_send, UNCHANGED <<tms, net>>
    PROVE  SendInv'
<1>1. CASE Found /\ wr.last_ack # N
  <2>1. wr' = ib_mark_mad_done(wr) /\ todo' = "abort"
    BY <1>1 DEF abort_send
  <2> QED BY <1>1, <2>1, MarkDoneInv DEF SendInv, Results
<1>2. CASE ~(Found /\ wr.last_ack # N)
  BY <1>2 DEF abort_send, SendInv, SendRefs
<1> QED BY <1>1, <1>2

(* ib_post_send_mad() gives a new send its two references.                 *)
LEMMA PostInv ==
    ASSUME SendInv, Post
    PROVE  SendInv'
<1> DEFINE one == 1  two == 2
           w == [wr EXCEPT !.on = "send", !.timeout = MsTime, !.newwin = one,
                           !.refcount = two]
<1>0. MsTime \in Times /\ (tms # "none" => MsTime # "zero") /\ one \in Nat /\ two \in Int
  BY DEF MsTime, Times
<1>3. send_next_seg(w) \/ (wr' = [NextSeg(w) EXCEPT !.on = "gone", !.result = "error"]
                           /\ UNCHANGED net)
  BY DEF Post
<1> HIDE DEF one, two
<1>1. /\ w \in WrType /\ w.on = "send" /\ w.timeout = MsTime /\ w.refcount = two
      /\ w.posted = wr.posted /\ w.status = wr.status /\ w.result = wr.result
      /\ w.last_ack = wr.last_ack
  BY <1>0 DEF SendInv, WrType
<1>2. /\ wr.posted = 0 /\ wr.result = "none" /\ todo = "none" /\ wr.last_ack = 0
      /\ todo' = todo /\ tms' = tms /\ N # 0
      /\ wr.status = "ok" /\ two = 2
  BY RmppAssumption DEF SendInv, SendRefs, Post, two
<1> HIDE DEF w
<1>4. CASE send_next_seg(w)
  <2>1. /\ wr' \in WrType /\ wr'.posted = 1 /\ wr'.on = "send" /\ wr'.refcount = 2
        /\ wr'.status = wr.status /\ wr'.result = "none" /\ wr'.last_ack = 0
        /\ wr'.timeout # "zero" /\ net' \subseteq Packet
    BY <1>0, <1>1, <1>2, <1>4, SendNextSeg DEF SendInv
  <2> QED BY <1>2, <2>1 DEF SendInv, SendRefs, Count
<1>5. CASE wr' = [NextSeg(w) EXCEPT !.on = "gone", !.result = "error"] /\ UNCHANGED net
  <2> DEFINE v == NextSeg(w)
  <2>1. v \in WrType /\ v.posted = 0 /\ v.last_ack = 0
    BY <1>1, <1>2, NextSegType
  <2> HIDE DEF v
  <2>2. wr' \in WrType /\ wr'.posted = 0 /\ wr'.on = "gone" /\ wr'.result = "error"
        /\ wr'.last_ack = 0
    BY <1>5, <2>1 DEF WrType, Results, v
  <2> QED BY <1>2, <1>5, <2>2 DEF SendInv, SendRefs
<1> QED BY <1>3, <1>4, <1>5

(* ib_cancel_mad() takes the reference of the response away once.          *)
LEMMA CancelInv ==
    ASSUME SendInv, CancelMad
    PROVE  SendInv'
<1> DEFINE n == wr.refcount - Held(wr)
           w == [wr EXCEPT !.status = "flush", !.refcount = n, !.timeout = "zero"]
<1>1. /\ n \in Int /\ wr.status = "ok" /\ wr.on \in {"send", "wait"}
      /\ UNCHANGED <<tms, todo, net>> /\ wr.result = "none"
      /\ wr.posted \in {0, 1} /\ (wr.posted = 1 <=> wr.on = "send")
      /\ n = wr.posted + Count(todo # "none")
      /\ wr.on = "send" => wr.timeout = "zero" \/ wr.refcount > 1
      /\ wr.on = "wait" => wr.timeout # "zero" /\ todo = "none" /\ wr.refcount = 1
  BY WrFields DEF CancelMad, SendInv, SendRefs, Count, Held
<1>2. wr' = IF wr.timeout = "zero" \/ wr.refcount > 1 THEN w ELSE wait_for_response(w)
  BY DEF CancelMad
<1> HIDE DEF n
<1>3. /\ w \in WrType /\ w.on = wr.on /\ w.posted = wr.posted /\ w.refcount = n
      /\ w.status = "flush" /\ w.timeout = "zero" /\ w.result = wr.result
  BY <1>1 DEF SendInv, WrType, Times, Results
<1> HIDE DEF w
<1>4. CASE wr.on = "send"
  <2>1. wr' = w
    BY <1>1, <1>2, <1>4
  <2> QED BY <1>1, <1>3, <1>4, <2>1 DEF SendInv, SendRefs, Count
<1>5. CASE wr.on = "wait"
  <2>1. wr' = wait_for_response(w)
    BY <1>1, <1>2, <1>5
  <2>2. /\ wr' \in WrType /\ wr'.on = "wait" /\ wr'.posted = w.posted
        /\ wr'.refcount = n /\ wr'.status = "flush" /\ wr'.result = w.result
    BY <1>3, <2>1, WaitForResponse
  <2> QED BY <1>1, <1>3, <1>5, <2>2 DEF SendInv, SendRefs, Count
<1> QED BY <1>1, <1>4, <1>5

(* timeout_sends() reports the send or retries it with one more reference. *)
LEMMA TimeoutInv ==
    ASSUME SendInv, TimeoutSends
    PROVE  SendInv'
<1> DEFINE res == IF wr.status = "ok" THEN "timeout" ELSE wr.status
           over == [wr EXCEPT !.on = "gone", !.result = res]
           left == wr.retries_left - 1
           n == wr.refcount + 1
           again == [wr EXCEPT !.retries_left = left, !.timeout = MsTime,
                               !.seg = wr.last_ack, !.on = "send",
                               !.refcount = n]
<1>1. /\ wr.on = "wait" /\ wr.posted = 0 /\ todo = "none" /\ wr.result = "none"
      /\ UNCHANGED <<tms, todo>> /\ left \in Int /\ n \in Int
      /\ res \in Results \ {"none"} /\ MsTime \in Times
      /\ (tms # "none" => MsTime # "zero") /\ wr.last_ack \in Nat
      /\ wr.status = "ok" => n = 2
  BY WrFields DEF TimeoutSends, SendInv, SendRefs, Count, Results, MsTime, Times
<1>2. \/ wr' = over /\ UNCHANGED net
      \/ wr.status = "ok" /\ wr.last_ack # N /\ send_next_seg(again)
  BY DEF TimeoutSends
<1> HIDE DEF n, left, res
<1>3. CASE wr' = over /\ UNCHANGED net
  <2>1. /\ wr' \in WrType /\ wr'.on = "gone" /\ wr'.posted = 0 /\ wr'.result = res
        /\ wr'.status = wr.status /\ wr'.timeout = wr.timeout
        /\ wr'.last_ack = wr.last_ack
    BY <1>1, <1>3 DEF SendInv, WrType
  <2> QED BY <1>1, <1>3, <2>1 DEF SendInv, SendRefs
<1>4. CASE wr.status = "ok" /\ wr.last_ack # N /\ send_next_seg(again)
  <2>1. /\ again \in WrType /\ again.on = "send" /\ again.posted = 0
        /\ again.result = "none" /\ again.status = "ok" /\ again.timeout = MsTime
        /\ again.last_ack = wr.last_ack /\ again.refcount = n
    BY <1>1, <1>4 DEF SendInv, WrType
  <2> HIDE DEF again
  <2>2. /\ wr' \in WrType /\ wr'.posted = 1 /\ wr'.on = "send" /\ wr'.refcount = 2
        /\ wr'.status = "ok" /\ wr'.result = "none" /\ wr'.last_ack = wr.last_ack
        /\ wr'.timeout # "zero" /\ net' \subseteq Packet
    BY <1>1, <1>4, <2>1, SendNextSeg DEF SendInv
  <2> QED BY <1>1, <1>4, <2>2 DEF SendInv, SendRefs, Count
<1> QED BY <1>2, <1>3, <1>4

(* process_rmpp_ack(): the segment it sends is a second reference, taken   *)
(* only when the QP has none.                                              *)
LEMMA TakeAckInv ==
    ASSUME SendInv, Found, todo = "none", NEW m \in net, TakeAck(m), UNCHANGED tms,
           wr.last_ack # N
    PROVE  SendInv'
<1> DEFINE left == IF m.seg > wr.last_ack THEN MaxRetries ELSE wr.retries_left
           w == [wr EXCEPT !.last_ack = m.seg, !.newwin = m.newwin,
                           !.retries_left = left]
<1>1. m.seg \in Nat /\ m.newwin \in Nat /\ left \in Int
  BY WrFields, RmppAssumption DEF SendInv, Packet
<1>2. \/ /\ w.last_ack = N /\ tms = "none"
         /\ wr' = ib_mark_mad_done(w) /\ todo' = "ok" /\ UNCHANGED net
      \/ /\ w.last_ack = N /\ tms # "none"
         /\ wr' = IF w.refcount = 1
                  THEN wait_for_response([w EXCEPT !.timeout = MsTime]) ELSE w
         /\ UNCHANGED <<net, todo>>
      \/ /\ w.last_ack # N /\ Ready(w) /\ UNCHANGED todo
         /\ send_next_seg([w EXCEPT !.on = "send", !.refcount = @ + 1])
      \/ /\ w.last_ack # N /\ Ready(w) /\ UNCHANGED todo
         /\ wr' = NextSeg(w) /\ UNCHANGED net
      \/ /\ w.last_ack # N /\ UNCHANGED todo
         /\ wr' = w /\ UNCHANGED net
  BY DEF TakeAck
<1> HIDE DEF left
<1>3. /\ w \in WrType /\ w.on = wr.on /\ w.posted = wr.posted /\ w.refcount = wr.refcount
      /\ w.status = wr.status /\ w.result = wr.result /\ w.timeout = wr.timeout
      /\ w.last_ack = m.seg
  BY <1>1 DEF SendInv, WrType
<1> HIDE DEF w
<1>4. /\ wr.on \in {"send", "wait"} /\ wr.status = "ok" /\ wr.timeout # "zero"
      /\ wr.posted \in {0, 1} /\ wr.refcount = wr.posted + 1
      /\ (wr.posted = 1 <=> wr.on = "send") /\ wr.result = "none"
      /\ net \subseteq Packet /\ tms \in TimeoutMs /\ todo \in Results
  BY FoundRefs DEF SendInv
<1>5. CASE wr' = ib_mark_mad_done(w) /\ todo' = "ok" /\ UNCHANGED net
  BY <1>3, <1>4, <1>5, MarkDoneInv DEF Results
<1>6. CASE /\ w.last_ack = N /\ tms # "none"
           /\ wr' = IF w.refcount = 1
                    THEN wait_for_response([w EXCEPT !.timeout = MsTime]) ELSE w
           /\ UNCHANGED <<net, todo>>
  <2>1. CASE w.refcount = 1
    <3> DEFINE v == [w EXCEPT !.timeout = MsTime]
    <3>1. /\ v \in WrType /\ v.on = w.on /\ v.posted = w.posted
          /\ v.refcount = w.refcount /\ v.status = w.status /\ v.result = w.result
          /\ v.last_ack = w.last_ack
      <4>1. MsTime \in Times
        BY DEF MsTime, Times
      <4> QED BY <1>3, <4>1, SetTimeout
    <3>2. wr' = wait_for_response(v)
      BY <1>6, <2>1
    <3> HIDE DEF v
    <3>3. /\ wr' \in WrType /\ wr'.timeout = "jiffies" /\ wr'.on = "wait"
          /\ wr'.posted = w.posted /\ wr'.refcount = w.refcount
          /\ wr'.status = w.status /\ wr'.result = w.result
      BY <3>1, <3>2, WaitForResponse
    <3> QED BY <1>3, <1>4, <1>6, <2>1, <3>3 DEF SendInv, SendRefs, Count
  <2>2. CASE w.refcount # 1
    BY <1>3, <1>4, <1>6, <2>2 DEF SendInv, SendRefs, Count
  <2> QED BY <2>1, <2>2
<1>7. CASE /\ w.last_ack # N /\ Ready(w) /\ UNCHANGED todo
           /\ send_next_seg([w EXCEPT !.on = "send", !.refcount = @ + 1])
  <2> DEFINE n == w.refcount + 1
             v == [w EXCEPT !.on = "send", !.refcount = n]
  <2>1. w.refcount = 1 /\ n = 2 /\ n \in Int /\ send_next_seg(v)
    BY <1>7 DEF Ready
  <2> HIDE DEF n
  <2>2. /\ v \in WrType /\ v.on = "send" /\ v.posted = w.posted
        /\ v.refcount = n /\ v.status = w.status /\ v.result = w.result
        /\ v.last_ack = w.last_ack /\ v.timeout = w.timeout
    BY <1>3, <2>1 DEF WrType
  <2> HIDE DEF v
  <2>3. /\ wr' \in WrType /\ wr'.posted = 1 /\ wr'.on = "send" /\ wr'.refcount = 2
        /\ wr'.status = "ok" /\ wr'.result = "none" /\ wr'.last_ack = w.last_ack
        /\ wr'.timeout # "zero" /\ net' \subseteq Packet
    BY <1>3, <1>4, <2>1, <2>2, SendNextSeg
  <2> QED BY <1>4, <1>7, <2>3 DEF SendInv, SendRefs, Count
<1>8. CASE /\ w.last_ack # N /\ UNCHANGED todo
           /\ wr' = NextSeg(w) /\ UNCHANGED net
  <2>1. /\ wr' \in WrType /\ wr'.on = w.on /\ wr'.posted = w.posted
        /\ wr'.refcount = w.refcount /\ wr'.status = w.status
        /\ wr'.result = w.result /\ wr'.last_ack = w.last_ack
        /\ wr'.timeout # "zero"
    BY <1>3, <1>4, <1>8, NextSegType
  <2> QED BY <1>3, <1>4, <1>8, <2>1 DEF SendInv, SendRefs, Count
<1>9. CASE w.last_ack # N /\ UNCHANGED todo /\ wr' = w /\ UNCHANGED net
  BY <1>3, <1>4, <1>9 DEF SendInv, SendRefs, Count
<1> QED BY <1>2, <1>5, <1>6, <1>7, <1>8, <1>9

(* Every step of the sender keeps the references right.                    *)
LEMMA SenderStepInv ==
    ASSUME SendInv, SenderStep
    PROVE  SendInv'
<1>1. CASE Post \/ SendDone \/ Complete \/ TimeoutSends \/ CancelMad
  BY <1>1, PostInv, SendDoneInv, TimeoutInv, CancelInv
<1>2. CASE RecvAbort
  BY <1>2, AbortSendInv DEF RecvAbort
<1>3. CASE RecvResponse
  BY <1>3, MarkDoneInv DEF RecvResponse, SendInv, Results
<1>4. ASSUME NEW m \in net, RecvAck(m)
      PROVE  SendInv'
  BY <1>4, AbortSendInv, TakeAckInv DEF RecvAck
<1> QED BY <1>1, <1>2, <1>3, <1>4 DEF SenderStep

-----------------------------------------------------------------------------
(* THE LIST OF SEGMENTS *)

(* The fields of a record, one by one.                                     *)
LEMMA RecFields ==
    ASSUME NEW x \in RecType
    PROVE  /\ x.state \in {"none", "ACTIVE", "TIMEOUT", "COMPLETE", "freed"}
           /\ x.seg_num \in Nat /\ x.newwin \in Nat /\ x.last_ack \in Nat
           /\ x.refcount \in Int /\ x.segs \in Seq(1..N) /\ Len(x.segs) \in Nat
           /\ x.listed \in BOOLEAN /\ x.timer \in BOOLEAN /\ x.cleanup \in BOOLEAN
           /\ x.given \in BOOLEAN /\ x.wcFreed \in BOOLEAN /\ x.raced \in BOOLEAN
<1>1. x.segs \in Seq(1..N)
  BY DEF RecType
<1>2. Len(x.segs) \in Nat
  BY <1>1, LenProperties
<1> QED BY <1>1, <1>2 DEF RecType

(* find_seg_location() counts some of the listed segments.                 *)
LEMMA BeforeRange ==
    ASSUME NEW x \in RecType, NEW s \in Int
    PROVE  Before(x, s) \in 0..Len(x.segs)
<1> DEFINE S == {i \in 1..Len(x.segs) : x.segs[i] < s}
<1>1. Len(x.segs) \in Nat
  BY RecFields
<1>2. IsFiniteSet(1..Len(x.segs)) /\ Cardinality(1..Len(x.segs)) = Len(x.segs)
  BY <1>1, FS_Interval
<1>3. S \in SUBSET (1..Len(x.segs))
  OBVIOUS
<1>4. IsFiniteSet(S) /\ Cardinality(S) <= Len(x.segs)
  BY <1>2, <1>3, FS_Subset
<1>5. Cardinality(S) \in Nat
  BY <1>4, FS_CardinalityType
<1> QED BY <1>1, <1>4, <1>5 DEF Before

(* What t is: q with s put in behind the first k.                          *)
PutIn(t, S, q, s, k) ==
    /\ t \in Seq(S) /\ Len(t) = Len(q) + 1
    /\ \A i \in 1..(Len(q) + 1) :
          t[i] = IF i <= k THEN q[i] ELSE IF i = k + 1 THEN s ELSE q[i - 1]

(* The two parts of a sequence with an element between them.               *)
LEMMA ListAdd ==
    ASSUME NEW S, NEW q \in Seq(S), NEW s \in S, NEW k \in 0..Len(q)
    PROVE  PutIn(SubSeq(q, 1, k) \o <<s>> \o SubSeq(q, k + 1, Len(q)), S, q, s, k)
<1> DEFINE L == Len(q)
           t == SubSeq(q, 1, k) \o <<s>> \o SubSeq(q, k + 1, L)
<1>0. L \in Nat /\ L = Len(q) /\ k \in 0..L
  BY LenProperties
<1>00. t = SubSeq(q, 1, k) \o <<s>> \o SubSeq(q, k + 1, L)
  OBVIOUS
<1> HIDE DEF L, t
<1> USE <1>0
<1> DEFINE a == SubSeq(q, 1, k)
           m == k + 1
           b == SubSeq(q, m, L)
           one == <<s>>
           c == a \o one
<1>1. \A i \in 1..L : q[i] \in S
  BY ElementOfSeq
<1>2. m \in Int /\ k \in Int /\ 1 \in Int /\ L \in Int
  OBVIOUS
<1>3. /\ a \in Seq(S) /\ Len(a) = k /\ \A i \in 1..k : a[i] = q[i]
  <2>1. \A i \in 1..k : q[i] \in S
    BY <1>1
  <2>2. /\ a \in Seq(S) /\ Len(a) = IF 1 <= k THEN k - 1 + 1 ELSE 0
        /\ \A i \in 1..(k - 1 + 1) : a[i] = q[1 + i - 1]
    BY <2>1, <1>2, SubSeqProperties
  <2> HIDE DEF a
  <2>3. Len(a) = k
    BY <2>2
  <2>4. ASSUME NEW i \in 1..k PROVE a[i] = q[i]
    <3>1. i \in 1..(k - 1 + 1) /\ 1 + i - 1 = i
      OBVIOUS
    <3> QED BY <2>2, <3>1
  <2> QED BY <2>2, <2>3, <2>4
<1>4. /\ b \in Seq(S) /\ Len(b) = L - k
      /\ \A i \in 1..(L - k) : b[i] = q[k + i]
  <2>1. \A i \in m..L : q[i] \in S
    BY <1>1
  <2> HIDE DEF m
  <2>2. /\ b \in Seq(S)
        /\ Len(b) = IF m <= L THEN L - m + 1 ELSE 0
        /\ \A i \in 1..(L - m + 1) : b[i] = q[m + i - 1]
    BY <2>1, <1>2, SubSeqProperties
  <2> HIDE DEF b
  <2>3. Len(b) = L - k
    BY <2>2 DEF m
  <2>4. ASSUME NEW i \in 1..(L - k) PROVE b[i] = q[k + i]
    <3>1. i \in 1..(L - m + 1) /\ m + i - 1 = k + i
      BY DEF m
    <3> QED BY <2>2, <3>1
  <2> QED BY <2>2, <2>3, <2>4
<1> HIDE DEF a, b
<1>5. /\ one \in Seq(S) /\ Len(one) = 1 /\ one[1] = s
  OBVIOUS
<1> HIDE DEF one
<1>6. /\ c \in Seq(S) /\ Len(c) = k + 1
      /\ \A i \in 1..k : c[i] = q[i]
      /\ c[k + 1] = s
  <2>1. /\ c \in Seq(S) /\ Len(c) = Len(a) + Len(one)
        /\ \A i \in 1..(Len(a) + Len(one)) :
              c[i] = IF i <= Len(a) THEN a[i] ELSE one[i - Len(a)]
    BY <1>3, <1>5, ConcatProperties
  <2> HIDE DEF c
  <2>2. /\ c \in Seq(S) /\ Len(c) = k + 1
        /\ \A i \in 1..(k + 1) : c[i] = IF i <= k THEN a[i] ELSE one[i - k]
    BY <2>1, <1>3, <1>5
  <2>3. ASSUME NEW i \in 1..k PROVE c[i] = q[i]
    BY <2>2, <1>3
  <2>4. k + 1 \in 1..(k + 1) /\ ~(k + 1 <= k) /\ k + 1 - k = 1
    OBVIOUS
  <2>5. c[k + 1] = s
    BY <2>2, <2>4, <1>5
  <2> QED BY <2>2, <2>3, <2>5
<1>t. t = c \o b
  BY <1>00 DEF a, b, one
<1> HIDE DEF c
<1>7. /\ t \in Seq(S) /\ Len(t) = Len(c) + Len(b)
      /\ \A i \in 1..(Len(c) + Len(b)) :
            t[i] = IF i <= Len(c) THEN c[i] ELSE b[i - Len(c)]
  <2>1. c \in Seq(S) /\ b \in Seq(S)
    BY <1>4, <1>6
  <2>2. /\ c \o b \in Seq(S) /\ Len(c \o b) = Len(c) + Len(b)
        /\ \A i \in 1..(Len(c) + Len(b)) :
              (c \o b)[i] = IF i <= Len(c) THEN c[i] ELSE b[i - Len(c)]
    BY ONLY <2>1, ConcatProperties
  <2> QED BY ONLY <1>t, <2>2
<1>8. /\ t \in Seq(S) /\ Len(t) = L + 1
      /\ \A i \in 1..(L + 1) :
            t[i] = IF i <= k + 1 THEN c[i] ELSE b[i - (k + 1)]
  <2>1. Len(c) + Len(b) = L + 1
    BY <1>4, <1>6
  <2> QED BY <1>6, <1>7, <2>1
<1>9. ASSUME NEW i \in 1..(L + 1)
      PROVE  t[i] = IF i <= k THEN q[i] ELSE IF i = k + 1 THEN s ELSE q[i - 1]
  <2>1. CASE i <= k
    BY <2>1, <1>6, <1>8
  <2>2. CASE i = k + 1
    <3>1. ~(i <= k) /\ i <= k + 1
      BY <2>2
    <3>2. t[i] = c[i]
      BY <3>1, <1>8
    <3> QED BY <2>2, <3>1, <3>2, <1>6
  <2>3. CASE i > k + 1
    <3>1. i - (k + 1) \in 1..(L - k) /\ k + (i - (k + 1)) = i - 1
          /\ ~(i <= k + 1) /\ ~(i <= k) /\ i # k + 1
      BY <2>3
    <3>2. t[i] = b[i - (k + 1)]
      BY <3>1, <1>8
    <3>3. b[i - (k + 1)] = q[i - 1]
      BY <3>1, <1>4
    <3> QED BY <3>1, <3>2, <3>3
  <2>4. i <= k \/ i = k + 1 \/ i > k + 1
    OBVIOUS
  <2> QED BY <2>1, <2>2, <2>3, <2>4
<1> QED BY <1>8, <1>9 DEF t, L, PutIn

(* list_add() puts the segment behind the k listed before it and moves the *)
(* others on by one.                                                       *)
LEMMA InsertSegs ==
    ASSUME NEW x \in RecType, NEW s \in 1..N, NEW k, k = Before(x, s),
           NEW y, y = Insert(x, s)
    PROVE  /\ y = [x EXCEPT !.segs = y.segs] /\ y \in RecType
           /\ k \in 0..Len(x.segs) /\ PutIn(y.segs, 1..N, x.segs, s, k)
<1> DEFINE q == x.segs
           t == SubSeq(q, 1, k) \o <<s>> \o SubSeq(q, k + 1, Len(q))
           U == 1..N
<1>1. q \in Seq(U) /\ s \in U /\ k \in 0..Len(q)
  <2>1. q \in Seq(U)
    BY ONLY x \in RecType, RecFields
  <2>2. s \in Int
    BY RmppAssumption
  <2>3. Before(x, s) \in 0..Len(q)
    BY ONLY x \in RecType, <2>2, BeforeRange
  <2> QED BY ONLY <2>1, <2>3, s \in U, k = Before(x, s)
<1>2. y = [x EXCEPT !.segs = t]
  BY DEF Insert
<1> HIDE DEF q, U
<1>3. PutIn(t, U, q, s, k)
  BY <1>1, ListAdd
<1>4. t \in Seq(U)
  BY <1>3 DEF PutIn
<1> HIDE DEF t
<1>5. y \in RecType /\ y.segs = t
  BY <1>2, <1>4 DEF RecType, U
<1> QED BY <1>1, <1>2, <1>3, <1>5 DEF q, U

(* A set of places that is closed downwards is counted by its last place.  *)
LEMMA PrefixCount ==
    ASSUME NEW L \in Nat, NEW D \in SUBSET (1..L),
           \A j \in D : \A i \in 1..j : i \in D
    PROVE  D = 1..Cardinality(D) /\ Cardinality(D) \in 0..L
<1> DEFINE S == (1..(L + 1)) \ D
<1>1. L + 1 \in S /\ S \subseteq Nat
  OBVIOUS
<1>2. PICK x \in S : \A y \in S : ~(<<y, x>> \in OpToRel(<, Nat))
  <2> HIDE DEF S
  <2> QED BY <1>1, NatLessThanWellFounded, WFMin
<1>3. ASSUME NEW y \in S PROVE x <= y
  <2>1. <<y, x>> \in Nat \X Nat /\ ~(<<y, x>> \in OpToRel(<, Nat))
    BY <1>1, <1>2, <1>3
  <2>2. ~(y < x)
    BY <2>1 DEF OpToRel
  <2> QED BY <1>1, <2>2
<1>4. x \in 1..(L + 1) /\ x \notin D
  OBVIOUS
<1>5. \A i \in 1..(x - 1) : i \in D
  BY <1>3, <1>4
<1>6. \A j \in D : j < x
  BY <1>4
<1>7. D = 1..(x - 1)
  <2>1. \A j \in D : j \in 1..(x - 1)
    BY <1>4, <1>6
  <2> QED BY <1>5, <2>1
<1>8. Cardinality(D) = x - 1
  <2>1. x - 1 \in Int /\ 1 \in Int
    BY <1>4
  <2>2. Cardinality(1..(x - 1)) = IF 1 > x - 1 THEN 0 ELSE x - 1 - 1 + 1
    BY <2>1, FS_Interval
  <2> QED BY <1>4, <1>7, <2>2
<1> QED BY <1>4, <1>7, <1>8

(* update_seg_num(): the segments up to the new number are listed in their *)
(* places, and the one behind it is not.                                   *)
LEMMA UpdateSegNum ==
    ASSUME NEW x \in RecType, NEW k, NEW y, y = update_seg_num(x, k)
    PROVE  /\ y \in RecType /\ y = [x EXCEPT !.seg_num = y.seg_num]
           /\ k # Cur(x) => y = x
           /\ k = Cur(x) =>
                 /\ y.seg_num \in 0..Len(x.segs)
                 /\ \A i \in 1..y.seg_num : x.segs[i] = i
                 /\ \A j \in 1..Len(x.segs) :
                       (\A i \in 1..j : x.segs[i] = i) => j <= y.seg_num
<1> DEFINE D == {j \in 1..Len(x.segs) : \A i \in 1..j : x.segs[i] = i}
           n == Cardinality(D)
<1>1. Len(x.segs) \in Nat
  BY RecFields
<1>2. \A j \in D : \A i \in 1..j : i \in D
  BY <1>1
<1>3. D \in SUBSET (1..Len(x.segs))
  OBVIOUS
<1>4. D = 1..n /\ n \in 0..Len(x.segs)
  <2> HIDE DEF D
  <2> QED BY <1>1, <1>2, <1>3, PrefixCount
<1>5. y = IF k = Cur(x) THEN [x EXCEPT !.seg_num = n] ELSE x
  BY DEF update_seg_num
<1>6. n \in Nat
  BY <1>1, <1>4
<1>7. \A i \in 1..n : x.segs[i] = i
  <2>1. \A j \in D : x.segs[j] = j
    OBVIOUS
  <2> QED BY <1>4, <2>1
<1>8. \A j \in 1..Len(x.segs) : (\A i \in 1..j : x.segs[i] = i) => j <= n
  <2>1. \A j \in 1..Len(x.segs) : (\A i \in 1..j : x.segs[i] = i) => j \in D
    OBVIOUS
  <2> HIDE DEF D
  <2>2. \A j \in D : j <= n
    BY <1>4, <1>6
  <2> QED BY <2>1, <2>2
<1> HIDE DEF n
<1>9. CASE k = Cur(x)
  <2>1. y \in RecType /\ y.seg_num = n
    BY <1>5, <1>6, <1>9 DEF RecType
  <2> QED BY <1>4, <1>5, <1>7, <1>8, <1>9, <2>1
<1>10. CASE k # Cur(x)
  <2>1. y = x
    BY <1>5, <1>10
  <2>2. x = [x EXCEPT !.seg_num = x.seg_num]
    BY DEF RecType
  <2> QED BY <1>10, <2>1, <2>2
<1> QED BY <1>9, <1>10

-----------------------------------------------------------------------------
(* THE STEPS OF THE RECEIVER, field by field *)

SameData(x, y) == /\ y.seg_num = x.seg_num /\ y.newwin = x.newwin
                  /\ y.last_ack = x.last_ack /\ y.segs = x.segs
SameOwners(x, y) == /\ y.listed = x.listed /\ y.timer = x.timer
                    /\ y.cleanup = x.cleanup /\ y.given = x.given
                    /\ y.wcFreed = x.wcFreed
SameMarks(x, y) == /\ y.listed = x.listed /\ y.timer = x.timer
                   /\ y.cleanup = x.cleanup /\ y.given = x.given
                   /\ y.wcFreed = x.wcFreed /\ y.raced = x.raced

(* A step changes the record r to y.                                       *)
Changes(r, y) == r \in Recs /\ y \in RecType /\ rec' = [rec EXCEPT ![r] = y]

(* The other records stay as they are.                                     *)
LEMMA ChangesRec ==
    ASSUME NEW r, NEW y, Changes(r, y), rec \in [Recs -> RecType]
    PROVE  /\ r \in Recs /\ rec' \in [Recs -> RecType] /\ rec'[r] = y /\ y \in RecType
           /\ \A q \in Recs : q # r => rec'[q] = rec[q]
  BY DEF Changes

(* A reference more or less changes nothing else.                          *)
LEMMA SetRefs ==
    ASSUME NEW x \in RecType, NEW n \in Int, NEW y, y = [x EXCEPT !.refcount = n]
    PROVE  /\ y \in RecType /\ y.refcount = n /\ y.state = x.state
           /\ SameData(x, y) /\ SameMarks(x, y)
  BY DEF RecType, SameData, SameMarks

(* deref_rmpp_recv() puts one reference.                                   *)
LEMMA Deref ==
    ASSUME NEW x \in RecType, NEW y, y = deref_rmpp_recv(x)
    PROVE  /\ y \in RecType /\ y.refcount = x.refcount - 1 /\ y.state = x.state
           /\ SameData(x, y) /\ SameMarks(x, y)
<1> DEFINE n == x.refcount - 1
<1>1. n \in Int
  BY RecFields
<1>2. y = [x EXCEPT !.refcount = n]
  BY DEF deref_rmpp_recv
<1> HIDE DEF n
<1> QED BY <1>1, <1>2, SetRefs DEF n

(* format_ack() moves last_ack up to seg_num.                              *)
LEMMA AckedRec ==
    ASSUME NEW x \in RecType, NEW y, y = Acked(x)
    PROVE  /\ y \in RecType /\ y.refcount = x.refcount /\ y.state = x.state
           /\ y.seg_num = x.seg_num /\ y.newwin = x.newwin
           /\ y.last_ack = x.seg_num /\ y.segs = x.segs /\ SameMarks(x, y)
  BY DEF Acked, RecType, SameMarks

(* complete_rmpp() hands the list over and arms the clean-up.              *)
LEMMA CompleteRec ==
    ASSUME NEW x \in RecType, NEW y, y = complete_rmpp(x)
    PROVE  /\ y \in RecType /\ y.refcount = x.refcount /\ y.state = x.state
           /\ SameData(x, y) /\ y.listed = x.listed /\ y.wcFreed = x.wcFreed
           /\ y.timer = (IF x.seg_num > 1 THEN FALSE ELSE x.timer)
           /\ y.cleanup = TRUE /\ y.given = TRUE /\ y.raced = x.raced
<1> DEFINE t == IF x.seg_num > 1 THEN FALSE ELSE x.timer
<1>1. t \in BOOLEAN
  BY RecFields
<1>2. y = [x EXCEPT !.timer = t, !.cleanup = TRUE, !.given = TRUE]
  BY DEF complete_rmpp
<1> HIDE DEF t
<1>3. /\ y \in RecType /\ y.refcount = x.refcount /\ y.state = x.state
      /\ SameData(x, y) /\ y.listed = x.listed /\ y.wcFreed = x.wcFreed
      /\ y.timer = t /\ y.cleanup = TRUE /\ y.given = TRUE /\ y.raced = x.raced
  BY <1>1, <1>2 DEF RecType, SameData
<1> QED BY <1>3 DEF t

(* An ACK of a record is a packet.                                         *)
LEMMA AckPacket ==
    ASSUME NEW x \in RecType
    PROVE  AckOf(x) \in Packet
  BY RecFields DEF AckOf, Ack, Packet

(* A record that was never used.                                           *)
LEMMA NewRecType == NewRec \in RecType
<1>1. <<>> \in Seq(1..N)
  OBVIOUS
<1> QED BY <1>1 DEF NewRec, RecType

(* The lowest of the unused records is one of them.                        *)
LEMMA LowestUnused ==
    ASSUME Unused # {}
    PROVE  (CHOOSE u \in Unused : \A v \in Unused : u <= v) \in Unused
<1>1. Unused \subseteq Nat
  BY RmppAssumption DEF Unused, Recs
<1>2. PICK x \in Unused : \A y \in Unused : ~(<<y, x>> \in OpToRel(<, Nat))
  BY <1>1, NatLessThanWellFounded, WFMin
<1>3. ASSUME NEW y \in Unused PROVE x <= y
  <2>1. <<y, x>> \in Nat \X Nat /\ ~(<<y, x>> \in OpToRel(<, Nat))
    BY <1>1, <1>2, <1>3
  <2>2. ~(y < x)
    BY <2>1 DEF OpToRel
  <2> QED BY <1>1, <2>2
<1> QED BY <1>3

(* start_rmpp(): a record with the first segment, complete when it is also *)
(* the last.                                                               *)
LEMMA StartEffect ==
    ASSUME Types, StartRmpp
    PROVE  \E r \in Unused : \E y :
              /\ Changes(r, y) /\ net' = net \cup {Ack(1, y.newwin)}
              /\ y.state = (IF N = 1 THEN "COMPLETE" ELSE "ACTIVE")
              /\ y.seg_num = 1 /\ y.segs = <<1>> /\ y.refcount = 1
              /\ y.listed = TRUE /\ y.timer = (N # 1) /\ y.cleanup = (N = 1)
              /\ y.given = (N = 1) /\ y.wcFreed = FALSE /\ y.raced = FALSE
<1> DEFINE r == CHOOSE u \in Unused : \A v \in Unused : u <= v
           one == 1
           st == IF N = 1 THEN "COMPLETE" ELSE "ACTIVE"
           win == IF N = 1 THEN 1 ELSE 1 + Window
           more == N # 1
           sg == <<1>>
           x == [NewRec EXCEPT !.state = st, !.seg_num = one, !.segs = sg,
                               !.refcount = one, !.listed = TRUE, !.timer = more,
                               !.newwin = win]
           a == Acked(x)
           y == IF N = 1 THEN complete_rmpp(a) ELSE a
<1>1. r \in Unused /\ r \in Recs
  BY LowestUnused DEF StartRmpp, Unused
<1>2. /\ one \in Nat /\ win \in Nat /\ more \in BOOLEAN /\ sg \in Seq(1..N)
      /\ st \in {"ACTIVE", "COMPLETE"}
  BY RmppAssumption
<1>3. rec' = [rec EXCEPT ![r] = y] /\ net' = net \cup {AckOf(x)}
  BY DEF StartRmpp
<1> HIDE DEF r, one, win, more, sg, st
<1>4. /\ x \in RecType /\ x.state = st /\ x.seg_num = one /\ x.segs = sg
      /\ x.refcount = one /\ x.listed = TRUE /\ x.timer = more /\ x.newwin = win
      /\ x.cleanup = FALSE /\ x.given = FALSE /\ x.wcFreed = FALSE
      /\ x.raced = FALSE
  <2>1. NewRec.cleanup = FALSE /\ NewRec.given = FALSE /\ NewRec.wcFreed = FALSE
        /\ NewRec.raced = FALSE
    BY DEF NewRec
  <2> DEFINE z == NewRec
  <2> HIDE DEF z
  <2>2. z \in RecType /\ one \in Int /\ x = [z EXCEPT !.state = st,
               !.seg_num = one, !.segs = sg, !.refcount = one,
               !.listed = TRUE, !.timer = more, !.newwin = win]
    BY <1>2, NewRecType DEF z
  <2>3. x \in RecType
    BY <1>2, <2>2 DEF RecType
  <2>4. /\ x.state = st /\ x.seg_num = one /\ x.segs = sg
        /\ x.refcount = one /\ x.listed = TRUE /\ x.timer = more /\ x.newwin = win
        /\ x.cleanup = z.cleanup /\ x.given = z.given /\ x.wcFreed = z.wcFreed
        /\ x.raced = z.raced
    BY <2>2 DEF RecType
  <2> QED BY <2>1, <2>3, <2>4 DEF z
<1> HIDE DEF x
<1>5. /\ a \in RecType /\ a.state = st /\ a.seg_num = one /\ a.segs = sg
      /\ a.refcount = one /\ a.listed = TRUE /\ a.timer = more /\ a.newwin = win
      /\ a.cleanup = FALSE /\ a.given = FALSE /\ a.wcFreed = FALSE
      /\ a.raced = FALSE
  BY <1>4, AckedRec DEF SameMarks
<1> HIDE DEF a
<1>6. AckOf(x) = Ack(1, win)
  BY <1>4 DEF AckOf, one
<1>7. CASE N = 1
  <2>1. y = complete_rmpp(a)
    BY <1>7
  <2> HIDE DEF y
  <2>0. /\ y \in RecType /\ y.refcount = a.refcount /\ y.state = a.state
        /\ SameData(a, y) /\ y.listed = a.listed /\ y.wcFreed = a.wcFreed
        /\ y.timer = (IF a.seg_num > 1 THEN FALSE ELSE a.timer)
        /\ y.cleanup = TRUE /\ y.given = TRUE /\ y.raced = a.raced
    BY <1>5, <2>1, CompleteRec
  <2>2. /\ y \in RecType /\ y.state = st /\ y.seg_num = one /\ y.segs = sg
        /\ y.refcount = one /\ y.listed = TRUE /\ y.newwin = win
        /\ y.timer = (IF one > 1 THEN FALSE ELSE more)
        /\ y.cleanup = TRUE /\ y.given = TRUE /\ y.wcFreed = FALSE
        /\ y.raced = FALSE
    BY <1>5, <2>0 DEF SameData
  <2>3. y.timer = FALSE
    BY <1>7, <2>2 DEF one, more
  <2>4. Changes(r, y)
    BY <1>1, <1>3, <2>2 DEF Changes
  <2> QED BY <1>1, <1>3, <1>6, <1>7, <2>2, <2>3, <2>4 DEF one, st, sg
<1>8. CASE N # 1
  <2>1. y = a
    BY <1>8
  <2> HIDE DEF y
  <2>2. Changes(r, a)
    BY <1>1, <1>3, <1>5, <2>1 DEF Changes
  <2>3. more = (N # 1) /\ a.newwin = win
    BY <1>5 DEF more
  <2> QED BY <1>1, <1>3, <1>5, <1>6, <1>8, <2>1, <2>2, <2>3 DEF one, st, sg
<1> QED BY <1>7, <1>8

(* acquire_rmpp_recv() takes a reference.                                  *)
LEMMA AcquireEffect ==
    ASSUME Types, NEW r \in Recs, NEW s \in 1..N, Acquire(r, s)
    PROVE  \E y : /\ Changes(r, y) /\ y.refcount = rec[r].refcount + 1
                  /\ y.state = rec[r].state /\ SameData(rec[r], y)
                  /\ SameMarks(rec[r], y)
<1> DEFINE n == rec[r].refcount + 1
           y == [rec[r] EXCEPT !.refcount = n]
<1>1. rec[r] \in RecType
  BY DEF Types
<1>2. n \in Int
  BY <1>1, RecFields
<1>3. rec' = [rec EXCEPT ![r] = y]
  BY DEF Acquire, Types
<1>4. /\ y \in RecType /\ y.refcount = n /\ y.state = rec[r].state
      /\ SameData(rec[r], y) /\ SameMarks(rec[r], y)
  <2> HIDE DEF n
  <2> QED BY <1>1, <1>2, SetRefs
<1> QED BY <1>3, <1>4 DEF Changes

(* The tests of continue_rmpp(): the reference is put, after one more ACK  *)
(* or not, or the segment is to be listed.                                 *)
LEMMA CheckEffect ==
    ASSUME Types, CqCheck
    PROVE  LET x == rec[cq.r]
           IN  \/ /\ cq' = [cq EXCEPT !.at = "body"] /\ UNCHANGED <<rec, net>>
                  /\ x.state # "TIMEOUT" /\ x.state # "COMPLETE"
                  /\ ~Duplicate(x, cq.seg)
               \/ /\ Return
                  /\ \E y : /\ Changes(cq.r, y) /\ y.refcount = x.refcount - 1
                            /\ y.state = x.state /\ SameMarks(x, y)
                            /\ y.seg_num = x.seg_num /\ y.newwin = x.newwin
                            /\ y.segs = x.segs
                  /\ UNCHANGED net \/ (net' = net \cup {AckOf(x)} /\ x.state # "TIMEOUT")
<1> DEFINE x == rec[cq.r]
           a == Acked(x)
           y == deref_rmpp_recv(a)
           z == deref_rmpp_recv(x)
<1>1. cq.r \in Recs /\ x \in RecType
  BY DEF Types, CqCheck
<1>2. \/ /\ cq' = [cq EXCEPT !.at = "body"] /\ UNCHANGED <<rec, net>>
         /\ x.state # "TIMEOUT" /\ x.state # "COMPLETE" /\ ~Duplicate(x, cq.seg)
      \/ /\ Return /\ net' = net \cup {AckOf(x)} /\ rec' = [rec EXCEPT ![cq.r] = y]
         /\ x.state # "TIMEOUT"
      \/ /\ Return /\ UNCHANGED net /\ rec' = [rec EXCEPT ![cq.r] = z]
  BY DEF CqCheck
<1> HIDE DEF x
<1>3. /\ a \in RecType /\ a.refcount = x.refcount /\ a.state = x.state
      /\ a.seg_num = x.seg_num /\ a.newwin = x.newwin /\ a.segs = x.segs
      /\ SameMarks(x, a)
  BY <1>1, AckedRec
<1> HIDE DEF a
<1>4. /\ y \in RecType /\ y.refcount = x.refcount - 1 /\ y.state = x.state
      /\ y.seg_num = x.seg_num /\ y.newwin = x.newwin /\ y.segs = x.segs
      /\ SameMarks(x, y)
  BY <1>3, Deref DEF SameMarks, SameData
<1>5. /\ z \in RecType /\ z.refcount = x.refcount - 1 /\ z.state = x.state
      /\ z.seg_num = x.seg_num /\ z.newwin = x.newwin /\ z.segs = x.segs
      /\ SameMarks(x, z)
  BY <1>1, Deref DEF SameData
<1> HIDE DEF y, z
<1>6. CASE /\ Return /\ net' = net \cup {AckOf(x)} /\ rec' = [rec EXCEPT ![cq.r] = y]
           /\ x.state # "TIMEOUT"
  BY <1>1, <1>4, <1>6 DEF Changes, x
<1>7. CASE Return /\ UNCHANGED net /\ rec' = [rec EXCEPT ![cq.r] = z]
  BY <1>1, <1>5, <1>7 DEF Changes, x
<1> QED BY <1>2, <1>6, <1>7 DEF x

(* The body of continue_rmpp(): the segment is listed; when that made the  *)
(* message whole the record is complete, when it filled the window an ACK  *)
(* opens the next one.                                                     *)
LEMMA BodyEffect ==
    ASSUME Types, CqBody
    PROVE  LET x == rec[cq.r]
               k == Before(x, cq.seg)
               l == Insert(x, cq.seg)
               u == update_seg_num(l, k)
           IN  \E y :
                /\ Changes(cq.r, y) /\ SameOwners(x, y)
                /\ l \in RecType /\ u \in RecType /\ u.segs = l.segs
                /\ l.seg_num = x.seg_num
                /\ y.segs = u.segs /\ y.seg_num = u.seg_num
                /\ \/ /\ k = Cur(x) /\ u.seg_num = N /\ y.state = "COMPLETE"
                      /\ y.refcount = x.refcount
                      /\ cq' = [cq EXCEPT !.at = "finish"] /\ UNCHANGED net
                      /\ y.raced = TimedOut(cq.r)
                   \/ /\ ~(k = Cur(x) /\ u.seg_num = N) /\ y.state = x.state
                      /\ y.raced = x.raced
                      /\ y.refcount = x.refcount - 1 /\ Return
                      /\ \/ UNCHANGED net
                         \/ u.seg_num # N /\ net' = net \cup {AckOf(y)}
<1> DEFINE x == rec[cq.r]
           k == Before(x, cq.seg)
           l == Insert(x, cq.seg)
           u == update_seg_num(l, k)
           win == u.newwin + Window
           full == [u EXCEPT !.newwin = win]
           a == Acked(full)
           t == TimedOut(cq.r)
           y1 == [u EXCEPT !.state = "COMPLETE", !.raced = t]
           y2 == deref_rmpp_recv(a)
           y3 == deref_rmpp_recv(u)
<1>1. cq.r \in Recs /\ x \in RecType /\ cq.seg \in 1..N
  BY DEF Types, CqBody
<1>2. \/ /\ k = Cur(x) /\ u.seg_num = N
         /\ rec' = [rec EXCEPT ![cq.r] = y1]
         /\ cq' = [cq EXCEPT !.at = "finish"] /\ UNCHANGED net
      \/ /\ k = Cur(x) /\ u.seg_num # N
         /\ net' = net \cup {AckOf(full)} /\ rec' = [rec EXCEPT ![cq.r] = y2]
         /\ Return
      \/ /\ ~(k = Cur(x) /\ u.seg_num = N)
         /\ rec' = [rec EXCEPT ![cq.r] = y3] /\ Return /\ UNCHANGED net
  BY DEF CqBody
<1> HIDE DEF x
<1>3. l \in RecType /\ l = [x EXCEPT !.segs = l.segs]
  BY <1>1, InsertSegs
<1> HIDE DEF l
<1>4. /\ l.refcount = x.refcount /\ l.state = x.state /\ SameMarks(x, l)
      /\ l.seg_num = x.seg_num
  BY <1>1, <1>3 DEF RecType, SameMarks
<1>5. u \in RecType /\ u = [l EXCEPT !.seg_num = u.seg_num]
  BY <1>3, UpdateSegNum
<1> HIDE DEF u
<1>6. /\ u.refcount = x.refcount /\ u.state = x.state /\ SameMarks(x, u)
      /\ u.segs = l.segs /\ u.seg_num \in Nat
  <2>1. u.refcount = l.refcount /\ u.state = l.state /\ SameMarks(l, u)
        /\ u.segs = l.segs
    BY <1>3, <1>5 DEF RecType, SameMarks
  <2> QED BY <1>4, <1>5, <2>1, RecFields DEF SameMarks
<1>7. CASE /\ k = Cur(x) /\ u.seg_num = N
           /\ rec' = [rec EXCEPT ![cq.r] = y1]
           /\ cq' = [cq EXCEPT !.at = "finish"] /\ UNCHANGED net
  <2>0. t \in BOOLEAN
    BY DEF TimedOut
  <2> HIDE DEF t
  <2>1. /\ y1 \in RecType /\ y1.state = "COMPLETE" /\ y1.refcount = u.refcount
        /\ SameData(u, y1) /\ SameOwners(u, y1) /\ y1.raced = t
    BY <1>5, <2>0 DEF RecType, SameData, SameOwners
  <2> HIDE DEF y1
  <2>2. Changes(cq.r, y1) /\ SameOwners(x, y1) /\ y1.segs = u.segs /\ y1.seg_num = u.seg_num
        /\ y1.refcount = x.refcount
    BY <1>1, <1>6, <1>7, <2>1 DEF Changes, SameMarks, SameOwners, SameData
  <2> HIDE DEF k
  <2> QED BY <1>3, <1>4, <1>5, <1>6, <1>7, <2>1, <2>2 DEF k, u, l, x, t
<1>8. CASE /\ k = Cur(x) /\ u.seg_num # N
           /\ net' = net \cup {AckOf(full)} /\ rec' = [rec EXCEPT ![cq.r] = y2]
           /\ Return
  <2>0. win \in Nat
    BY <1>5, RecFields, RmppAssumption
  <2> HIDE DEF win
  <2>1. /\ full \in RecType /\ full.state = u.state /\ full.refcount = u.refcount
        /\ full.newwin = win /\ full.seg_num = u.seg_num /\ full.segs = u.segs
        /\ SameMarks(u, full)
    BY <1>5, <2>0 DEF RecType, SameMarks
  <2> HIDE DEF full
  <2>2. /\ a \in RecType /\ a.state = u.state /\ a.refcount = u.refcount
        /\ a.newwin = win /\ a.seg_num = u.seg_num /\ a.segs = u.segs
        /\ SameMarks(u, a)
    BY <2>1, AckedRec DEF SameMarks
  <2> HIDE DEF a
  <2>3. /\ y2 \in RecType /\ y2.state = u.state /\ y2.refcount = u.refcount - 1
        /\ y2.newwin = win /\ y2.seg_num = u.seg_num /\ y2.segs = u.segs
        /\ SameMarks(u, y2)
    BY <2>2, Deref DEF SameMarks, SameData
  <2> HIDE DEF y2
  <2>4. AckOf(y2) = AckOf(full)
    BY <2>1, <2>3 DEF AckOf
  <2>5. Changes(cq.r, y2) /\ SameOwners(x, y2) /\ y2.state = x.state
        /\ y2.refcount = x.refcount - 1 /\ y2.raced = x.raced
    BY <1>1, <1>6, <1>8, <2>3 DEF Changes, SameMarks, SameOwners
  <2> HIDE DEF k
  <2> QED BY <1>3, <1>4, <1>5, <1>6, <1>8, <2>3, <2>4, <2>5 DEF k, u, l, x
<1>9. CASE /\ ~(k = Cur(x) /\ u.seg_num = N)
           /\ rec' = [rec EXCEPT ![cq.r] = y3] /\ Return /\ UNCHANGED net
  <2>1. /\ y3 \in RecType /\ y3.state = u.state /\ y3.refcount = u.refcount - 1
        /\ SameData(u, y3) /\ SameMarks(u, y3)
    BY <1>5, Deref
  <2> HIDE DEF y3
  <2>2. Changes(cq.r, y3) /\ SameOwners(x, y3) /\ y3.state = x.state /\ y3.raced = x.raced
        /\ y3.refcount = x.refcount - 1 /\ y3.segs = u.segs /\ y3.seg_num = u.seg_num
    BY <1>1, <1>6, <1>9, <2>1 DEF Changes, SameMarks, SameOwners, SameData
  <2> HIDE DEF k
  <2> QED BY <1>3, <1>4, <1>5, <1>6, <1>9, <2>2 DEF k, u, l, x
<1> HIDE DEF k
<1> QED BY <1>2, <1>7, <1>8, <1>9

(* complete_rmpp() of the last segment.                                    *)
LEMMA FinishEffect ==
    ASSUME Types, CqFinish
    PROVE  LET x == rec[cq.r]
           IN  \E y : /\ Changes(cq.r, y) /\ y.refcount = x.refcount - 1
                     /\ y.state = x.state /\ y.seg_num = x.seg_num
                     /\ y.segs = x.segs /\ y.listed = x.listed
                     /\ y.timer = (IF x.seg_num > 1 THEN FALSE ELSE x.timer)
                     /\ y.cleanup = TRUE /\ y.given = TRUE
                     /\ y.wcFreed = x.wcFreed /\ y.raced = x.raced
                     /\ net' = net \cup {AckOf(x)} /\ Return
<1> DEFINE x == rec[cq.r]
           a == Acked(x)
           c == complete_rmpp(a)
           y == deref_rmpp_recv(c)
<1>1. cq.r \in Recs /\ x \in RecType
  BY DEF Types, CqFinish
<1>2. Return /\ net' = net \cup {AckOf(x)} /\ rec' = [rec EXCEPT ![cq.r] = y]
  BY DEF CqFinish
<1> HIDE DEF x
<1>3. /\ a \in RecType /\ a.refcount = x.refcount /\ a.state = x.state
      /\ a.seg_num = x.seg_num /\ a.segs = x.segs /\ SameMarks(x, a)
  BY <1>1, AckedRec
<1> HIDE DEF a
<1>4. /\ c \in RecType /\ c.refcount = x.refcount /\ c.state = x.state
      /\ c.seg_num = x.seg_num /\ c.segs = x.segs /\ c.listed = x.listed
      /\ c.timer = (IF x.seg_num > 1 THEN FALSE ELSE x.timer)
      /\ c.cleanup = TRUE /\ c.given = TRUE /\ c.wcFreed = x.wcFreed
      /\ c.raced = x.raced
  <2>1. /\ c \in RecType /\ c.refcount = a.refcount /\ c.state = a.state
        /\ SameData(a, c) /\ c.listed = a.listed /\ c.wcFreed = a.wcFreed
        /\ c.timer = (IF a.seg_num > 1 THEN FALSE ELSE a.timer)
        /\ c.cleanup = TRUE /\ c.given = TRUE /\ c.raced = a.raced
    BY <1>3, CompleteRec
  <2> HIDE DEF c
  <2> QED BY <1>3, <2>1 DEF SameMarks, SameData
<1> HIDE DEF c
<1>5. /\ y \in RecType /\ y.refcount = x.refcount - 1 /\ y.state = x.state
      /\ y.seg_num = x.seg_num /\ y.segs = x.segs /\ y.listed = x.listed
      /\ y.timer = (IF x.seg_num > 1 THEN FALSE ELSE x.timer)
      /\ y.cleanup = TRUE /\ y.given = TRUE /\ y.wcFreed = x.wcFreed
      /\ y.raced = x.raced
  <2>1. /\ y \in RecType /\ y.refcount = c.refcount - 1 /\ y.state = c.state
        /\ SameData(c, y) /\ SameMarks(c, y)
    BY <1>4, Deref
  <2> HIDE DEF y
  <2> QED BY <1>4, <2>1 DEF SameData, SameMarks
<1> HIDE DEF y
<1>6. Changes(cq.r, y)
  BY <1>1, <1>2, <1>5 DEF Changes
<1> QED BY <1>2, <1>5, <1>6 DEF x

(* recv_timeout_handler() tests the state, and changes it.                 *)
LEMMA TimeoutEffect ==
    ASSUME Types, NEW r \in Recs, RecvTimeout(r)
    PROVE  LET x == rec[r]
           IN  \E y : /\ Changes(r, y) /\ y.refcount = x.refcount /\ SameData(x, y)
                     /\ y.timer = FALSE /\ y.cleanup = x.cleanup
                     /\ y.given = x.given /\ y.wcFreed = x.wcFreed
                     /\ y.raced = x.raced /\ y.state = x.state
                     /\ y.listed = x.listed
                     /\ \/ x.state # "ACTIVE" /\ UNCHANGED wq
                        \/ x.state = "ACTIVE" /\ WqStart("expire", r)
<1> DEFINE x == rec[r]
           y == [x EXCEPT !.timer = FALSE]
<1>1. x \in RecType
  BY DEF Types
<1>2. /\ rec' = [rec EXCEPT ![r] = y]
      /\ \/ x.state # "ACTIVE" /\ UNCHANGED wq
         \/ x.state = "ACTIVE" /\ WqStart("expire", r)
  BY DEF RecvTimeout, Expires, Types
<1> HIDE DEF x
<1>3. /\ y \in RecType /\ y.refcount = x.refcount /\ SameData(x, y)
      /\ y.timer = FALSE /\ y.cleanup = x.cleanup /\ y.state = x.state
      /\ y.given = x.given /\ y.wcFreed = x.wcFreed /\ y.listed = x.listed
      /\ y.raced = x.raced
  BY <1>1 DEF RecType, SameData
<1> HIDE DEF y
<1> QED BY <1>2, <1>3 DEF Changes, x

(* The record that has timed out leaves the list.                          *)
LEMMA ExpireEffect ==
    ASSUME Types, RecvExpire
    PROVE  LET x == rec[wq.r]
           IN  \E y : /\ Changes(wq.r, y) /\ y.refcount = x.refcount /\ SameData(x, y)
                     /\ y.timer = x.timer /\ y.cleanup = x.cleanup
                     /\ y.given = x.given /\ y.wcFreed = x.wcFreed
                     /\ y.raced = x.raced /\ y.state = "TIMEOUT"
                     /\ y.listed = FALSE
<1> DEFINE x == rec[wq.r]
           y == [x EXCEPT !.state = "TIMEOUT", !.listed = FALSE]
<1>1. wq.r \in Recs /\ x \in RecType
  BY DEF Types, RecvExpire
<1>2. rec' = [rec EXCEPT ![wq.r] = y]
  BY <1>1 DEF RecvExpire, Types
<1> HIDE DEF x
<1>3. /\ y \in RecType /\ y.refcount = x.refcount /\ SameData(x, y)
      /\ y.timer = x.timer /\ y.cleanup = x.cleanup /\ y.state = "TIMEOUT"
      /\ y.given = x.given /\ y.wcFreed = x.wcFreed /\ y.listed = FALSE
      /\ y.raced = x.raced
  BY <1>1 DEF RecType, SameData
<1> HIDE DEF y
<1> QED BY <1>1, <1>2, <1>3 DEF Changes, x

(* kfree() leaves the client its list.                                     *)
LEMMA FreedRec ==
    ASSUME NEW x \in RecType, NEW y, y = Freed(x)
    PROVE  /\ y \in RecType /\ y.refcount = x.refcount /\ y.state = "freed"
           /\ y.seg_num = 0 /\ y.segs = (IF x.given THEN x.segs ELSE <<>>)
           /\ SameMarks(x, y)
<1> DEFINE z == 0
           t == IF x.given THEN x.segs ELSE <<>>
<1>0. <<>> \in Seq(1..N)
  OBVIOUS
<1>1. z \in Nat /\ t \in Seq(1..N)
  BY <1>0, RecFields
<1>2. y = [x EXCEPT !.state = "freed", !.seg_num = z, !.newwin = z,
                    !.last_ack = z, !.segs = t]
  BY DEF Freed
<1> HIDE DEF z, t
<1>3. y \in RecType
  BY <1>1, <1>2 DEF RecType
<1>4. y.refcount = x.refcount /\ y.state = "freed" /\ y.seg_num = z /\ y.segs = t
      /\ SameMarks(x, y)
  BY <1>2 DEF RecType, SameMarks
<1> QED BY <1>3, <1>4 DEF z, t

(* The handlers of the workqueue that put a reference or free the record.  *)
LEMMA WorkEffect ==
    ASSUME Types, NEW x, x = rec[wq.r]
    PROVE  /\ RecvNack =>
                 \E y : /\ Changes(wq.r, y) /\ y.refcount = x.refcount - 1
                       /\ y.state = x.state /\ SameData(x, y) /\ SameMarks(x, y)
           /\ RecvDestroy =>
                 \E y : /\ Changes(wq.r, y) /\ y.refcount = x.refcount
                       /\ y.state = "freed" /\ y.seg_num = 0
                       /\ y.segs = (IF x.given THEN x.segs ELSE <<>>)
                       /\ y.listed = x.listed /\ y.timer = x.timer
                       /\ y.cleanup = x.cleanup /\ y.given = x.given
                       /\ y.raced = x.raced /\ y.wcFreed = TRUE
           /\ CleanupDestroy =>
                 \E y : /\ Changes(wq.r, y) /\ y.refcount = x.refcount
                       /\ y.state = "freed" /\ y.seg_num = 0
                       /\ y.segs = (IF x.given THEN x.segs ELSE <<>>)
                       /\ SameMarks(x, y)
<1> DEFINE a == deref_rmpp_recv(x)
           c == Freed(x)
           b == [c EXCEPT !.wcFreed = TRUE]
<1>1. RecvNack \/ RecvDestroy \/ CleanupDestroy => wq.r \in Recs /\ x \in RecType
  BY DEF Types, RecvNack, RecvDestroy, CleanupDestroy
<1>2. /\ RecvNack => rec' = [rec EXCEPT ![wq.r] = a]
      /\ RecvDestroy => rec' = [rec EXCEPT ![wq.r] = b]
      /\ CleanupDestroy => rec' = [rec EXCEPT ![wq.r] = c]
  BY <1>1 DEF RecvNack, RecvDestroy, CleanupDestroy, Types
<1>3. x \in RecType => /\ a \in RecType /\ a.refcount = x.refcount - 1
                       /\ a.state = x.state /\ SameData(x, a) /\ SameMarks(x, a)
  BY Deref
<1>5. x \in RecType => /\ c \in RecType /\ c.refcount = x.refcount
                       /\ c.state = "freed" /\ c.seg_num = 0
                       /\ c.segs = (IF x.given THEN x.segs ELSE <<>>)
                       /\ SameMarks(x, c)
  BY FreedRec
<1> HIDE DEF a, c
<1>4. c \in RecType => /\ b \in RecType /\ b.refcount = c.refcount
                       /\ b.state = c.state /\ b.seg_num = c.seg_num
                       /\ b.segs = c.segs /\ b.listed = c.listed
                       /\ b.timer = c.timer /\ b.cleanup = c.cleanup
                       /\ b.given = c.given /\ b.raced = c.raced /\ b.wcFreed = TRUE
  BY DEF RecType
<1> HIDE DEF b
<1>6. ASSUME RecvNack PROVE \E y : /\ Changes(wq.r, y) /\ y.refcount = x.refcount - 1
                       /\ y.state = x.state /\ SameData(x, y) /\ SameMarks(x, y)
  BY <1>1, <1>2, <1>3, <1>6 DEF Changes
<1>7. ASSUME RecvDestroy
      PROVE  \E y : /\ Changes(wq.r, y) /\ y.refcount = x.refcount
                   /\ y.state = "freed" /\ y.seg_num = 0
                   /\ y.segs = (IF x.given THEN x.segs ELSE <<>>)
                   /\ y.listed = x.listed /\ y.timer = x.timer
                   /\ y.cleanup = x.cleanup /\ y.given = x.given
                   /\ y.raced = x.raced /\ y.wcFreed = TRUE
  BY <1>1, <1>2, <1>4, <1>5, <1>7 DEF Changes, SameMarks
<1>8. ASSUME CleanupDestroy
      PROVE  \E y : /\ Changes(wq.r, y) /\ y.refcount = x.refcount
                   /\ y.state = "freed" /\ y.seg_num = 0
                   /\ y.segs = (IF x.given THEN x.segs ELSE <<>>)
                   /\ SameMarks(x, y)
  BY <1>1, <1>2, <1>5, <1>8 DEF Changes
<1> QED BY <1>6, <1>7, <1>8

(* recv_cleanup_handler() takes the record out of the list.                *)
LEMMA CleanupEffect ==
    ASSUME Types, NEW r \in Recs, RecvCleanup(r)
    PROVE  LET x == rec[r]
           IN  \E y : /\ Changes(r, y) /\ y.refcount = x.refcount - 1
                     /\ y.state = x.state /\ SameData(x, y) /\ y.timer = x.timer
                     /\ y.given = x.given /\ y.wcFreed = x.wcFreed
                     /\ y.raced = x.raced
                     /\ y.cleanup = FALSE /\ y.listed = FALSE
<1> DEFINE x == rec[r]
           a == [x EXCEPT !.cleanup = FALSE, !.listed = FALSE]
           y == deref_rmpp_recv(a)
<1>1. x \in RecType
  BY DEF Types
<1>2. rec' = [rec EXCEPT ![r] = y]
  BY DEF RecvCleanup, Types
<1> HIDE DEF x
<1>3. /\ a \in RecType /\ a.refcount = x.refcount /\ a.state = x.state
      /\ SameData(x, a) /\ a.timer = x.timer /\ a.given = x.given
      /\ a.wcFreed = x.wcFreed /\ a.cleanup = FALSE /\ a.listed = FALSE
      /\ a.raced = x.raced
  BY <1>1 DEF RecType, SameData
<1> HIDE DEF a
<1>4. /\ y \in RecType /\ y.refcount = a.refcount - 1 /\ y.state = a.state
      /\ SameData(a, y) /\ SameMarks(a, y)
  BY <1>3, Deref
<1> HIDE DEF y
<1>5. Changes(r, y) /\ SameData(x, y)
  BY <1>2, <1>3, <1>4 DEF Changes, SameData
<1> QED BY <1>3, <1>4, <1>5 DEF x, SameMarks

(* The clean-up of a record that the timeout has freed.                    *)
LEMMA CleanupFreedEffect ==
    ASSUME Types, NEW r \in Recs, CleanupFreed(r)
    PROVE  LET x == rec[r]
           IN  \E y : /\ Changes(r, y) /\ y.refcount = x.refcount
                     /\ y.state = x.state /\ SameData(x, y) /\ y.timer = x.timer
                     /\ y.given = x.given /\ y.wcFreed = x.wcFreed
                     /\ y.raced = x.raced
                     /\ y.cleanup = FALSE /\ y.listed = x.listed
<1> DEFINE x == rec[r]
           y == [x EXCEPT !.cleanup = FALSE]
<1>1. x \in RecType
  BY DEF Types
<1>2. rec' = [rec EXCEPT ![r] = y]
  BY DEF CleanupFreed, Types
<1> HIDE DEF x
<1>3. /\ y \in RecType /\ y.refcount = x.refcount /\ y.state = x.state
      /\ SameData(x, y) /\ y.timer = x.timer /\ y.given = x.given
      /\ y.wcFreed = x.wcFreed /\ y.cleanup = FALSE /\ y.listed = x.listed
      /\ y.raced = x.raced
  BY <1>1 DEF RecType, SameData
<1> HIDE DEF y
<1> QED BY <1>2, <1>3 DEF Changes, x

(* ib_cancel_rmpp_recvs() cancels the works of the listed records.         *)
LEMMA CancelEffect ==
    ASSUME Types, ib_cancel_rmpp_recvs
    PROVE  /\ rec' \in [Recs -> RecType]
           /\ \A r \in Recs : ~rec[r].listed => rec'[r] = rec[r]
           /\ \A r \in Recs : rec[r].listed =>
                 /\ rec'[r].timer = FALSE /\ rec'[r].cleanup = FALSE
                 /\ rec'[r].refcount = rec[r].refcount /\ rec'[r].state = rec[r].state
                 /\ SameData(rec[r], rec'[r]) /\ rec'[r].given = rec[r].given
                 /\ rec'[r].listed = rec[r].listed /\ rec'[r].wcFreed = rec[r].wcFreed
                 /\ rec'[r].raced = rec[r].raced
<1> DEFINE f(x) == [x EXCEPT !.timer = FALSE, !.cleanup = FALSE]
<1>1. ASSUME NEW x \in RecType, NEW y, y = f(x)
      PROVE  /\ y \in RecType /\ y.timer = FALSE /\ y.cleanup = FALSE
             /\ y.refcount = x.refcount /\ y.state = x.state
             /\ SameData(x, y) /\ y.given = x.given
             /\ y.listed = x.listed /\ y.wcFreed = x.wcFreed /\ y.raced = x.raced
  BY <1>1 DEF RecType, SameData
<1>2. rec' = [r \in Recs |-> IF rec[r].listed THEN f(rec[r]) ELSE rec[r]]
  BY DEF ib_cancel_rmpp_recvs
<1> HIDE DEF f
<1>3. \A r \in Recs : rec[r] \in RecType
  BY DEF Types
<1>4. \A r \in Recs : rec'[r] = IF rec[r].listed THEN f(rec[r]) ELSE rec[r]
  BY <1>2
<1>5. \A r \in Recs : rec'[r] \in RecType
  BY <1>1, <1>3, <1>4
<1>6. rec' \in [Recs -> RecType]
  <2> DEFINE g(r) == IF rec[r].listed THEN f(rec[r]) ELSE rec[r]
  <2>1. rec' = [r \in Recs |-> g(r)] /\ \A r \in Recs : g(r) \in RecType
    BY <1>2, <1>4, <1>5
  <2> HIDE DEF g
  <2> QED BY <2>1
<1>7. ASSUME NEW r \in Recs, rec[r].listed, NEW y, y = rec'[r]
      PROVE  /\ y.timer = FALSE /\ y.cleanup = FALSE
             /\ y.refcount = rec[r].refcount /\ y.state = rec[r].state
             /\ SameData(rec[r], y) /\ y.given = rec[r].given
             /\ y.listed = rec[r].listed /\ y.wcFreed = rec[r].wcFreed
             /\ y.raced = rec[r].raced
  <2>1. y = f(rec[r]) /\ rec[r] \in RecType
    BY <1>3, <1>4, <1>7
  <2> QED BY <1>1, <2>1
<1> QED BY <1>4, <1>6, <1>7

(* The end of unregister_mad_agent() frees what is left in the list.       *)
LEMMA FreeEffect ==
    ASSUME Types, UnregFree
    PROVE  /\ rec' \in [Recs -> RecType]
           /\ \A r \in Recs : ~rec[r].listed => rec'[r] = rec[r]
           /\ \A r \in Recs : rec[r].listed =>
                 /\ rec'[r].timer = rec[r].timer /\ rec'[r].cleanup = rec[r].cleanup
                 /\ rec'[r].state = "freed" /\ rec'[r].seg_num = 0
                 /\ rec'[r].segs = (IF rec[r].given THEN rec[r].segs ELSE <<>>)
                 /\ rec'[r].raced = rec[r].raced
                 /\ rec'[r].given = rec[r].given /\ rec'[r].listed = FALSE
                 /\ rec'[r].wcFreed = (rec[r].state # "COMPLETE")
<1> DEFINE b(x) == x.state # "COMPLETE"
           f(x) == [Freed(deref_rmpp_recv(x)) EXCEPT !.listed = FALSE,
                                                     !.wcFreed = b(x)]
<1>1. ASSUME NEW x \in RecType, NEW y, y = f(x)
      PROVE  /\ y \in RecType /\ y.timer = x.timer /\ y.cleanup = x.cleanup
             /\ y.state = "freed" /\ y.seg_num = 0 /\ y.given = x.given
             /\ y.segs = (IF x.given THEN x.segs ELSE <<>>) /\ y.raced = x.raced
             /\ y.listed = FALSE /\ y.wcFreed = b(x)
  <2> DEFINE d == deref_rmpp_recv(x)
             z == Freed(d)
  <2>0. d \in RecType /\ SameData(x, d) /\ SameMarks(x, d)
    BY <1>1, Deref
  <2> HIDE DEF d
  <2>1. z \in RecType /\ SameMarks(x, z) /\ z.seg_num = 0 /\ z.state = "freed"
        /\ z.segs = (IF x.given THEN x.segs ELSE <<>>)
    <3>1. z \in RecType /\ SameMarks(d, z) /\ z.seg_num = 0 /\ z.state = "freed"
          /\ z.segs = (IF d.given THEN d.segs ELSE <<>>)
      BY <2>0, FreedRec
    <3> HIDE DEF z
    <3> QED BY <2>0, <3>1 DEF SameMarks, SameData
  <2>2. b(x) \in BOOLEAN
    OBVIOUS
  <2> HIDE DEF z, b
  <2>3. y = [z EXCEPT !.listed = FALSE, !.wcFreed = b(x)]
    BY <1>1 DEF z, d
  <2>4. /\ y \in RecType /\ y.timer = z.timer /\ y.cleanup = z.cleanup
        /\ y.state = z.state /\ SameData(z, y) /\ y.given = z.given
        /\ y.listed = FALSE /\ y.wcFreed = b(x) /\ y.raced = z.raced
    BY <2>1, <2>2, <2>3 DEF RecType, SameData
  <2> QED BY <2>1, <2>4 DEF SameData, SameMarks
<1>2. rec' = [r \in Recs |-> IF rec[r].listed THEN f(rec[r]) ELSE rec[r]]
  BY DEF UnregFree
<1> HIDE DEF f, b
<1>3. \A r \in Recs : rec[r] \in RecType
  BY DEF Types
<1>4. \A r \in Recs : rec'[r] = IF rec[r].listed THEN f(rec[r]) ELSE rec[r]
  BY <1>2
<1>5. \A r \in Recs : rec'[r] \in RecType
  BY <1>1, <1>3, <1>4
<1>6. rec' \in [Recs -> RecType]
  <2> DEFINE g(r) == IF rec[r].listed THEN f(rec[r]) ELSE rec[r]
  <2>1. rec' = [r \in Recs |-> g(r)] /\ \A r \in Recs : g(r) \in RecType
    BY <1>2, <1>4, <1>5
  <2> HIDE DEF g
  <2> QED BY <2>1
<1>8. ASSUME NEW r \in Recs, rec[r].listed
      PROVE  /\ rec'[r].timer = rec[r].timer /\ rec'[r].cleanup = rec[r].cleanup
             /\ rec'[r].state = "freed" /\ rec'[r].seg_num = 0
             /\ rec'[r].raced = rec[r].raced
             /\ rec'[r].segs = (IF rec[r].given THEN rec[r].segs ELSE <<>>)
             /\ rec'[r].given = rec[r].given /\ rec'[r].listed = FALSE
             /\ rec'[r].wcFreed = (rec[r].state # "COMPLETE")
  <2>1. rec'[r] = f(rec[r]) /\ rec[r] \in RecType
    BY <1>3, <1>4, <1>8
  <2>2. /\ rec'[r].timer = rec[r].timer /\ rec'[r].cleanup = rec[r].cleanup
        /\ rec'[r].state = "freed" /\ rec'[r].seg_num = 0
        /\ rec'[r].raced = rec[r].raced
        /\ rec'[r].segs = (IF rec[r].given THEN rec[r].segs ELSE <<>>)
        /\ rec'[r].given = rec[r].given /\ rec'[r].listed = FALSE
        /\ rec'[r].wcFreed = b(rec[r])
    BY <1>1, <2>1
  <2>3. b(rec[r]) = (rec[r].state # "COMPLETE")
    BY DEF b
  <2> QED BY <2>2, <2>3
<1>9. \A r \in Recs : ~rec[r].listed => rec'[r] = rec[r]
  BY <1>4
<1> QED BY <1>6, <1>8, <1>9

(* A step of the receiver keeps the types.                                 *)
LEMMA TypesStep ==
    ASSUME Types, SendInv, [Next]_vars
    PROVE  Types' /\ SendInv'
<1>1. CASE SenderStep
  <2>1. UNCHANGED receiver
    BY <1>1 DEF SenderStep, Post, SendDone, Complete, RecvAbort, RecvResponse,
                RecvAck, TimeoutSends, CancelMad
  <2> QED BY <1>1, <2>1, SenderStepInv DEF Types, SendInv
<1>2. ASSUME UNCHANGED sender, net' \subseteq Packet, rec' \in [Recs -> RecType],
             \/ UNCHANGED cq \/ Return
             \/ \E at \in {"body", "finish"} : cq.at # "idle" /\ cq' = [cq EXCEPT !.at = at]
             \/ \E r \in Recs, s \in 1..N : cq' = [at |-> "check", r |-> r, seg |-> s],
             \/ UNCHANGED wq \/ WqReturn
             \/ \E r \in Recs : WqStart("nack", r) \/ WqStart("wait", r)
                               \/ WqStart("cwait", r) \/ WqStart("expire", r),
             agent' \in {"open", "closing", "flushing", "closed"}
      PROVE  Types' /\ SendInv'
  <2>1. SendInv'
    BY <1>2 DEF SendInv, SendRefs
  <2>2. /\ cq' \in [at : {"idle", "check", "body", "finish"},
                    r : Recs \cup {NoRec}, seg : 0..N]
        /\ cq'.at # "idle" => cq'.r \in Recs /\ cq'.seg \in 1..N
    <3>1. CASE UNCHANGED cq
      BY <3>1 DEF Types
    <3>2. CASE Return
      BY <3>2, RmppAssumption DEF Return
    <3>3. CASE \E at \in {"body", "finish"} : cq.at # "idle" /\ cq' = [cq EXCEPT !.at = at]
      BY <3>3 DEF Types
    <3>4. CASE \E r \in Recs, s \in 1..N : cq' = [at |-> "check", r |-> r, seg |-> s]
      BY <3>4
    <3> QED BY <1>2, <3>1, <3>2, <3>3, <3>4
  <2>3. /\ wq' \in [at : {"idle", "expire", "nack", "wait", "cwait"}, r : Recs \cup {NoRec}]
        /\ wq'.at # "idle" => wq'.r \in Recs
    BY <1>2 DEF Types, WqStart, WqReturn
  <2> QED BY <1>2, <2>1, <2>2, <2>3 DEF Types
<1>3. CASE ReceiverCq
  <2>1. CASE StartRmpp
    <3>1. PICK r, y : Changes(r, y) /\ net' = net \cup {Ack(1, y.newwin)}
      BY <2>1, StartEffect
    <3>2. Ack(1, y.newwin) \in Packet
      BY <3>1, RecFields DEF Changes, Ack, Packet
    <3> QED BY <1>2, <2>1, <3>1, <3>2, ChangesRec DEF StartRmpp, Types
  <2>2. ASSUME NEW r \in Recs, NEW s \in 1..N, Acquire(r, s) PROVE Types' /\ SendInv'
    <3>1. PICK y : Changes(r, y)
      BY <2>2, AcquireEffect
    <3> QED BY <1>2, <2>2, <3>1, ChangesRec DEF Acquire, Types
  <2>3. CASE CqCheck
    <3>1. AckOf(rec[cq.r]) \in Packet
      BY <2>3, AckPacket DEF Types, CqCheck
    <3>2. CASE cq' = [cq EXCEPT !.at = "body"] /\ UNCHANGED <<rec, net>>
      BY <1>2, <2>3, <3>2 DEF CqCheck, Types
    <3>3. CASE Return /\ (\E y : Changes(cq.r, y))
               /\ (UNCHANGED net \/ net' = net \cup {AckOf(rec[cq.r])})
      <4>1. rec' \in [Recs -> RecType]
        BY <3>3, ChangesRec DEF Types
      <4>2. net' \subseteq Packet
        BY <3>1, <3>3 DEF Types
      <4> QED BY <1>2, <2>3, <3>3, <4>1, <4>2 DEF CqCheck, Types
    <3> QED BY <2>3, <3>2, <3>3, CheckEffect
  <2>4. CASE CqBody
    <3>1. PICK y : /\ Changes(cq.r, y)
                   /\ Return \/ cq' = [cq EXCEPT !.at = "finish"]
                   /\ UNCHANGED net \/ net' = net \cup {AckOf(y)}
      BY <2>4, BodyEffect
    <3>2. AckOf(y) \in Packet
      BY <3>1, AckPacket DEF Changes
    <3>3. rec' \in [Recs -> RecType]
      BY <3>1, ChangesRec DEF Types
    <3>4. net' \subseteq Packet
      BY <3>1, <3>2 DEF Types
    <3> QED BY <1>2, <2>4, <3>1, <3>3, <3>4 DEF CqBody, Types
  <2>5. CASE CqFinish
    <3>1. PICK y : Changes(cq.r, y) /\ net' = net \cup {AckOf(rec[cq.r])} /\ Return
      BY <2>5, FinishEffect
    <3>2. AckOf(rec[cq.r]) \in Packet
      BY <2>5, AckPacket DEF CqFinish, Types
    <3>3. rec' \in [Recs -> RecType]
      BY <3>1, ChangesRec DEF Types
    <3> QED BY <1>2, <2>5, <3>1, <3>2, <3>3 DEF CqFinish, Types
  <2> QED BY <1>3, <2>1, <2>2, <2>3, <2>4, <2>5 DEF ReceiverCq
<1>4. CASE ReceiverWq
  <2>1. ASSUME NEW r \in Recs, RecvTimeout(r) PROVE Types' /\ SendInv'
    <3>1. PICK y : Changes(r, y)
      BY <2>1, TimeoutEffect
    <3>2. UNCHANGED wq \/ WqStart("expire", r)
      BY <2>1 DEF RecvTimeout
    <3> QED BY <1>2, <2>1, <3>1, <3>2, ChangesRec DEF RecvTimeout, Types
  <2>2. ASSUME NEW r \in Recs, RecvCleanup(r) PROVE Types' /\ SendInv'
    <3>1. PICK y : Changes(r, y)
      BY <2>2, CleanupEffect
    <3> QED BY <1>2, <2>2, <3>1, ChangesRec DEF RecvCleanup, Types
  <2>4. ASSUME NEW r \in Recs, CleanupFreed(r) PROVE Types' /\ SendInv'
    <3>1. PICK y : Changes(r, y)
      BY <2>4, CleanupFreedEffect
    <3> QED BY <1>2, <2>4, <3>1, ChangesRec DEF CleanupFreed, Types
  <2>5. CASE RecvExpire
    <3>1. PICK y : Changes(wq.r, y)
      BY <2>5, ExpireEffect
    <3>2. wq.r \in Recs
      BY <3>1 DEF Changes
    <3> QED BY <1>2, <2>5, <3>1, <3>2, ChangesRec DEF RecvExpire, Types
  <2>3. CASE RecvNack \/ RecvDestroy \/ CleanupDestroy
    <3>1. PICK y : Changes(wq.r, y)
      BY <2>3, WorkEffect
    <3>2. net' \subseteq Packet
      BY <2>3 DEF RecvNack, RecvDestroy, CleanupDestroy, Types, Abort, Packet
    <3>3. WqReturn \/ WqStart("wait", wq.r)
      BY <2>3 DEF RecvNack, RecvDestroy, CleanupDestroy
    <3>4. wq.r \in Recs /\ rec' \in [Recs -> RecType]
      BY <3>1, ChangesRec DEF Types
    <3> QED BY <1>2, <2>3, <3>2, <3>3, <3>4
            DEF RecvNack, RecvDestroy, CleanupDestroy, Types
  <2> QED BY <1>4, <2>1, <2>2, <2>3, <2>4, <2>5 DEF ReceiverWq
<1>5. CASE Respond \/ UnregStart
  BY <1>2, <1>5 DEF Respond, UnregStart, Types, Response, Packet
<1>6. CASE ib_cancel_rmpp_recvs
  BY <1>2, <1>6, CancelEffect DEF ib_cancel_rmpp_recvs, Types
<1>7. CASE UnregFree
  BY <1>2, <1>7, FreeEffect DEF UnregFree, Types
<1>8. CASE UNCHANGED vars
  BY <1>8 DEF vars, Types, SendInv, SendRefs
<1> QED BY <1>1, <1>3, <1>4, <1>5, <1>6, <1>7, <1>8 DEF Next

(* Initially nothing is sent.                                              *)
LEMMA InitTypes ==
    ASSUME Init
    PROVE  Types /\ SendInv
<1> DEFINE zero == 0  mr == MaxRetries
<1>1. N \in Nat \ {0} /\ mr \in Int /\ zero \in Nat
  BY RmppAssumption
<1> HIDE DEF zero, mr
<1>2. wr = [on |-> "none", seg |-> zero, last_ack |-> zero, newwin |-> zero,
            refcount |-> zero, timeout |-> "zero", delay |-> "zero",
            retries_left |-> mr, status |-> "ok", result |-> "none",
            posted |-> zero]
  BY DEF Init, zero, mr
<1>3. wr \in WrType
  BY <1>1, <1>2 DEF WrType, Times, Results
<1>4. wr.on = "none" /\ wr.posted = 0 /\ wr.result = "none" /\ wr.last_ack = 0
      /\ wr.status = "ok" /\ wr.timeout = "zero"
  BY <1>2 DEF zero
<1>5. SendInv
  BY <1>1, <1>3, <1>4 DEF SendInv, SendRefs, Init, Results
<1>6. rec \in [Recs -> RecType]
  BY NewRecType DEF Init
<1> QED BY <1>5, <1>6, RmppAssumption DEF Types, Init, SendInv, NoRec

(* The reference counts of the sender agree with the QP in every reachable *)
(* state, whatever fails, however often.                                   *)
THEOREM SenderInvariance == Spec => [](Types /\ SendInv)
<1>1. Init => Types /\ SendInv
  BY InitTypes
<1>2. Types /\ SendInv /\ [Next]_vars => (Types /\ SendInv)'
  BY TypesStep
<1> QED BY <1>1, <1>2, PTL DEF Spec

(* A send work request is with the QP at most once and its client is not   *)
(* told of the end while the QP has it (ib_mad_complete_send_wr(),         *)
(* process_rmpp_ack(), retry_send()).                                      *)
THEOREM SendsOwned == Spec => []SendOwned
<1>1. Types /\ SendInv => SendOwned
  BY WrFields DEF SendInv, SendRefs, SendOwned
<1> QED BY <1>1, SenderInvariance, PTL

-----------------------------------------------------------------------------
(* THE RECORDS OF THE RECEIVER *)

Live(x) == x.state \in {"ACTIVE", "TIMEOUT", "COMPLETE"}

(* A record that is not freed holds one reference for the list, or for the *)
(* handler that took it out, until destroy_rmpp_recv() puts it, and one    *)
(* for the CQ work that uses it; and somebody is there to free it.         *)
Refs(r) ==
    Live(rec[r]) =>
        /\ rec[r].refcount = Count(rec[r].listed \/ (wq.at = "nack" /\ wq.r = r))
                             + Count(cq.r = r)
        /\ rec[r].listed \/ (wq.r = r /\ wq.at # "idle")

(* Its works are queued only while it is listed, or when the timeout has   *)
(* raced with the completion; the client has what it was handed.           *)
Marks(r) ==
    LET x == rec[r]
    IN  /\ x.listed => x.state \in {"ACTIVE", "COMPLETE"}
        /\ x.timer => x.listed
        /\ x.cleanup => x.given /\ ~x.timer /\ (x.listed \/ x.raced)
        /\ x.given => x.state \in {"COMPLETE", "TIMEOUT", "freed"}
        /\ x.wcFreed => x.state = "freed" /\ (x.given <=> x.raced)
        /\ x.state = "COMPLETE" /\ ~x.given => cq.at = "finish" /\ cq.r = r
        /\ x.state = "ACTIVE" => x.listed
        /\ x.state \in {"ACTIVE", "TIMEOUT"} => N # 1

(* A record is completed and timed out at once in one way only: the        *)
(* handler of the timeout had it when continue_rmpp() completed it.        *)
Raced(r) ==
    LET x == rec[r]
    IN  /\ x.raced => TimedOut(r) \/ x.state = "freed"
        /\ x.raced /\ ~x.given => cq.at = "finish" /\ cq.r = r
        /\ x.given /\ TimedOut(r) => x.raced
        /\ x.state = "TIMEOUT" => TimedOut(r)

Shape(r) == Refs(r) /\ Marks(r) /\ Raced(r)

(* Where the CQ work and the workqueue are, and the state of the record    *)
(* they are at.                                                            *)
CqPlace ==
    /\ cq.at = "idle" <=> cq.r = NoRec
    /\ cq.at # "idle" => Live(rec[cq.r])
    /\ cq.at = "body" => /\ rec[cq.r].state \in {"ACTIVE", "TIMEOUT"}
                         /\ ~rec[cq.r].given /\ ~Duplicate(rec[cq.r], cq.seg)
    /\ cq.at = "finish" => /\ rec[cq.r].state \in {"COMPLETE", "TIMEOUT"}
                           /\ ~rec[cq.r].given /\ rec[cq.r].seg_num > 1
                           /\ TimedOut(cq.r) <=> rec[cq.r].raced

WqPlace ==
    /\ wq.at = "idle" <=> wq.r = NoRec
    /\ wq.at = "expire" => /\ rec[wq.r].listed /\ N # 1
                           /\ ~rec[wq.r].given /\ ~rec[wq.r].timer
    /\ wq.at \in {"nack", "wait"} => rec[wq.r].state \in {"TIMEOUT", "COMPLETE"}
    /\ wq.at = "cwait" => rec[wq.r].state = "COMPLETE" /\ rec[wq.r].given
    /\ wq.at \notin {"idle", "expire"} => ~rec[wq.r].listed

(* After unregister_mad_agent() has waited there is no CQ work and no work *)
(* of a listed record.                                                     *)
Closing ==
    agent \in {"flushing", "closed"} =>
        /\ cq.at = "idle"
        /\ \A r \in Recs : ~rec[r].timer /\ (rec[r].cleanup => rec[r].raced)

OneListed ==
    /\ \A r, q \in Recs : rec[r].listed /\ rec[q].listed => r = q
    /\ cq.at # "idle" => \A q \in Recs : rec[q].listed => q = cq.r

RecvInv ==
    /\ \A r \in Recs : Shape(r)
    /\ CqPlace /\ WqPlace /\ Closing /\ OneListed

(* A record that a step leaves alone.                                      *)
LEMMA ShapeOther ==
    ASSUME NEW q \in Recs, Shape(q), rec'[q] = rec[q], cq'.r = q <=> cq.r = q,
           cq.at = "finish" /\ cq.r = q => cq'.at = "finish",
           wq'.at = "nack" /\ wq'.r = q <=> wq.at = "nack" /\ wq.r = q,
           wq.at # "idle" /\ wq.r = q => wq'.at # "idle" /\ wq'.r = q,
           TimedOut(q)' <=> TimedOut(q)
    PROVE  Shape(q)'
<1> DEFINE x == rec[q]
<1>1. Refs(q)'
  BY DEF Shape, Refs, Live, Count
<1>2. Marks(q)'
  BY DEF Shape, Marks
<1>3. Raced(q)'
  <2> DEFINE T == TimedOut(q)  T1 == TimedOut(q)'
  <2>1. T1 <=> T
    OBVIOUS
  <2>2. /\ x.raced => T \/ x.state = "freed"
        /\ x.raced /\ ~x.given => cq.at = "finish" /\ cq.r = q
        /\ x.given /\ T => x.raced
        /\ x.state = "TIMEOUT" => T
    BY DEF Shape, Raced
  <2> HIDE DEF T, T1
  <2>3. /\ x.raced => T1 \/ x.state = "freed"
        /\ x.raced /\ ~x.given => cq'.at = "finish" /\ cq'.r = q
        /\ x.given /\ T1 => x.raced
        /\ x.state = "TIMEOUT" => T1
    BY <2>1, <2>2
  <2> QED BY <2>3 DEF Raced, T1
<1> QED BY <1>1, <1>2, <1>3 DEF Shape

(* No record is number 0.                                                  *)
LEMMA NoRecNot == NoRec \notin Recs
  BY RmppAssumption DEF NoRec, Recs

(* start_rmpp() lists a record that nobody else knows.                     *)
LEMMA StartShape ==
    ASSUME Types, RecvInv, StartRmpp
    PROVE  RecvInv'
<1>1. PICK r \in Unused : \E y :
              /\ Changes(r, y)
              /\ y.state = (IF N = 1 THEN "COMPLETE" ELSE "ACTIVE")
              /\ y.refcount = 1
              /\ y.listed = TRUE /\ y.timer = (N # 1) /\ y.cleanup = (N = 1)
              /\ y.given = (N = 1) /\ y.wcFreed = FALSE /\ y.raced = FALSE
  BY StartEffect
<1>2. PICK y :
              /\ Changes(r, y)
              /\ y.state = (IF N = 1 THEN "COMPLETE" ELSE "ACTIVE")
              /\ y.refcount = 1
              /\ y.listed = TRUE /\ y.timer = (N # 1) /\ y.cleanup = (N = 1)
              /\ y.given = (N = 1) /\ y.wcFreed = FALSE /\ y.raced = FALSE
  BY <1>1
<1>3. /\ r \in Recs /\ rec'[r] = y /\ \A q \in Recs : q # r => rec'[q] = rec[q]
  BY <1>2, ChangesRec DEF Types
<1>4. /\ cq.at = "idle" /\ cq' = cq /\ wq' = wq /\ agent' = agent /\ agent = "open"
      /\ rec[r].state = "none" /\ \A q \in Recs : ~rec[q].listed
  BY DEF StartRmpp, Unused, Listed
<1>w. wq.at # "expire"
  BY DEF StartRmpp, Locked
<1>5. cq.r = NoRec /\ (wq.at # "idle" => wq.r \in Recs /\ wq.r # r) /\ NoRec \notin Recs
  BY <1>4, <1>w, NoRecNot DEF RecvInv, CqPlace, WqPlace, Types
<1>6. \A q \in Recs : q # r => Shape(q)'
  BY <1>3, <1>4, ShapeOther DEF RecvInv, TimedOut
<1>7. Shape(r)'
  <2>1. /\ y.listed /\ y.refcount = 1 /\ (y.timer <=> N # 1) /\ (y.cleanup <=> N = 1)
        /\ (y.given <=> N = 1) /\ ~y.wcFreed /\ y.state \in {"COMPLETE", "ACTIVE"}
        /\ (y.state = "COMPLETE" <=> N = 1) /\ ~y.raced
    BY <1>2
  <2>2. cq'.r # r /\ ~TimedOut(r)'
    BY <1>3, <1>4, <1>5 DEF TimedOut
  <2>3. Refs(r)'
    BY <1>3, <2>1, <2>2 DEF Refs, Count, Live
  <2>4. Marks(r)'
    BY <1>3, <2>1, <2>2 DEF Marks
  <2>5. Raced(r)'
    BY <1>3, <2>1, <2>2 DEF Raced
  <2> QED BY <2>3, <2>4, <2>5 DEF Shape
<1>8. CqPlace' /\ WqPlace' /\ Closing' /\ OneListed'
  BY <1>3, <1>4, <1>5, <1>w DEF RecvInv, CqPlace, WqPlace, Closing, OneListed
<1> QED BY <1>6, <1>7, <1>8 DEF RecvInv

(* acquire_rmpp_recv() gives the completion handler a listed record and a  *)
(* reference to it.                                                        *)
LEMMA AcquireShape ==
    ASSUME Types, RecvInv, NEW r \in Recs, NEW s \in 1..N, Acquire(r, s)
    PROVE  RecvInv'
<1>1. PICK y : /\ Changes(r, y) /\ y.refcount = rec[r].refcount + 1
               /\ y.state = rec[r].state /\ SameData(rec[r], y)
               /\ SameMarks(rec[r], y)
  BY AcquireEffect
<1>2. rec'[r] = y /\ \A q \in Recs : q # r => rec'[q] = rec[q]
  BY <1>1, ChangesRec DEF Types
<1>3. /\ cq.at = "idle" /\ cq' = [at |-> "check", r |-> r, seg |-> s]
      /\ wq' = wq /\ agent' = agent /\ agent = "open" /\ rec[r].listed
  BY DEF Acquire
<1>4. cq.r = NoRec /\ NoRec \notin Recs /\ cq'.r = r /\ cq'.at = "check"
  BY <1>3, NoRecNot DEF RecvInv, CqPlace
<1>5. \A q \in Recs : q # r => Shape(q)'
  BY <1>2, <1>3, <1>4, ShapeOther DEF RecvInv, TimedOut
<1>m. /\ y.listed = rec[r].listed /\ y.timer = rec[r].timer
      /\ y.cleanup = rec[r].cleanup /\ y.given = rec[r].given
      /\ y.wcFreed = rec[r].wcFreed /\ y.raced = rec[r].raced /\ Shape(r)
  BY <1>1 DEF SameMarks, RecvInv
<1>6. Shape(r)'
  <2>1. Refs(r)'
    BY <1>1, <1>2, <1>3, <1>4, <1>m DEF Shape, Refs, Count, Live
  <2>2. Marks(r)'
    BY <1>1, <1>2, <1>3, <1>4, <1>m DEF Shape, Marks
  <2>3. Raced(r)'
    BY <1>1, <1>2, <1>3, <1>4, <1>m DEF Shape, Raced, TimedOut
  <2> QED BY <2>1, <2>2, <2>3 DEF Shape
<1>7. CqPlace'
  BY <1>1, <1>2, <1>3, <1>4, <1>m DEF CqPlace, Shape, Marks, Live
<1>8. WqPlace' /\ Closing' /\ OneListed'
  <2>1. \A q \in Recs : rec'[q].listed = rec[q].listed /\ rec'[q].state = rec[q].state
                        /\ rec'[q].given = rec[q].given
                        /\ rec'[q].timer = rec[q].timer
    BY <1>1, <1>2, <1>m
  <2>2. wq.at # "idle" => wq.r \in Recs
    BY DEF Types
  <2> QED BY <1>3, <1>4, <2>1, <2>2 DEF RecvInv, WqPlace, Closing, OneListed
<1> QED BY <1>5, <1>6, <1>7, <1>8 DEF RecvInv

(* The CQ work returns: it puts its reference and changes no mark but, at  *)
(* the end of a transfer, those of complete_rmpp().                        *)
LEMMA ReturnShape ==
    ASSUME Types, RecvInv, cq.at # "idle", Return, UNCHANGED <<wq, agent>>,
           NEW y, Changes(cq.r, y),
           y.refcount = rec[cq.r].refcount - 1, y.state = rec[cq.r].state,
           \/ /\ SameMarks(rec[cq.r], y) /\ cq.at # "finish"
           \/ /\ cq.at = "finish" /\ y.listed = rec[cq.r].listed /\ y.timer = FALSE
              /\ y.cleanup = TRUE /\ y.given = TRUE /\ y.wcFreed = rec[cq.r].wcFreed
              /\ y.raced = rec[cq.r].raced /\ wq.at # "expire"
    PROVE  RecvInv'
<1>0. PICK r \in Recs : r = cq.r
  BY DEF Types
<1>1. /\ rec'[r] = y /\ \A q \in Recs : q # r => rec'[q] = rec[q]
  BY <1>0, ChangesRec DEF Types
<1>2. cq'.at = "idle" /\ cq'.r = NoRec /\ NoRec \notin Recs /\ wq' = wq /\ agent' = agent
      /\ agent \notin {"flushing", "closed"}
  BY NoRecNot DEF Return, RecvInv, Closing
<1>3. \A q \in Recs : q # r => Shape(q)'
  BY <1>0, <1>1, <1>2, ShapeOther DEF RecvInv, TimedOut
<1>4. Shape(r)'
  <2>1. Refs(r) /\ Marks(r) /\ Raced(r) /\ y.listed = rec[r].listed
        /\ y.raced = rec[r].raced /\ rec[r].refcount \in Int
    BY <1>0, RecFields DEF RecvInv, Shape, SameMarks, Types
  <2>t. TimedOut(r)' <=> TimedOut(r)
    BY <1>2 DEF TimedOut
  <2>2. Refs(r)'
    BY <1>0, <1>1, <1>2, <2>1 DEF Refs, Count, Live
  <2>3. CASE SameMarks(rec[r], y) /\ cq.at # "finish"
    <3>1. Marks(r)'
      BY <1>0, <1>1, <1>2, <2>1, <2>3 DEF Marks, SameMarks
    <3>2. Raced(r)'
      BY <1>0, <1>1, <1>2, <2>1, <2>3, <2>t DEF Raced, SameMarks
    <3> QED BY <2>2, <3>1, <3>2 DEF Shape
  <2>4. CASE /\ cq.at = "finish" /\ y.timer = FALSE
             /\ y.cleanup = TRUE /\ y.given = TRUE /\ y.wcFreed = rec[r].wcFreed
    <3>1. /\ rec[r].state \in {"COMPLETE", "TIMEOUT"}
          /\ TimedOut(r) <=> rec[r].raced
      BY <1>0, <2>4 DEF RecvInv, CqPlace
    <3>2. rec[r].listed \/ rec[r].raced
      <4>1. rec[r].listed \/ (wq.r = r /\ wq.at # "idle")
        BY <3>1, <2>1 DEF Refs, Live
      <4>2. wq.r = r => wq.at # "cwait"
        BY <1>0, <2>4 DEF RecvInv, WqPlace, CqPlace
      <4>3. wq.at \in {"idle", "expire", "nack", "wait", "cwait"}
        BY DEF Types
      <4> QED BY <3>1, <4>1, <4>2, <4>3 DEF TimedOut
    <3>y. y.given /\ y.cleanup /\ ~y.timer /\ y.state = rec[r].state
      BY <1>0, <2>4
    <3>w. ~y.wcFreed
      BY <2>1, <2>4, <3>1 DEF Marks
    <3>3. Marks(r)'
      <4>1. y.listed => y.state \in {"ACTIVE", "COMPLETE"}
        BY <2>1, <3>y DEF Marks
      <4>2. y.state \in {"ACTIVE", "TIMEOUT"} => N # 1
        BY <2>1, <3>y DEF Marks
      <4>3. y.state \in {"COMPLETE", "TIMEOUT"} /\ (y.listed \/ y.raced)
        BY <2>1, <3>1, <3>2, <3>y
      <4> QED BY <1>1, <3>y, <3>w, <4>1, <4>2, <4>3 DEF Marks
    <3>4. Raced(r)'
      <4>1. y.raced => TimedOut(r)
        BY <2>1, <3>1
      <4>2. TimedOut(r) => y.raced
        BY <2>1, <3>1
      <4>3. y.state = "TIMEOUT" => TimedOut(r)
        BY <2>1, <3>y DEF Raced
      <4> QED BY <1>1, <2>t, <3>y, <4>1, <4>2, <4>3 DEF Raced
    <3> QED BY <2>2, <3>3, <3>4 DEF Shape
  <2> QED BY <1>0, <2>3, <2>4
<1>5. CqPlace'
  BY <1>2 DEF CqPlace
<1>6. WqPlace' /\ Closing' /\ OneListed'
  <2>1. \A q \in Recs : rec'[q].listed = rec[q].listed /\ rec'[q].state = rec[q].state
    BY <1>0, <1>1 DEF SameMarks
  <2>2. wq.at # "idle" => wq.r \in Recs
    BY DEF Types
  <2>3. /\ wq.at = "expire" => /\ rec'[wq.r].given = rec[wq.r].given
                               /\ rec'[wq.r].timer = rec[wq.r].timer
        /\ wq.at = "cwait" /\ rec[wq.r].given => rec'[wq.r].given
    BY <1>0, <1>1, <2>2 DEF SameMarks
  <2> QED BY <1>2, <2>1, <2>2, <2>3 DEF RecvInv, WqPlace, Closing, OneListed
<1> QED BY <1>3, <1>4, <1>5, <1>6 DEF RecvInv

(* The three steps of continue_rmpp() keep the records accounted for.      *)
LEMMA CqShape ==
    ASSUME Types, RecvInv, CqCheck \/ CqBody \/ CqFinish
    PROVE  RecvInv'
<1> DEFINE x == rec[cq.r]
<1>0. cq.at # "idle" /\ UNCHANGED <<wq, agent>> /\ cq.r \in Recs /\ x \in RecType
  BY DEF CqCheck, CqBody, CqFinish, Types
<1>1. CASE CqCheck
  <2>1. CASE /\ cq' = [cq EXCEPT !.at = "body"] /\ UNCHANGED rec
             /\ x.state # "TIMEOUT" /\ x.state # "COMPLETE"
             /\ ~Duplicate(x, cq.seg)
    <3>1. cq'.at = "body" /\ cq'.r = cq.r /\ cq'.seg = cq.seg /\ cq.at = "check"
      BY <1>1, <2>1 DEF Types, CqCheck
    <3>2. \A q \in Recs : Shape(q)'
      BY <1>0, <2>1, <3>1, ShapeOther DEF RecvInv, TimedOut
    <3>3. x.state = "ACTIVE" /\ ~x.given
      BY <1>0, <2>1 DEF RecvInv, CqPlace, Live, Shape, Marks
    <3>4. CqPlace'
      BY <1>0, <2>1, <3>1, <3>3 DEF RecvInv, CqPlace, Live, Duplicate
    <3> QED BY <1>0, <2>1, <3>1, <3>2, <3>4
            DEF RecvInv, WqPlace, Closing, OneListed
  <2>2. CASE /\ Return
             /\ \E y : /\ Changes(cq.r, y) /\ y.refcount = x.refcount - 1
                       /\ y.state = x.state /\ SameMarks(x, y)
    BY <1>0, <1>1, <2>2, ReturnShape DEF CqCheck
  <2> QED BY <1>1, <2>1, <2>2, CheckEffect
<1>2. CASE CqBody
  <2>1. PICK y : /\ Changes(cq.r, y) /\ SameOwners(x, y)
                 /\ \/ /\ y.seg_num = N /\ y.state = "COMPLETE"
                       /\ y.refcount = x.refcount
                       /\ cq' = [cq EXCEPT !.at = "finish"]
                       /\ y.raced = TimedOut(cq.r)
                    \/ /\ y.state = x.state /\ y.raced = x.raced
                       /\ y.refcount = x.refcount - 1 /\ Return
    BY <1>2, BodyEffect
  <2>2. CASE /\ y.state = x.state /\ y.raced = x.raced
             /\ y.refcount = x.refcount - 1 /\ Return
    <3>1. SameMarks(x, y) /\ cq.at # "finish"
      BY <1>2, <2>1, <2>2 DEF SameMarks, SameOwners, CqBody
    <3> QED BY <1>0, <1>2, <2>1, <2>2, <3>1, ReturnShape
  <2>3. CASE /\ y.seg_num = N /\ y.state = "COMPLETE" /\ y.refcount = x.refcount
             /\ cq' = [cq EXCEPT !.at = "finish"] /\ y.raced = TimedOut(cq.r)
    <3>1. cq'.at = "finish" /\ cq'.r = cq.r /\ cq.at = "body"
      BY <1>2, <2>3 DEF Types, CqBody
    <3>2. /\ rec'[cq.r] = y /\ \A q \in Recs : q # cq.r => rec'[q] = rec[q]
      BY <2>1, ChangesRec DEF Types
    <3>3. /\ x.state \in {"ACTIVE", "TIMEOUT"} /\ ~x.given /\ N > 1
          /\ Refs(cq.r) /\ Marks(cq.r) /\ Raced(cq.r)
      BY <1>0, <3>1, RmppAssumption DEF RecvInv, CqPlace, Shape, Marks
    <3>m. /\ y.listed = x.listed /\ y.timer = x.timer /\ y.cleanup = x.cleanup
          /\ y.given = x.given /\ y.wcFreed = x.wcFreed
      BY <2>1 DEF SameOwners
    <3>t. \A q \in Recs : TimedOut(q)' <=> TimedOut(q)
      BY <1>0 DEF TimedOut
    <3>4. \A q \in Recs : q # cq.r => Shape(q)'
      BY <1>0, <3>1, <3>2, <3>t, ShapeOther DEF RecvInv
    <3>5. Shape(cq.r)'
      <4>1. Refs(cq.r)'
        BY <1>0, <2>3, <3>1, <3>2, <3>3, <3>m DEF Refs, Count, Live
      <4>2. Marks(cq.r)'
        BY <1>0, <2>3, <3>1, <3>2, <3>3, <3>m DEF Marks
      <4>3. Raced(cq.r)'
        BY <1>0, <2>3, <3>1, <3>2, <3>3, <3>m, <3>t DEF Raced
      <4> QED BY <4>1, <4>2, <4>3 DEF Shape
    <3>6. CqPlace'
      <4>1. TimedOut(cq.r)' <=> y.raced
        BY <1>0, <2>3, <3>t
      <4> QED BY <1>0, <2>3, <3>1, <3>2, <3>3, <3>m, <4>1, NoRecNot
              DEF CqPlace, Live, TimedOut
    <3>7. WqPlace' /\ Closing' /\ OneListed'
      <4>1. wq.at # "idle" => wq.r \in Recs
        BY <1>0 DEF Types
      <4>2. /\ y.listed = x.listed /\ agent \notin {"flushing", "closed"}
            /\ (wq.at = "cwait" => wq.r # cq.r)
        BY <1>0, <3>3, <3>m DEF RecvInv, Closing, WqPlace
      <4>3. WqPlace'
        BY <1>0, <2>3, <3>2, <3>m, <4>1, <4>2 DEF RecvInv, WqPlace
      <4> QED BY <1>0, <3>1, <3>2, <4>2, <4>3 DEF RecvInv, Closing, OneListed
    <3> QED BY <3>4, <3>5, <3>6, <3>7, <3>1 DEF RecvInv
  <2> QED BY <2>1, <2>2, <2>3
<1>3. CASE CqFinish
  <2>1. PICK y : /\ Changes(cq.r, y) /\ y.refcount = x.refcount - 1
                 /\ y.state = x.state /\ y.listed = x.listed
                 /\ y.timer = (IF x.seg_num > 1 THEN FALSE ELSE x.timer)
                 /\ y.cleanup = TRUE /\ y.given = TRUE
                 /\ y.wcFreed = x.wcFreed /\ y.raced = x.raced /\ Return
    BY <1>3, FinishEffect
  <2>2. cq.at = "finish" /\ x.seg_num > 1 /\ wq.at # "expire"
    BY <1>3 DEF CqFinish, RecvInv, CqPlace, Locked
  <2> QED BY <1>0, <2>1, <2>2, ReturnShape
<1> QED BY <1>1, <1>2, <1>3

(* recv_timeout_handler() finds a transfer complete, or takes the record.  *)
LEMMA RecvTimeoutShape ==
    ASSUME Types, RecvInv, NEW r \in Recs, RecvTimeout(r)
    PROVE  RecvInv'
<1>1. PICK y : /\ Changes(r, y) /\ y.refcount = rec[r].refcount
               /\ y.timer = FALSE /\ y.cleanup = rec[r].cleanup
               /\ y.given = rec[r].given /\ y.wcFreed = rec[r].wcFreed
               /\ y.raced = rec[r].raced /\ y.state = rec[r].state
               /\ y.listed = rec[r].listed /\ SameData(rec[r], y)
               /\ \/ rec[r].state # "ACTIVE" /\ UNCHANGED wq
                  \/ rec[r].state = "ACTIVE" /\ WqStart("expire", r)
  BY TimeoutEffect
<1>2. rec'[r] = y /\ \A q \in Recs : q # r => rec'[q] = rec[q]
  BY <1>1, ChangesRec DEF Types
<1>3. /\ wq.at = "idle" /\ wq.r = NoRec /\ UNCHANGED <<cq, agent>> /\ rec[r].timer
      /\ NoRec \notin Recs /\ agent \notin {"flushing", "closed"}
  BY NoRecNot DEF RecvTimeout, RecvInv, WqPlace, Closing
<1>4. Refs(r) /\ Marks(r) /\ Raced(r)
  BY DEF RecvInv, Shape
<1>5. /\ rec[r].listed /\ ~rec[r].cleanup /\ (cq.at # "idle" => cq.r \in Recs)
      /\ \A q \in Recs : ~TimedOut(q)
  BY <1>3, <1>4 DEF Marks, Types, TimedOut
<1>6. CASE rec[r].state # "ACTIVE" /\ UNCHANGED wq
  <2>t. \A q \in Recs : TimedOut(q)' <=> TimedOut(q)
    BY <1>6 DEF TimedOut
  <2>1. \A q \in Recs : q # r => Shape(q)'
    BY <1>2, <1>3, <1>6, <2>t, ShapeOther DEF RecvInv
  <2>2. Refs(r)'
    BY <1>1, <1>2, <1>3, <1>4, <1>6 DEF Refs, Live, Count
  <2>3. Marks(r)'
    BY <1>1, <1>2, <1>3, <1>4, <1>5, <1>6 DEF Marks
  <2>r. Raced(r)'
    BY <1>1, <1>2, <1>3, <1>4, <1>6, <2>t DEF Raced
  <2>4. CqPlace'
    BY <1>1, <1>2, <1>3, <1>5, <1>6
    DEF RecvInv, CqPlace, Live, Duplicate, SameData, TimedOut
  <2>5. WqPlace' /\ Closing' /\ OneListed'
    BY <1>1, <1>2, <1>3, <1>6 DEF RecvInv, WqPlace, Closing, OneListed
  <2> QED BY <2>1, <2>2, <2>3, <2>4, <2>5, <2>r DEF RecvInv, Shape
<1>7. CASE rec[r].state = "ACTIVE" /\ WqStart("expire", r)
  <2>0. wq'.at = "expire" /\ wq'.r = r
    BY <1>7 DEF WqStart
  <2>t. TimedOut(r)' /\ \A q \in Recs : q # r => ~TimedOut(q)'
    BY <2>0 DEF TimedOut
  <2>1. \A q \in Recs : q # r => Shape(q)'
    BY <1>2, <1>3, <1>5, <2>0, <2>t, ShapeOther DEF RecvInv
  <2>2. Refs(r)'
    BY <1>1, <1>2, <1>3, <1>4, <1>5, <1>7, <2>0 DEF Refs, Live, Count
  <2>3. Marks(r)'
    BY <1>1, <1>2, <1>3, <1>4, <1>5, <1>7 DEF Marks
  <2>g. ~rec[r].given /\ ~rec[r].raced /\ N # 1
    BY <1>4, <1>5, <1>7 DEF Marks, Raced
  <2>r. Raced(r)'
    BY <1>1, <1>2, <2>g, <2>t DEF Raced
  <2>4. CqPlace'
    <3>1. cq.at = "finish" => cq.r # r
      BY <1>7 DEF RecvInv, CqPlace
    <3>2. cq.at = "finish" => TimedOut(cq.r)' <=> TimedOut(cq.r)
      BY <1>3, <1>5, <2>t, <3>1
    <3> QED BY <1>1, <1>2, <1>3, <1>5, <1>7, <3>1, <3>2
            DEF RecvInv, CqPlace, Live, Duplicate, SameData
  <2>5. WqPlace' /\ Closing' /\ OneListed'
    BY <1>1, <1>2, <1>3, <1>5, <1>7, <2>0, <2>g
    DEF RecvInv, WqPlace, Closing, OneListed
  <2> QED BY <2>1, <2>2, <2>3, <2>4, <2>5, <2>r DEF RecvInv, Shape
<1> QED BY <1>1, <1>6, <1>7

(* recv_timeout_handler() takes the record off the list, complete or not.  *)
LEMMA RecvExpireShape ==
    ASSUME Types, RecvInv, RecvExpire
    PROVE  RecvInv'
<1>0. PICK r \in Recs : r = wq.r
  BY DEF Types, RecvExpire
<1>1. PICK y : /\ Changes(r, y) /\ y.refcount = rec[r].refcount
               /\ y.timer = rec[r].timer /\ y.cleanup = rec[r].cleanup
               /\ y.given = rec[r].given /\ y.wcFreed = rec[r].wcFreed
               /\ y.raced = rec[r].raced /\ y.state = "TIMEOUT"
               /\ y.listed = FALSE /\ SameData(rec[r], y)
  BY <1>0, ExpireEffect
<1>2. rec'[r] = y /\ \A q \in Recs : q # r => rec'[q] = rec[q]
  BY <1>1, ChangesRec DEF Types
<1>3. /\ wq.at = "expire" /\ wq'.at = "nack" /\ wq'.r = r /\ UNCHANGED <<cq, agent>>
      /\ NoRec \notin Recs /\ (cq.at # "idle" => cq.r \in Recs)
      /\ rec[r].listed /\ ~rec[r].given
  BY <1>0, NoRecNot DEF RecvExpire, WqStart, Types, RecvInv, WqPlace
<1>4. Refs(r) /\ Marks(r) /\ Raced(r) /\ ~rec[r].timer /\ ~rec[r].cleanup /\ N # 1
  BY <1>0, <1>3 DEF RecvInv, Shape, Marks, WqPlace
<1>t. TimedOut(r) /\ TimedOut(r)' /\ \A q \in Recs : TimedOut(q)' <=> TimedOut(q)
  BY <1>0, <1>3 DEF TimedOut
<1>5. \A q \in Recs : q # r => Shape(q)'
  BY <1>0, <1>2, <1>3, <1>t, ShapeOther DEF RecvInv
<1>6. Refs(r)'
  BY <1>0, <1>1, <1>2, <1>3, <1>4 DEF Refs, Marks, Live, Count
<1>7. Marks(r)'
  BY <1>1, <1>2, <1>3, <1>4 DEF Marks
<1>8. Raced(r)'
  BY <1>1, <1>2, <1>3, <1>4, <1>t DEF Raced
<1>9. CqPlace'
  BY <1>1, <1>2, <1>3, <1>t DEF RecvInv, CqPlace, Live, Duplicate, SameData
<1>10. WqPlace' /\ Closing' /\ OneListed'
  BY <1>0, <1>1, <1>2, <1>3, <1>4 DEF RecvInv, WqPlace, Closing, OneListed
<1> QED BY <1>5, <1>6, <1>7, <1>8, <1>9, <1>10 DEF RecvInv, Shape

(* recv_cleanup_handler() drops the reference that kept a complete record  *)
(* listed.                                                                 *)
LEMMA RecvCleanupShape ==
    ASSUME Types, RecvInv, NEW r \in Recs, RecvCleanup(r)
    PROVE  RecvInv'
<1>1. PICK y : /\ Changes(r, y) /\ y.refcount = rec[r].refcount - 1
               /\ y.state = rec[r].state /\ SameData(rec[r], y)
               /\ y.timer = rec[r].timer /\ y.raced = rec[r].raced
               /\ y.given = rec[r].given /\ y.wcFreed = rec[r].wcFreed
               /\ y.cleanup = FALSE /\ y.listed = FALSE
  BY CleanupEffect
<1>2. rec'[r] = y /\ \A q \in Recs : q # r => rec'[q] = rec[q]
  BY <1>1, ChangesRec DEF Types
<1>3. /\ wq.at = "idle" /\ wq.r = NoRec /\ UNCHANGED <<cq, agent>> /\ rec[r].cleanup
      /\ wq'.at = "cwait" /\ wq'.r = r /\ NoRec \notin Recs
      /\ rec[r].state # "freed"
  BY NoRecNot DEF RecvCleanup, RecvInv, WqPlace, WqStart
<1>4. Refs(r) /\ Marks(r) /\ Raced(r) /\ rec[r].refcount \in Int
  BY RecFields DEF RecvInv, Shape, Types
<1>t. \A q \in Recs : ~TimedOut(q) /\ ~TimedOut(q)'
  BY <1>3 DEF TimedOut
<1>5. /\ rec[r].listed /\ rec[r].given /\ ~rec[r].timer /\ rec[r].state = "COMPLETE"
      /\ (cq.at # "idle" => cq.r \in Recs) /\ ~rec[r].raced
      /\ agent \notin {"flushing", "closed"}
  <2>1. ~rec[r].raced
    BY <1>3, <1>4, <1>t DEF Raced
  <2> QED BY <1>3, <1>4, <2>1 DEF Marks, Types, RecvInv, Closing
<1>6. \A q \in Recs : q # r => Shape(q)'
  BY <1>2, <1>3, <1>t, ShapeOther DEF RecvInv
<1>7. Refs(r)'
  BY <1>1, <1>2, <1>3, <1>4, <1>5 DEF Refs, Live, Count
<1>8. Marks(r)' /\ Raced(r)'
  BY <1>1, <1>2, <1>3, <1>4, <1>5, <1>t DEF Marks, Raced
<1>9. CqPlace'
  <2>1. cq.at \in {"body", "finish"} => cq.r # r
    BY <1>5 DEF RecvInv, CqPlace
  <2>2. cq.at # "idle" => TimedOut(cq.r)' <=> TimedOut(cq.r)
    BY <1>3, <1>5, <1>t
  <2> QED BY <1>1, <1>2, <1>3, <1>5, <2>1, <2>2
          DEF RecvInv, CqPlace, Live, Duplicate, SameData
<1>10. WqPlace' /\ Closing' /\ OneListed'
  BY <1>1, <1>2, <1>3, <1>5 DEF RecvInv, WqPlace, Closing, OneListed
<1> QED BY <1>6, <1>7, <1>8, <1>9, <1>10 DEF RecvInv, Shape

(* The clean-up of a record that is freed changes no other.                *)
LEMMA CleanupFreedShape ==
    ASSUME Types, RecvInv, NEW r \in Recs, CleanupFreed(r)
    PROVE  RecvInv'
<1>1. PICK y : /\ Changes(r, y) /\ y.refcount = rec[r].refcount
               /\ y.state = rec[r].state /\ SameData(rec[r], y)
               /\ y.timer = rec[r].timer /\ y.raced = rec[r].raced
               /\ y.given = rec[r].given /\ y.wcFreed = rec[r].wcFreed
               /\ y.cleanup = FALSE /\ y.listed = rec[r].listed
  BY CleanupFreedEffect
<1>2. rec'[r] = y /\ \A q \in Recs : q # r => rec'[q] = rec[q]
  BY <1>1, ChangesRec DEF Types
<1>3. UNCHANGED <<cq, wq, agent>> /\ rec[r].state = "freed"
  BY DEF CleanupFreed
<1>t. \A q \in Recs : TimedOut(q)' <=> TimedOut(q)
  BY <1>3 DEF TimedOut
<1>4. Refs(r) /\ Marks(r) /\ Raced(r)
  BY DEF RecvInv, Shape
<1>5. \A q \in Recs : q # r => Shape(q)'
  BY <1>2, <1>3, <1>t, ShapeOther DEF RecvInv
<1>6. Refs(r)' /\ Marks(r)' /\ Raced(r)'
  BY <1>1, <1>2, <1>3, <1>4, <1>t DEF Refs, Marks, Raced, Live
<1>7. CqPlace'
  <2>1. cq.at # "idle" => cq.r \in Recs /\ cq.r # r
    BY <1>3 DEF RecvInv, CqPlace, Live, Types
  <2> QED BY <1>2, <1>3, <2>1 DEF RecvInv, CqPlace, Live, Duplicate, TimedOut
<1>8. WqPlace' /\ Closing' /\ OneListed'
  <2>1. \A q \in Recs : /\ rec'[q].listed = rec[q].listed /\ rec'[q].state = rec[q].state
                        /\ rec'[q].given = rec[q].given /\ rec'[q].timer = rec[q].timer
                        /\ rec'[q].raced = rec[q].raced
                        /\ rec'[q].cleanup => rec[q].cleanup
    BY <1>1, <1>2
  <2>2. wq.at # "idle" => wq.r \in Recs
    BY DEF Types
  <2> QED BY <1>3, <2>1, <2>2 DEF RecvInv, WqPlace, Closing, OneListed
<1> QED BY <1>5, <1>6, <1>7, <1>8 DEF RecvInv, Shape

(* The steps of the work queue after a handler took its record: the NACK,  *)
(* and the wait for the references before the record is freed.             *)
LEMMA WorkShape ==
    ASSUME Types, RecvInv, RecvNack \/ RecvDestroy \/ CleanupDestroy
    PROVE  RecvInv'
<1>0. PICK r \in Recs : r = wq.r
  BY DEF Types, RecvNack, RecvDestroy, CleanupDestroy
<1>1. PICK y : /\ Changes(r, y)
               /\ y.listed = rec[r].listed /\ y.timer = rec[r].timer
               /\ y.cleanup = rec[r].cleanup /\ y.given = rec[r].given
               /\ y.raced = rec[r].raced
               /\ \/ /\ RecvNack /\ y.refcount = rec[r].refcount - 1
                     /\ SameData(rec[r], y)
                     /\ y.state = rec[r].state /\ y.wcFreed = rec[r].wcFreed
                  \/ /\ RecvDestroy /\ y.refcount = rec[r].refcount
                     /\ y.state = "freed" /\ y.wcFreed = TRUE
                  \/ /\ CleanupDestroy /\ y.refcount = rec[r].refcount
                     /\ y.state = "freed" /\ y.wcFreed = rec[r].wcFreed
  <2>1. CASE RecvNack
    BY <1>0, <2>1, WorkEffect, Zenon DEF SameMarks
  <2>2. CASE RecvDestroy
    BY <1>0, <2>2, WorkEffect, Zenon
  <2>3. CASE CleanupDestroy
    <3>1. PICK y : /\ Changes(wq.r, y) /\ y.refcount = rec[wq.r].refcount
                   /\ y.state = "freed" /\ SameMarks(rec[wq.r], y)
      BY <2>3, WorkEffect
    <3> QED BY <1>0, <2>3, <3>1, Zenon DEF SameMarks
  <2> QED BY <2>1, <2>2, <2>3
<1>2. rec'[r] = y /\ \A q \in Recs : q # r => rec'[q] = rec[q]
  BY <1>1, ChangesRec DEF Types
<1>3. /\ UNCHANGED <<cq, agent>> /\ NoRec \notin Recs /\ wq.at \notin {"idle", "expire"}
      /\ ~rec[r].listed /\ (cq.at # "idle" => cq.r \in Recs)
  BY <1>0, NoRecNot DEF RecvNack, RecvDestroy, CleanupDestroy, RecvInv, WqPlace, Types
<1>4. Refs(r) /\ Marks(r) /\ Raced(r) /\ rec[r].refcount \in Int
  BY RecFields DEF RecvInv, Shape, Types
<1>5. ~rec[r].timer
  BY <1>3, <1>4 DEF Marks
<1>6. Closing' /\ OneListed'
  <2>1. \A q \in Recs : /\ rec'[q].listed = rec[q].listed
                        /\ rec'[q].timer = rec[q].timer
                        /\ rec'[q].cleanup = rec[q].cleanup
                        /\ rec'[q].raced = rec[q].raced
    BY <1>1, <1>2
  <2> QED BY <1>3, <2>1 DEF RecvInv, Closing, OneListed
<1>7. CASE RecvNack /\ y.refcount = rec[r].refcount - 1 /\ SameData(rec[r], y)
           /\ y.state = rec[r].state /\ y.wcFreed = rec[r].wcFreed
  <2>0. /\ wq'.at = "wait" /\ wq'.r = r /\ wq.at = "nack"
        /\ rec[r].state \in {"TIMEOUT", "COMPLETE"}
    BY <1>0, <1>7 DEF RecvNack, WqStart, RecvInv, WqPlace
  <2>t. \A q \in Recs : TimedOut(q)' <=> TimedOut(q)
    BY <1>0, <2>0 DEF TimedOut
  <2>1. \A q \in Recs : q # r => Shape(q)'
    BY <1>0, <1>2, <1>3, <2>0, <2>t, ShapeOther DEF RecvInv
  <2>2. Refs(r)'
    BY <1>0, <1>1, <1>2, <1>3, <1>4, <1>7, <2>0 DEF Refs, Live, Count
  <2>3. Marks(r)'
    BY <1>1, <1>2, <1>3, <1>4, <1>7 DEF Marks
  <2>r. Raced(r)'
    BY <1>1, <1>2, <1>3, <1>4, <1>7, <2>t DEF Raced
  <2>4. CqPlace'
    <3>1. cq.at # "idle" => TimedOut(cq.r)' <=> TimedOut(cq.r)
      BY <1>3, <2>t
    <3> QED BY <1>1, <1>2, <1>3, <1>7, <3>1
            DEF RecvInv, CqPlace, Live, Duplicate, SameData
  <2>5. WqPlace'
    BY <1>1, <1>2, <1>3, <1>7, <2>0 DEF WqPlace
  <2> QED BY <1>6, <2>1, <2>2, <2>3, <2>4, <2>5, <2>r DEF RecvInv, Shape
<1>8. CASE /\ RecvDestroy \/ CleanupDestroy
           /\ y.refcount = rec[r].refcount /\ y.state = "freed"
           /\ (y.wcFreed = TRUE /\ RecvDestroy) \/ (y.wcFreed = rec[r].wcFreed /\ CleanupDestroy)
  <2>0. /\ wq'.at = "idle" /\ wq'.r = NoRec /\ wq.at # "nack" /\ rec[r].refcount = 0
        /\ Live(rec[r]) /\ (RecvDestroy <=> wq.at = "wait")
        /\ (CleanupDestroy <=> wq.at = "cwait")
    BY <1>0, <1>8 DEF RecvDestroy, CleanupDestroy, WqReturn, RecvInv, WqPlace, Live
  <2>t. /\ (RecvDestroy <=> TimedOut(r)) /\ ~TimedOut(r)'
        /\ \A q \in Recs : q # r => ~TimedOut(q) /\ ~TimedOut(q)'
    BY <1>0, <1>3, <1>8, <2>0 DEF TimedOut
  <2>a. cq.r # r
    BY <1>0, <1>3, <1>4, <2>0 DEF Refs, Count
  <2>1. \A q \in Recs : q # r => Shape(q)'
    BY <1>0, <1>2, <1>3, <2>0, <2>t, ShapeOther DEF RecvInv
  <2>2. Refs(r)'
    BY <1>2, <1>8 DEF Refs, Live
  <2>g. RecvDestroy => (rec[r].given <=> rec[r].raced)
    BY <1>4, <2>a, <2>t DEF Raced
  <2>w. ~rec[r].wcFreed
    BY <1>4, <2>0 DEF Marks, Live
  <2>3. Marks(r)'
    BY <1>1, <1>2, <1>3, <1>4, <1>5, <1>8, <2>g, <2>w DEF Marks
  <2>r. Raced(r)'
    BY <1>1, <1>2, <1>4, <1>8, <2>a, <2>t DEF Raced
  <2>4. CqPlace'
    <3>1. cq.at = "finish" => TimedOut(cq.r)' <=> TimedOut(cq.r)
      BY <1>3, <2>a, <2>t
    <3> QED BY <1>1, <1>2, <1>3, <1>8, <2>a, <3>1 DEF RecvInv, CqPlace, Live, Duplicate
  <2>5. WqPlace'
    BY <1>3, <2>0 DEF WqPlace
  <2> QED BY <1>6, <2>1, <2>2, <2>3, <2>4, <2>5, <2>r DEF RecvInv, Shape
<1> QED BY <1>1, <1>7, <1>8

(* ib_cancel_rmpp_recvs() and the freeing that follows close every record  *)
(* of the agent.                                                           *)
LEMMA UnregShape ==
    ASSUME Types, RecvInv, ib_cancel_rmpp_recvs \/ UnregFree
    PROVE  RecvInv'
<1>1. CASE ib_cancel_rmpp_recvs
  <2>1. /\ \A r \in Recs : ~rec[r].listed => rec'[r] = rec[r]
        /\ \A r \in Recs : rec[r].listed =>
                 /\ rec'[r].timer = FALSE /\ rec'[r].cleanup = FALSE
                 /\ rec'[r].refcount = rec[r].refcount /\ rec'[r].state = rec[r].state
                 /\ rec'[r].given = rec[r].given
                 /\ rec'[r].listed = rec[r].listed /\ rec'[r].wcFreed = rec[r].wcFreed
                 /\ rec'[r].raced = rec[r].raced
    BY <1>1, CancelEffect
  <2>2. UNCHANGED <<cq, wq>> /\ cq.at = "idle" /\ wq.at # "expire"
    BY <1>1 DEF ib_cancel_rmpp_recvs, Locked
  <2>t. \A q \in Recs : TimedOut(q)' <=> TimedOut(q)
    BY <2>2 DEF TimedOut
  <2>3. ASSUME NEW r \in Recs
        PROVE  Shape(r)' /\ ~rec'[r].timer /\ (rec'[r].cleanup => rec'[r].raced)
    <3>1. Refs(r) /\ Marks(r) /\ Raced(r)
      BY DEF RecvInv, Shape
    <3>2. CASE ~rec[r].listed
      <4>1. rec'[r] = rec[r] /\ ~rec[r].timer /\ (rec[r].cleanup => rec[r].raced)
        BY <2>1, <3>1, <3>2 DEF Marks
      <4> QED BY <2>2, <2>t, <3>1, <4>1, ShapeOther DEF Shape
    <3>3. CASE rec[r].listed
      <4>1. Refs(r)'
        BY <2>1, <2>2, <3>1, <3>3 DEF Refs, Live, Count
      <4>2. Marks(r)'
        BY <2>1, <2>2, <3>1, <3>3 DEF Marks
      <4>3. Raced(r)'
        BY <2>1, <2>2, <2>t, <3>1, <3>3 DEF Raced
      <4> QED BY <2>1, <3>3, <4>1, <4>2, <4>3 DEF Shape
    <3> QED BY <3>2, <3>3
  <2>4. \A r \in Recs : rec'[r].listed = rec[r].listed /\ rec'[r].state = rec[r].state
                        /\ rec'[r].given = rec[r].given
    BY <2>1
  <2>5. CqPlace' /\ WqPlace' /\ OneListed'
    BY <2>2, <2>4 DEF RecvInv, CqPlace, WqPlace, OneListed, Types
  <2>6. Closing'
    BY <2>2, <2>3 DEF Closing
  <2> QED BY <2>3, <2>5, <2>6 DEF RecvInv
<1>2. CASE UnregFree
  <2>1. /\ \A r \in Recs : ~rec[r].listed => rec'[r] = rec[r]
        /\ \A r \in Recs : rec[r].listed =>
                 /\ rec'[r].timer = rec[r].timer /\ rec'[r].cleanup = rec[r].cleanup
                 /\ rec'[r].state = "freed"
                 /\ rec'[r].given = rec[r].given /\ rec'[r].listed = FALSE
                 /\ rec'[r].wcFreed = (rec[r].state # "COMPLETE")
                 /\ rec'[r].raced = rec[r].raced
    BY <1>2, FreeEffect
  <2>2. UNCHANGED <<cq, wq>> /\ cq.at = "idle" /\ wq.at = "idle" /\ agent' = "closed"
        /\ \A r \in Recs : ~rec[r].timer /\ (rec[r].cleanup => rec[r].raced)
    BY <1>2 DEF UnregFree, RecvInv, Closing
  <2>t. \A q \in Recs : ~TimedOut(q) /\ ~TimedOut(q)'
    BY <2>2 DEF TimedOut
  <2>3. ASSUME NEW r \in Recs
        PROVE  Shape(r)' /\ ~rec'[r].timer /\ (rec'[r].cleanup => rec'[r].raced)
    <3>1. Refs(r) /\ Marks(r) /\ Raced(r)
      BY DEF RecvInv, Shape
    <3>2. CASE ~rec[r].listed
      <4>1. rec'[r] = rec[r]
        BY <2>1, <3>2
      <4> QED BY <2>2, <2>t, <3>1, <4>1, ShapeOther DEF Shape
    <3>3. CASE rec[r].listed
      <4>1. Refs(r)'
        BY <2>1, <3>3 DEF Refs, Live
      <4>2. Marks(r)'
        <5>1. ~rec[r].raced
          BY <2>t, <3>1, <3>3 DEF Marks, Raced
        <5>2. rec[r].state # "COMPLETE" => ~rec[r].given
          BY <2>t, <3>1, <3>3 DEF Marks
        <5> QED BY <2>1, <2>2, <3>1, <3>3, <5>1, <5>2 DEF Marks
      <4>3. Raced(r)'
        BY <2>1, <2>2, <2>t, <3>1, <3>3 DEF Raced, Marks
      <4> QED BY <2>1, <2>2, <3>3, <4>1, <4>2, <4>3 DEF Shape
    <3> QED BY <3>2, <3>3
  <2>4. CqPlace' /\ WqPlace'
    BY <2>2 DEF RecvInv, CqPlace, WqPlace
  <2>5. OneListed'
    BY <2>1, <2>2 DEF RecvInv, OneListed
  <2>6. Closing'
    BY <2>2, <2>3 DEF Closing
  <2> QED BY <2>3, <2>4, <2>5, <2>6 DEF RecvInv
<1> QED BY <1>1, <1>2

(* Every step keeps the references of the records.                         *)
LEMMA RecvInvStep ==
    ASSUME Types, RecvInv, [Next]_vars
    PROVE  RecvInv'
<1>1. CASE UNCHANGED <<rec, cq, wq>> /\ (UNCHANGED agent \/ agent' = "closing")
  <2>1. \A r \in Recs : Shape(r)'
    BY <1>1, ShapeOther DEF RecvInv, TimedOut
  <2> QED BY <1>1, <2>1 DEF RecvInv, CqPlace, WqPlace, Closing, OneListed, Live,
                            Duplicate, TimedOut
<1>2. CASE SenderStep
  BY <1>1, <1>2 DEF SenderStep, Post, SendDone, Complete, RecvAbort, RecvResponse,
                    RecvAck, TimeoutSends, CancelMad
<1>3. CASE ReceiverCq
  BY <1>3, StartShape, AcquireShape, CqShape DEF ReceiverCq
<1>4. CASE ReceiverWq
  BY <1>4, RecvTimeoutShape, RecvExpireShape, RecvCleanupShape, CleanupFreedShape,
     WorkShape DEF ReceiverWq
<1>5. CASE Respond \/ UnregStart \/ UNCHANGED vars
  BY <1>1, <1>5 DEF Respond, UnregStart, vars
<1>6. CASE ib_cancel_rmpp_recvs \/ UnregFree
  BY <1>6, UnregShape
<1> QED BY <1>2, <1>3, <1>4, <1>5, <1>6 DEF Next

(* Initially there is no record.                                           *)
LEMMA InitRecv ==
    ASSUME Init
    PROVE  RecvInv
<1>1. \A r \in Recs : /\ rec[r].state = "none" /\ rec[r].listed = FALSE
                      /\ rec[r].timer = FALSE /\ rec[r].cleanup = FALSE
                      /\ rec[r].given = FALSE /\ rec[r].wcFreed = FALSE
                      /\ rec[r].raced = FALSE
  BY DEF Init, NewRec
<1>2. cq.at = "idle" /\ cq.r = NoRec /\ wq.at = "idle" /\ wq.r = NoRec /\ agent = "open"
  BY DEF Init
<1> QED BY <1>1, <1>2
        DEF RecvInv, Shape, Refs, Marks, Raced, CqPlace, WqPlace, Closing, OneListed, Live

(* The references of the receiver's records are right in every reachable   *)
(* state, and a record that is both timed out and complete has raced.      *)
THEOREM ReceiverInvariance == Spec => [](Types /\ SendInv /\ RecvInv)
<1>1. Init => Types /\ SendInv /\ RecvInv
  BY InitTypes, InitRecv
<1>2. Types /\ SendInv /\ RecvInv /\ [Next]_vars => (Types /\ SendInv /\ RecvInv)'
  BY TypesStep, RecvInvStep
<1> QED BY <1>1, <1>2, PTL DEF Spec

(* A record is freed only when neither the CQ work, nor the list, nor its  *)
(* timeout has it, and with its clean-up queued only when                  *)
(* recv_timeout_handler() and continue_rmpp() have raced for it            *)
(* (destroy_rmpp_recv()).                                                  *)
THEOREM RecordsOwned == Spec => []NoUseAfterFree
<1>1. Types /\ SendInv /\ RecvInv => NoUseAfterFree
  <2> SUFFICES ASSUME Types, RecvInv, NEW r \in Recs, rec[r].state = "freed"
               PROVE  /\ cq.r # r /\ ~rec[r].listed /\ ~rec[r].timer
                      /\ rec[r].cleanup => rec[r].raced
    BY DEF NoUseAfterFree
  <2>1. ~rec[r].listed /\ ~rec[r].timer /\ (rec[r].cleanup => rec[r].raced)
    BY DEF RecvInv, Shape, Marks
  <2>2. cq.r # r
    BY NoRecNot DEF RecvInv, CqPlace, Live
  <2> QED BY <2>1, <2>2
<1> QED BY <1>1, ReceiverInvariance, PTL

(* The MADs handed to the client are freed neither by the timeout of the   *)
(* receive nor by ib_cancel_rmpp_recvs(), except in that race, and then    *)
(* they always are.                                                        *)
THEOREM ClientOwns == Spec => []OwnedByClient
<1>1. Types /\ SendInv /\ RecvInv => OwnedByClient
  BY DEF RecvInv, Shape, Marks, OwnedByClient
<1> QED BY <1>1, ReceiverInvariance, PTL
=============================================================================
