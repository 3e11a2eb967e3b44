----------------------------- MODULE RmppRefines ----------------------------
(***************************************************************************)
(* Rmpp implements RmppService, for every number of segments, every window *)
(* and every fault: whatever the client of the receiver is handed are the  *)
(* segments in order, not again while the agent has the record, and the    *)
(* client of the sender is told of success only after a handover.          *)
(***************************************************************************)
EXTENDS RmppProofs

USE DEF sender, receiver

-----------------------------------------------------------------------------
(* THE LIST IS IN ORDER *)

(* The listed segments are in order, each once, and the first seg_num have *)
(* no gap.                                                                 *)
InOrder(x) ==
    /\ \A i, j \in 1..Len(x.segs) : i < j => x.segs[i] < x.segs[j]
    /\ x.seg_num <= Len(x.segs)
    /\ \A i \in 1..x.seg_num : x.segs[i] = i

(* find_seg_location() divides the list at s.                              *)
LEMMA BeforeSplits ==
    ASSUME NEW x \in RecType, InOrder(x), NEW s \in Int, NEW k, k = Before(x, s)
    PROVE  k \in 0..Len(x.segs) /\ \A i \in 1..Len(x.segs) : x.segs[i] < s <=> i <= k
<1> DEFINE q == x.segs
           L == Len(q)
           D == {i \in 1..L : q[i] < s}
<1>1. L \in Nat /\ \A i \in 1..L : q[i] \in 1..N
  BY RecFields, ElementOfSeq
<1>2. N \in Nat
  BY RmppAssumption
<1>3. \A i, j \in 1..L : i < j => q[i] < q[j]
  BY DEF InOrder
<1>4. k = Cardinality(D)
  BY DEF Before
<1> HIDE DEF q, L
<1>5. ASSUME NEW j \in D, NEW i \in 1..j PROVE i \in D
  <2>1. i \in 1..L /\ j \in 1..L /\ q[j] < s /\ q[i] \in Int /\ q[j] \in Int
    BY <1>1, <1>2, <1>5
  <2>2. q[i] < s
    <3>1. CASE i = j
      BY <3>1, <2>1
    <3>2. CASE i < j
      BY <3>2, <2>1, <1>3
    <3> QED BY <3>1, <3>2, <1>1, <1>5
  <2> QED BY <2>1, <2>2
<1>6. D \in SUBSET (1..L)
  OBVIOUS
<1>7. D = 1..k /\ k \in 0..L
  <2> HIDE DEF D
  <2> QED BY <1>1, <1>4, <1>5, <1>6, PrefixCount
<1>8. \A i \in 1..L : q[i] < s <=> i <= k
  <2>1. \A i \in 1..L : q[i] < s <=> i \in D
    OBVIOUS
  <2> HIDE DEF D
  <2> QED BY <1>1, <1>7, <2>1
<1> QED BY <1>7, <1>8 DEF L, q

(* cur_seg_buf is at the place of its number.                              *)
LEMMA CurIs ==
    ASSUME NEW x \in RecType, InOrder(x)
    PROVE  Cur(x) = x.seg_num
<1> DEFINE q == x.segs
           L == Len(q)
           n == x.seg_num
           k == Cur(x)
           s == n + 1
<1>1. L \in Nat /\ n \in Nat /\ n <= L /\ N \in Nat /\ s \in Int
      /\ \A i \in 1..L : q[i] \in 1..N
  BY RecFields, ElementOfSeq, RmppAssumption DEF InOrder
<1>2. /\ \A i, j \in 1..L : i < j => q[i] < q[j]
      /\ \A i \in 1..n : q[i] = i
  BY DEF InOrder
<1>3. k \in 0..L /\ \A i \in 1..L : q[i] < s <=> i <= k
  <2>1. k = Before(x, s)
    BY DEF Cur
  <2> HIDE DEF s, k
  <2> QED BY <1>1, <2>1, BeforeSplits
<1> HIDE DEF q, L, n, k
<1>4. n <= k
  <2>1. CASE n = 0
    BY <2>1, <1>3
  <2>2. CASE n > 0
    <3>1. n \in 1..L /\ q[n] = n
      BY <2>2, <1>1, <1>2
    <3> QED BY <3>1, <1>1, <1>3
  <2> QED BY <1>1, <2>1, <2>2
<1>5. k <= n
  <2> SUFFICES ASSUME k > n PROVE FALSE
    BY <1>1, <1>3
  <2>1. k \in 1..L /\ q[k] < n + 1 /\ q[k] \in 1..N
    BY <1>1, <1>3
  <2>2. CASE n = 0
    BY <2>1, <2>2, <1>1
  <2>3. CASE n > 0
    <3>1. n \in 1..L /\ n \in 1..n
      BY <2>3, <1>1
    <3>2. q[n] = n /\ q[n] < q[k]
      BY <3>1, <2>1, <1>2
    <3> QED BY <3>2, <2>1, <1>1
  <2> QED BY <1>1, <2>2, <2>3
<1> QED BY <1>1, <1>3, <1>4, <1>5 DEF k, n

(* The segments stay in order when one that is not listed is put in behind *)
(* those before it.                                                        *)
LEMMA InsertInOrder ==
    ASSUME NEW x \in RecType, InOrder(x), NEW s \in 1..N, ~Duplicate(x, s),
           NEW k, k = Before(x, s), NEW l, l = Insert(x, s)
    PROVE  /\ InOrder(l) /\ l \in RecType /\ l.seg_num = x.seg_num
           /\ x.seg_num <= k
<1> DEFINE q == x.segs
           L == Len(q)
           n == x.seg_num
           t == l.segs
<1>1. L \in Nat /\ n \in Nat /\ n <= L /\ N \in Nat /\ s \in Int
      /\ \A i \in 1..L : q[i] \in Int
  BY RecFields, ElementOfSeq, RmppAssumption DEF InOrder
<1>2. /\ \A i, j \in 1..L : i < j => q[i] < q[j]
      /\ \A i \in 1..n : q[i] = i
      /\ \A i \in 1..L : q[i] # s
  BY DEF InOrder, Duplicate
<1>3. k \in 0..L /\ \A i \in 1..L : q[i] < s <=> i <= k
  BY <1>1, BeforeSplits
<1>a. l = [x EXCEPT !.segs = l.segs] /\ l \in RecType /\ PutIn(t, 1..N, q, s, k)
  BY InsertSegs
<1>5. l.seg_num = n
  BY <1>a DEF RecType
<1> HIDE DEF q, n, t
<1>4. /\ l \in RecType /\ Len(t) = L + 1
      /\ \A i \in 1..(L + 1) :
            t[i] = IF i <= k THEN q[i] ELSE IF i = k + 1 THEN s ELSE q[i - 1]
  BY <1>a DEF PutIn
<1> HIDE DEF L
<1>6. n < s
  <2> SUFFICES ASSUME s <= n PROVE FALSE
    BY <1>1
  <2>1. s \in 1..n /\ s \in 1..L
    BY <1>1
  <2> QED BY <2>1, <1>2
<1>7. n <= k
  <2>1. CASE n = 0
    BY <2>1, <1>3
  <2>2. CASE n > 0
    <3>1. n \in 1..L /\ q[n] = n
      BY <2>2, <1>1, <1>2
    <3> QED BY <3>1, <1>3, <1>6
  <2> QED BY <1>1, <2>1, <2>2
<1>8. ASSUME NEW i \in 1..n PROVE t[i] = i
  <2>1. i \in 1..(L + 1) /\ i <= k
    BY <1>1, <1>3, <1>7, <1>8
  <2> QED BY <2>1, <1>2, <1>4
<1>9. ASSUME NEW i \in 1..(L + 1), NEW j \in 1..(L + 1), i < j PROVE t[i] < t[j]
  <2>0. i \in Int /\ j \in Int /\ k \in Int
    BY <1>1, <1>3
  <2>1. CASE j <= k
    <3>1. i \in 1..L /\ j \in 1..L /\ i <= k
      BY <1>1, <1>3, <1>9, <2>0, <2>1
    <3> QED BY <2>1, <3>1, <1>2, <1>4, <1>9
  <2>2. CASE j = k + 1
    <3>1. i \in 1..L /\ i <= k /\ ~(j <= k)
      BY <1>1, <1>3, <1>9, <2>0, <2>2
    <3>2. t[i] = q[i] /\ t[j] = s
      BY <2>2, <3>1, <1>4
    <3> QED BY <3>1, <3>2, <1>3
  <2>3. CASE j > k + 1
    <3>1. j - 1 \in 1..L /\ ~(j <= k) /\ j # k + 1 /\ ~(j - 1 <= k) /\ k < j - 1
      BY <1>1, <1>3, <2>0, <2>3
    <3>2. t[j] = q[j - 1]
      BY <3>1, <1>4
    <3>3. CASE i <= k
      <4>1. i \in 1..L /\ i < j - 1
        BY <1>1, <1>3, <2>0, <2>3, <3>3
      <4>2. t[i] = q[i]
        BY <3>3, <1>4
      <4> QED BY <3>1, <3>2, <4>1, <4>2, <1>2
    <3>4. CASE i = k + 1
      <4>1. t[i] = s
        <5>1. ~(i <= k)
          BY <2>0, <3>4
        <5> QED BY <3>4, <5>1, <1>4
      <4>2. ~(q[j - 1] < s) /\ q[j - 1] # s /\ q[j - 1] \in Int
        BY <3>1, <1>1, <1>2, <1>3
      <4> QED BY <3>2, <4>1, <4>2, <1>1
    <3>5. CASE i > k + 1
      <4>1. i - 1 \in 1..L /\ ~(i <= k) /\ i # k + 1 /\ i - 1 < j - 1
        BY <1>1, <1>3, <1>9, <2>0, <3>5
      <4>2. t[i] = q[i - 1]
        BY <4>1, <1>4
      <4> QED BY <3>1, <3>2, <4>1, <4>2, <1>2
    <3> QED BY <2>0, <3>3, <3>4, <3>5
  <2> QED BY <2>0, <2>1, <2>2, <2>3
<1>10. InOrder(l)
  <2>1. l.segs = t /\ Len(t) = L + 1 /\ l.seg_num = n /\ n <= L + 1
    BY <1>1, <1>4, <1>5 DEF t
  <2> QED BY <2>1, <1>8, <1>9 DEF InOrder
<1> QED BY <1>4, <1>5, <1>7, <1>10 DEF n

(* The list after the body of continue_rmpp().                             *)
LEMMA BodyInOrder ==
    ASSUME NEW x \in RecType, InOrder(x), NEW s \in 1..N, ~Duplicate(x, s),
           NEW k, k = Before(x, s), NEW u, u = update_seg_num(Insert(x, s), k)
    PROVE  InOrder(u) /\ (k # Cur(x) => u.seg_num = x.seg_num)
<1> DEFINE l == Insert(x, s)
<1>1. InOrder(l) /\ l \in RecType /\ l.seg_num = x.seg_num
  BY InsertInOrder
<1> HIDE DEF l
<1>2. Cur(l) = Cur(x)
  BY <1>1, CurIs
<1>3. u = update_seg_num(l, k)
  BY DEF l
<1>4. /\ u \in RecType /\ u = [l EXCEPT !.seg_num = u.seg_num]
      /\ k # Cur(l) => u = l
      /\ k = Cur(l) => /\ u.seg_num \in 0..Len(l.segs)
                       /\ \A i \in 1..u.seg_num : l.segs[i] = i
  BY <1>1, <1>3, UpdateSegNum
<1>5. u.segs = l.segs
  BY <1>1, <1>4 DEF RecType
<1>6. CASE k = Cur(l)
  <2>1. Len(l.segs) \in Nat
    BY <1>1, RecFields
  <2> QED BY <1>1, <1>2, <1>4, <1>5, <1>6, <2>1 DEF InOrder
<1>7. CASE k # Cur(l)
  BY <1>1, <1>2, <1>4, <1>7
<1> QED BY <1>6, <1>7

(* A list in order that reaches N is the message.                          *)
LEMMA Whole ==
    ASSUME NEW x \in RecType, InOrder(x), x.seg_num = N
    PROVE  x.segs = [i \in 1..N |-> i] /\ x.segs # <<>>
<1> DEFINE q == x.segs
           L == Len(q)
<1>1. L \in Nat /\ N \in Nat /\ N > 0 /\ N <= L /\ q \in [1..L -> 1..N]
      /\ \A i \in 1..L : q[i] \in 1..N
  BY RecFields, LenProperties, ElementOfSeq, RmppAssumption DEF InOrder
<1>2. /\ \A i, j \in 1..L : i < j => q[i] < q[j]
      /\ \A i \in 1..N : q[i] = i
  BY DEF InOrder
<1> HIDE DEF q, L
<1>3. L = N
  <2> SUFFICES ASSUME L > N PROVE FALSE
    BY <1>1
  <2>1. N \in 1..L /\ N + 1 \in 1..L /\ N \in 1..N /\ N < N + 1
    BY <1>1
  <2>2. q[N] = N /\ q[N] < q[N + 1] /\ q[N + 1] \in 1..N
    BY <2>1, <1>1, <1>2
  <2> QED BY <2>2, <1>1
<1>4. q = [i \in 1..N |-> i]
  BY <1>1, <1>2, <1>3
<1>5. q # <<>>
  BY <1>1, <1>3 DEF L
<1> QED BY <1>4, <1>5 DEF q

-----------------------------------------------------------------------------
(* WHAT THE SENDER KNOWS *)

(* The sender knows of the delivery, D, when it has the last ACK or a      *)
(* response, when it is about to complete the send with success, and when  *)
(* it waits only for the QP to do so.                                      *)
SendTold(D) ==
    /\ wr.last_ack = N => D
    /\ todo = "ok" => D
    /\ todo = "none" /\ wr.on = "send" /\ wr.status = "ok" /\ wr.timeout = "zero" => D
    /\ wr.result = "ok" => D

(* The packets that tell it.                                               *)
Tells(m) == (m.type = "ACK" /\ m.seg = N) \/ m.type = "RESP"
NetTold(D) == \A m \in net : Tells(m) => D

(* A step of the sender sends at most a segment.                           *)
MoreData == \A m \in net' \ net : m.type = "DATA"

(* send_next_seg() sends a segment.                                        *)
LEMMA SendsData ==
    ASSUME NEW w, send_next_seg(w)
    PROVE  MoreData
  BY DEF send_next_seg, MoreData, Data

(* ib_mad_complete_send_wr() reports success only of a delivered message.  *)
LEMMA CompleteTold ==
    ASSUME NEW w \in WrType, NEW s \in Results \ {"none"},
           ib_mad_complete_send_wr(w, s), net \subseteq Packet,
           todo' = "none", w.on \in {"send", "done"}, w.result = "none",
           w.posted \in {0, 1},
           w.refcount = 1 + w.posted + Count(w.status = "ok" /\ w.timeout # "zero"),
           tms = "none" /\ w.last_ack = N /\ w.status = "ok" => w.timeout = "zero",
           NEW D \in BOOLEAN, w.last_ack = N => D,
           s = "ok" /\ w.status = "ok" /\ w.timeout = "zero" => D
    PROVE  SendTold(D)' /\ wr'.on # "none" /\ MoreData
<1> DEFINE running == s = "ok" /\ w.status = "ok" /\ w.timeout # "zero"
           more == /\ running /\ w.last_ack # N
                   /\ w.seg # w.newwin /\ w.seg # N
           v == IF running /\ w.last_ack = N
                THEN [w EXCEPT !.timeout = MsTime] ELSE w
<1>0. "error" \in Results \ {"none"}
  BY DEF Results
<1>1. CASE more /\ send_next_seg(w)
  <2>1. wr'.timeout # "zero"
    BY <1>1, SendNextSeg
  <2> QED BY <1>1, <2>1, SendNextSeg, SendsData DEF SendTold
<1>2. CASE more /\ wr' = PutSend(NextSeg(w), "error") /\ UNCHANGED net
  <2>1. NextSeg(w) \in WrType /\ NextSeg(w).timeout # "zero" /\ NextSeg(w).status = "ok"
        /\ NextSeg(w).last_ack = w.last_ack /\ NextSeg(w).on = w.on
        /\ NextSeg(w).result = "none"
    BY <1>2, NextSegType
  <2>2. wr'.on # "none" /\ wr'.result # "ok" /\ wr'.last_ack = w.last_ack
        /\ wr'.status = "error"
    BY <1>0, <1>2, <2>1, PutSendType
  <2> QED BY <1>2, <2>2 DEF SendTold, MoreData
<1>3. CASE ~more /\ wr' = PutSend(v, s) /\ UNCHANGED net
  <2>1. MsTime \in Times /\ (tms # "none" => MsTime # "zero")
    BY DEF MsTime, Times
  <2>2. /\ v \in WrType /\ v.on = w.on /\ v.posted = w.posted
        /\ v.refcount = w.refcount /\ v.status = w.status /\ v.result = w.result
        /\ v.last_ack = w.last_ack
        /\ (v.timeout = "zero" <=> w.timeout = "zero")
    BY <2>1, SetTimeout
  <2> HIDE DEF v
  <2> DEFINE st == IF s # "ok" /\ w.status = "ok" THEN s ELSE w.status
             n == w.posted + Count(st = "ok" /\ w.timeout # "zero")
  <2>3. v.refcount - 1 - (IF s # "ok" /\ v.status = "ok" THEN Held(v) ELSE 0) = n
    BY <2>2 DEF Held, Count
  <2>4. /\ wr'.posted = w.posted /\ wr'.last_ack = w.last_ack /\ wr'.status = st
        /\ \/ n <= 0 /\ wr'.on = "gone" /\ wr'.result = (IF st # "ok" THEN st ELSE s)
           \/ wr'.on = "wait" /\ wr'.result = "none"
           \/ wr'.on = w.on /\ wr'.timeout = v.timeout /\ wr'.result = "none"
    <3> HIDE DEF n
    <3> QED BY <1>3, <2>2, <2>3, PutSendType
  <2>5. st = "ok" => w.status = "ok" /\ s = "ok"
    OBVIOUS
  <2>6. n <= 0 => st # "ok" \/ w.timeout = "zero"
    BY DEF Count
  <2> HIDE DEF n, st
  <2> QED BY <1>3, <2>2, <2>4, <2>5, <2>6 DEF SendTold, MoreData
<1> QED BY <1>1, <1>2, <1>3 DEF ib_mad_complete_send_wr

(* A send completion tells of success only what was told before.           *)
LEMMA DoneTold ==
    ASSUME SendInv, SendDone \/ Complete, NEW D \in BOOLEAN, SendTold(D)
    PROVE  SendTold(D)' /\ wr'.on # "none" /\ MoreData /\ wr.on # "gone"
<1>1. CASE SendDone
  <2> DEFINE n == wr.posted - 1  w == [wr EXCEPT !.posted = n]
  <2>1. PICK s \in {"ok", "error"} : ib_mad_complete_send_wr(w, s)
    BY <1>1 DEF SendDone
  <2>2. /\ wr.on = "send" /\ n = 0 /\ wr.result = "none" /\ todo = "none"
        /\ wr.refcount = 1 + Count(wr.status = "ok" /\ wr.timeout # "zero")
    BY <1>1, WrFields DEF SendDone, SendInv, SendRefs, Count, WrType
  <2>3. /\ w \in WrType /\ w.posted = 0 /\ w.on = "send" /\ w.timeout = wr.timeout
        /\ w.refcount = wr.refcount /\ w.status = wr.status /\ w.result = "none"
        /\ w.last_ack = wr.last_ack
    <3>1. n \in Int
      BY <2>2
    <3> HIDE DEF n
    <3> QED BY <3>1, <2>2 DEF SendInv, WrType
  <2>4. /\ todo' = "none" /\ s \in Results \ {"none"} /\ net \subseteq Packet
        /\ tms = "none" /\ w.last_ack = N /\ w.status = "ok" => w.timeout = "zero"
        /\ w.last_ack = N => D
        /\ s = "ok" /\ w.status = "ok" /\ w.timeout = "zero" => D
    BY <1>1, <2>2, <2>3 DEF SendDone, SendInv, SendRefs, Results, SendTold
  <2> HIDE DEF w
  <2> QED BY <2>1, <2>2, <2>3, <2>4, CompleteTold DEF Count
<1>2. CASE Complete
  <2>1. /\ wr.on \in {"send", "done"} /\ wr.result = "none" /\ wr.posted \in {0, 1}
        /\ wr.timeout = "zero"
        /\ wr.refcount = 1 + wr.posted + Count(wr.status = "ok" /\ wr.timeout # "zero")
    BY <1>2, WrFields DEF Complete, SendInv, SendRefs, Count, WrType
  <2>2. /\ ib_mad_complete_send_wr(wr, todo) /\ todo' = "none"
        /\ todo \in Results \ {"none"} /\ net \subseteq Packet /\ wr \in WrType
        /\ wr.last_ack = N => D
        /\ todo = "ok" => D
    BY <1>2 DEF Complete, SendInv, SendTold
  <2> QED BY <2>1, <2>2, CompleteTold
<1> QED BY <1>1, <1>2

(* ib_mark_mad_done() and what it was called for.                          *)
LEMMA MarkTold ==
    ASSUME NEW w \in WrType, wr' = ib_mark_mad_done(w), todo' # "none",
           NEW D \in BOOLEAN, w.last_ack = N => D, todo' = "ok" => D,
           w.result # "ok", w.on # "none"
    PROVE  SendTold(D)' /\ wr'.on # "none"
  BY MarkDone DEF SendTold

(* An ACK of the last segment was sent by a receiver that has them all.    *)
LEMMA AckTold ==
    ASSUME SendInv, Found, todo = "none", NEW m \in net, m.type = "ACK", TakeAck(m),
           NEW D \in BOOLEAN, SendTold(D), NetTold(D)
    PROVE  SendTold(D)' /\ wr'.on # "none" /\ MoreData
<1> DEFINE left == IF m.seg > wr.last_ack THEN MaxRetries ELSE wr.retries_left
           w == [wr EXCEPT !.last_ack = m.seg, !.newwin = m.newwin,
                           !.retries_left = left]
<1>1. m.seg \in Nat /\ m.newwin \in Nat /\ left \in Int /\ (m.seg = N => D)
  BY WrFields, RmppAssumption DEF SendInv, Packet, NetTold, Tells
<1>2. \/ /\ w.last_ack = N /\ tms = "none"
         /\ wr' = ib_mark_mad_done(w) /\ todo' = "ok" /\ UNCHANGED net
      \/ /\ w.last_ack = N /\ tms # "none"
         /\ wr' = IF w.refcount = 1
                  THEN wait_for_response([w EXCEPT !.timeout = MsTime]) ELSE w
         /\ UNCHANGED <<net, todo>>
      \/ /\ w.last_ack # N /\ Ready(w) /\ UNCHANGED todo
         /\ send_next_seg([w EXCEPT !.on = "send", !.refcount = @ + 1])
      \/ /\ w.last_ack # N /\ Ready(w) /\ UNCHANGED todo
         /\ wr' = NextSeg(w) /\ UNCHANGED net
      \/ /\ w.last_ack # N /\ UNCHANGED todo
         /\ wr' = w /\ UNCHANGED net
  BY DEF TakeAck
<1> HIDE DEF left
<1>3. /\ w \in WrType /\ w.on = wr.on /\ w.posted = wr.posted /\ w.refcount = wr.refcount
      /\ w.status = wr.status /\ w.result = wr.result /\ w.timeout = wr.timeout
      /\ w.last_ack = m.seg
  BY <1>1 DEF SendInv, WrType
<1> HIDE DEF w
<1>4. /\ wr.on \in {"send", "wait"} /\ wr.timeout # "zero" /\ wr.result = "none"
      /\ net \subseteq Packet
  BY FoundRefs DEF SendInv
<1>5. CASE w.last_ack = N /\ wr' = ib_mark_mad_done(w) /\ todo' = "ok" /\ UNCHANGED net
  BY <1>1, <1>3, <1>4, <1>5, MarkTold DEF MoreData
<1>6. CASE /\ w.last_ack = N /\ tms # "none"
           /\ wr' = IF w.refcount = 1
                    THEN wait_for_response([w EXCEPT !.timeout = MsTime]) ELSE w
           /\ UNCHANGED <<net, todo>>
  <2>1. CASE w.refcount = 1
    <3> DEFINE v == [w EXCEPT !.timeout = MsTime]
    <3>1. v \in WrType /\ v.result = w.result
      <4>1. MsTime \in Times
        BY DEF MsTime, Times
      <4> QED BY <1>3, <4>1, SetTimeout
    <3>2. wr' = wait_for_response(v)
      BY <1>6, <2>1
    <3> HIDE DEF v
    <3>3. wr'.timeout = "jiffies" /\ wr'.on = "wait" /\ wr'.result = "none"
      BY <1>3, <1>4, <3>1, <3>2, WaitForResponse
    <3> QED BY <1>1, <1>3, <1>6, <3>3 DEF SendTold, MoreData
  <2>2. CASE w.refcount # 1
    BY <1>1, <1>3, <1>4, <1>6, <2>2 DEF SendTold, MoreData
  <2> QED BY <2>1, <2>2
<1>7. CASE /\ Ready(w) /\ UNCHANGED todo
           /\ send_next_seg([w EXCEPT !.on = "send", !.refcount = @ + 1])
  <2> DEFINE n == w.refcount + 1
             v == [w EXCEPT !.on = "send", !.refcount = n]
  <2>1. w.refcount = 1 /\ n = 2 /\ n \in Int /\ send_next_seg(v)
    BY <1>7 DEF Ready
  <2> HIDE DEF n
  <2>2. /\ v \in WrType /\ v.on = "send" /\ v.result = w.result
        /\ v.last_ack = w.last_ack /\ v.timeout = w.timeout
    BY <1>3, <2>1 DEF WrType
  <2> HIDE DEF v
  <2>3. /\ wr'.on = "send" /\ wr'.result = "none" /\ wr'.last_ack = w.last_ack
        /\ wr'.timeout # "zero"
    BY <1>3, <1>4, <2>1, <2>2, SendNextSeg
  <2> QED BY <1>1, <1>3, <1>7, <2>1, <2>3, SendsData DEF SendTold
<1>8. CASE UNCHANGED todo /\ wr' = NextSeg(w) /\ UNCHANGED net
  <2>1. /\ wr'.on = w.on /\ wr'.result = w.result /\ wr'.last_ack = w.last_ack
        /\ wr'.timeout # "zero"
    BY <1>3, <1>4, <1>8, NextSegType
  <2> QED BY <1>1, <1>3, <1>4, <1>8, <2>1 DEF SendTold, MoreData
<1>9. CASE UNCHANGED todo /\ wr' = w /\ UNCHANGED net
  BY <1>1, <1>3, <1>4, <1>9 DEF SendTold, MoreData
<1> QED BY <1>2, <1>5, <1>6, <1>7, <1>8, <1>9

(* A timeout never reports success by itself.                              *)
LEMMA TimeoutTold ==
    ASSUME SendInv, TimeoutSends, NEW D \in BOOLEAN, SendTold(D)
    PROVE  SendTold(D)' /\ wr'.on # "none" /\ MoreData
<1> DEFINE res == IF wr.status = "ok" THEN "timeout" ELSE wr.status
           over == [wr EXCEPT !.on = "gone", !.result = res]
           left == wr.retries_left - 1
           n == wr.refcount + 1
           again == [wr EXCEPT !.retries_left = left, !.timeout = MsTime,
                               !.seg = wr.last_ack, !.on = "send",
                               !.refcount = n]
<1>1. /\ todo = "none" /\ wr.result = "none" /\ UNCHANGED todo
      /\ left \in Int /\ n \in Int /\ res \in Results /\ res # "ok"
      /\ MsTime \in Times /\ (tms # "none" => MsTime # "zero") /\ wr.last_ack \in Nat
  BY WrFields DEF TimeoutSends, SendInv, SendRefs, Count, Results, MsTime, Times
<1>2. \/ wr' = over /\ UNCHANGED net
      \/ wr.status = "ok" /\ wr.last_ack # N /\ send_next_seg(again)
  BY DEF TimeoutSends
<1> HIDE DEF n, left, res
<1>3. CASE wr' = over /\ UNCHANGED net
  <2>1. wr'.on = "gone" /\ wr'.result = res /\ wr'.last_ack = wr.last_ack
    BY <1>1, <1>3 DEF SendInv, WrType
  <2> QED BY <1>1, <1>3, <2>1 DEF SendTold, MoreData
<1>4. CASE wr.last_ack # N /\ send_next_seg(again)
  <2>1. /\ again \in WrType /\ again.on = "send" /\ again.result = "none"
        /\ again.timeout = MsTime /\ again.last_ack = wr.last_ack
    BY <1>1 DEF SendInv, WrType
  <2> HIDE DEF again
  <2>2. /\ wr'.on = "send" /\ wr'.result = "none" /\ wr'.last_ack = wr.last_ack
        /\ wr'.timeout # "zero"
    BY <1>1, <1>4, <2>1, SendNextSeg DEF SendInv
  <2> QED BY <1>1, <1>4, <2>2, SendsData DEF SendTold
<1> QED BY <1>2, <1>3, <1>4

(* Neither does a cancellation.                                            *)
LEMMA CancelTold ==
    ASSUME SendInv, CancelMad, NEW D \in BOOLEAN, SendTold(D)
    PROVE  SendTold(D)' /\ wr'.on # "none" /\ MoreData
<1> DEFINE n == wr.refcount - Held(wr)
           w == [wr EXCEPT !.status = "flush", !.refcount = n, !.timeout = "zero"]
<1>1. /\ n \in Int /\ wr.on \in {"send", "wait"} /\ UNCHANGED <<todo, net>>
  BY WrFields DEF CancelMad, SendInv, Held
<1>2. wr' = w \/ wr' = wait_for_response(w)
  BY DEF CancelMad
<1> HIDE DEF n
<1>3. /\ w \in WrType /\ w.on = wr.on /\ w.status = "flush" /\ w.result = wr.result
      /\ w.last_ack = wr.last_ack
  BY <1>1 DEF SendInv, WrType, Times, Results
<1> HIDE DEF w
<1>4. /\ wr'.on \in {"send", "wait"} /\ wr'.status = "flush"
      /\ wr'.result = wr.result /\ wr'.last_ack = wr.last_ack
  BY <1>1, <1>2, <1>3, WaitForResponse
<1> QED BY <1>1, <1>4 DEF SendTold, MoreData

(* A post tells the client of nothing but its own failure.                 *)
LEMMA PostTold ==
    ASSUME SendInv, Post, NEW D \in BOOLEAN
    PROVE  SendTold(D)' /\ wr'.on # "none" /\ MoreData
           /\ wr'.result \in {"none", "error"}
<1> DEFINE one == 1  two == 2
           w == [wr EXCEPT !.on = "send", !.timeout = MsTime, !.newwin = one,
                           !.refcount = two]
<1>0. MsTime \in Times /\ (tms # "none" => MsTime # "zero") /\ one \in Nat /\ two \in Int
  BY DEF MsTime, Times
<1>3. send_next_seg(w) \/ (wr' = [NextSeg(w) EXCEPT !.on = "gone", !.result = "error"]
                           /\ UNCHANGED net)
  BY DEF Post
<1> HIDE DEF one, two
<1>1. /\ w \in WrType /\ w.on = "send" /\ w.timeout = MsTime
      /\ w.result = wr.result /\ w.last_ack = wr.last_ack
  BY <1>0 DEF SendInv, WrType
<1>2. wr.result = "none" /\ wr.last_ack = 0 /\ todo = "none" /\ todo' = todo /\ N # 0
  BY RmppAssumption DEF SendInv, SendRefs, Post
<1> HIDE DEF w
<1>4. CASE send_next_seg(w)
  <2>1. /\ wr'.on = "send" /\ wr'.result = "none" /\ wr'.last_ack = 0
        /\ wr'.timeout # "zero"
    BY <1>0, <1>1, <1>2, <1>4, SendNextSeg DEF SendInv
  <2> QED BY <1>2, <1>4, <2>1, SendsData DEF SendTold
<1>5. CASE wr' = [NextSeg(w) EXCEPT !.on = "gone", !.result = "error"] /\ UNCHANGED net
  <2> DEFINE v == NextSeg(w)
  <2>1. v \in WrType /\ v.last_ack = 0
    BY <1>1, <1>2, NextSegType
  <2> HIDE DEF v
  <2>2. wr'.on = "gone" /\ wr'.result = "error" /\ wr'.last_ack = 0
    BY <1>5, <2>1 DEF WrType, v
  <2> QED BY <1>2, <1>5, <2>2 DEF SendTold, MoreData
<1> QED BY <1>3, <1>4, <1>5

(* What a step of the sender may do: a send that has ended is left alone,  *)
(* a post is the first step, and success is known of only after delivery.  *)
LEMMA SenderTold ==
    ASSUME SendInv, SenderStep, NEW D \in BOOLEAN, SendTold(D), NetTold(D),
           wr.on = "none" => net = {}
    PROVE  /\ SendTold(D)' /\ wr'.on # "none" /\ MoreData
           /\ wr.on = "gone" => UNCHANGED <<wr, todo, net>>
           /\ wr.on = "none" => wr'.result \in {"none", "error"}
<1>0. /\ wr \in WrType /\ (wr.on \in {"none", "gone"} => wr.posted = 0 /\ todo = "none")
      /\ (wr.on = "gone" <=> wr.result # "none")
  BY DEF SendInv, SendRefs
<1>1. CASE Post
  BY <1>1, PostTold DEF Post
<1>2. CASE SendDone \/ Complete
  <2>1. wr.on # "none"
    BY <1>0, <1>2 DEF SendDone, Complete
  <2> QED BY <1>2, <2>1, DoneTold
<1>3. CASE TimeoutSends
  BY <1>3, TimeoutTold DEF TimeoutSends
<1>4. CASE CancelMad
  BY <1>4, CancelTold DEF CancelMad
<1>5. ASSUME abort_send, todo = "none", net # {}, UNCHANGED net
      PROVE  /\ SendTold(D)' /\ wr'.on # "none" /\ MoreData
             /\ wr.on = "gone" => UNCHANGED <<wr, todo, net>>
             /\ wr.on # "none"
  <2>1. CASE Found /\ wr.last_ack # N
    <3>1. wr' = ib_mark_mad_done(wr) /\ todo' = "abort" /\ wr.on \in {"wait", "send"}
      BY <1>5, <2>1 DEF abort_send, Found
    <3> QED BY <1>0, <1>5, <3>1, <2>1, MarkTold DEF MoreData, SendTold
  <2>2. CASE ~(Found /\ wr.last_ack # N)
    BY <1>5, <2>2 DEF abort_send, SendTold, MoreData
  <2> QED BY <2>1, <2>2
<1>6. CASE RecvAbort
  BY <1>5, <1>6 DEF RecvAbort
<1>7. CASE RecvResponse
  <2>1. /\ wr' = ib_mark_mad_done(wr) /\ todo' = "ok" /\ UNCHANGED net
        /\ wr.on \in {"wait", "send"} /\ Response \in net
    BY <1>7 DEF RecvResponse, Found
  <2>2. D
    BY <2>1 DEF NetTold, Tells, Response
  <2> QED BY <1>0, <2>1, <2>2, MarkTold DEF MoreData, SendTold
<1>8. ASSUME NEW m \in net, RecvAck(m)
      PROVE  /\ SendTold(D)' /\ wr'.on # "none" /\ MoreData
             /\ wr.on = "gone" => UNCHANGED <<wr, todo, net>>
             /\ wr.on # "none"
  <2>1. wr.on \in {"wait", "send"} /\ todo = "none" /\ m.type = "ACK" /\ Found
    BY <1>8 DEF RecvAck, Found
  <2>2. CASE abort_send /\ UNCHANGED net
    BY <1>5, <1>8, <2>1, <2>2
  <2>3. CASE TakeAck(m)
    BY <1>8, <2>1, <2>3, AckTold
  <2> QED BY <1>8, <2>2, <2>3 DEF RecvAck
<1> QED BY <1>1, <1>2, <1>3, <1>4, <1>6, <1>7, <1>8 DEF SenderStep

-----------------------------------------------------------------------------
(* WHAT THE RECEIVER HANDS OVER *)

Delivered == \E r \in Recs : rec[r].given

(* A record is in order; it is complete with all the segments, and active  *)
(* only with fewer; what was handed over is the message.                   *)
Listing(x) ==
    /\ InOrder(x)
    /\ x.given => x.segs = [i \in 1..N |-> i]
    /\ x.state = "COMPLETE" => x.seg_num = N
    /\ x.state = "ACTIVE" => x.seg_num # N

(* continue_rmpp() hands over a list that was complete when it unlocked,   *)
(* also when it has timed out since.                                       *)
Last == cq.at = "finish" => rec[cq.r].seg_num = N

Unsent == wr.on = "none" => net = {} /\ \A r \in Recs : rec[r].state = "none"

TransferInv ==
    /\ Types /\ SendInv /\ RecvInv
    /\ Unsent /\ Last /\ SendTold(Delivered) /\ NetTold(Delivered)
    /\ \A r \in Recs : Listing(rec[r])

(* Nothing is listed, handed over or begun by a step.                      *)
Kept(x, y) ==
    /\ y.given = x.given
    /\ \/ /\ y.segs = x.segs /\ y.seg_num = x.seg_num
          /\ y.state = x.state \/ y.state = "TIMEOUT"
       \/ /\ y.segs = (IF x.given THEN x.segs ELSE <<>>) /\ y.seg_num = 0
          /\ y.state = "freed"
    /\ x.state = "none" => y.state = "none"
    /\ y.listed => x.listed
Quiet == \A r \in Recs : Kept(rec[r], rec'[r])

(* One record changed.                                                     *)
LEMMA OneKept ==
    ASSUME Types, NEW r, NEW y, Changes(r, y), Kept(rec[r], y)
    PROVE  Quiet
<1>1. rec'[r] = y /\ \A q \in Recs : q # r => rec'[q] = rec[q]
  BY ChangesRec DEF Types
<1>2. \A q \in Recs : rec[q] = rec'[q] => Kept(rec[q], rec'[q])
  BY DEF Kept
<1> QED BY <1>1, <1>2 DEF Quiet

(* Only three steps list a segment or hand the list over.                  *)
LEMMA QuietSteps ==
    ASSUME Types, RecvInv, [Next]_vars
    PROVE  StartRmpp \/ CqBody \/ CqFinish \/ Quiet
<1>0. CASE UNCHANGED rec
  BY <1>0 DEF Quiet, Kept
<1>1. CASE SenderStep
  <2>1. UNCHANGED rec
    BY <1>1 DEF SenderStep, Post, SendDone, Complete, RecvAbort, RecvResponse,
                RecvAck, TimeoutSends, CancelMad
  <2> QED BY <1>0, <2>1
<1>2. ASSUME NEW r \in Recs, NEW s \in 1..N, Acquire(r, s) PROVE Quiet
  BY <1>2, AcquireEffect, OneKept DEF Kept, SameData, SameMarks
<1>3. CASE CqCheck
  <2>1. CASE UNCHANGED rec
    BY <1>0, <2>1
  <2>2. CASE \E y : /\ Changes(cq.r, y) /\ y.state = rec[cq.r].state
                    /\ SameMarks(rec[cq.r], y) /\ y.seg_num = rec[cq.r].seg_num
                    /\ y.segs = rec[cq.r].segs
    BY <2>2, OneKept DEF Kept, SameMarks
  <2> QED BY <1>3, <2>1, <2>2, CheckEffect
<1>4. ASSUME NEW r \in Recs, RecvTimeout(r) PROVE Quiet
  <2>1. PICK y : /\ Changes(r, y) /\ SameData(rec[r], y)
                 /\ y.given = rec[r].given
                 /\ y.state = rec[r].state /\ y.listed = rec[r].listed
    BY <1>4, TimeoutEffect
  <2> QED BY <2>1, OneKept DEF Kept, SameData
<1>a. CASE RecvExpire
  <2>0. rec[wq.r].state # "none"
    <3>1. rec[wq.r].listed /\ wq.r \in Recs
      BY <1>a DEF RecvExpire, RecvInv, WqPlace, Types
    <3> QED BY <3>1 DEF RecvInv, Shape, Marks
  <2>1. PICK y : /\ Changes(wq.r, y) /\ SameData(rec[wq.r], y)
                 /\ y.given = rec[wq.r].given
                 /\ y.state = "TIMEOUT" /\ y.listed = FALSE
    BY <1>a, ExpireEffect
  <2> QED BY <2>0, <2>1, OneKept DEF Kept, SameData
<1>5. ASSUME NEW r \in Recs, RecvCleanup(r) PROVE Quiet
  <2>1. PICK y : /\ Changes(r, y) /\ y.state = rec[r].state /\ SameData(rec[r], y)
                 /\ y.given = rec[r].given /\ y.listed = FALSE
    BY <1>5, CleanupEffect
  <2> QED BY <2>1, OneKept DEF Kept, SameData
<1>b. ASSUME NEW r \in Recs, CleanupFreed(r) PROVE Quiet
  <2>1. PICK y : /\ Changes(r, y) /\ y.state = rec[r].state /\ SameData(rec[r], y)
                 /\ y.given = rec[r].given /\ y.listed = rec[r].listed
    BY <1>b, CleanupFreedEffect
  <2> QED BY <2>1, OneKept DEF Kept, SameData
<1>6. CASE RecvNack \/ RecvDestroy \/ CleanupDestroy
  <2>1. rec[wq.r].state # "none"
    BY <1>6 DEF RecvNack, RecvDestroy, CleanupDestroy, RecvInv, WqPlace
  <2>2. PICK y : /\ Changes(wq.r, y)
                 /\ y.listed = rec[wq.r].listed /\ y.given = rec[wq.r].given
                 /\ \/ y.state = rec[wq.r].state /\ SameData(rec[wq.r], y)
                    \/ /\ y.state = "freed" /\ y.seg_num = 0
                       /\ y.segs = (IF rec[wq.r].given THEN rec[wq.r].segs ELSE <<>>)
    <3>1. CASE RecvNack
      BY <3>1, WorkEffect, Zenon DEF SameMarks
    <3>2. CASE RecvDestroy
      BY <3>2, WorkEffect, Zenon
    <3>3. CASE CleanupDestroy
      <4>1. PICK y : /\ Changes(wq.r, y) /\ y.state = "freed" /\ y.seg_num = 0
                     /\ y.segs = (IF rec[wq.r].given THEN rec[wq.r].segs ELSE <<>>)
                     /\ SameMarks(rec[wq.r], y)
        BY <3>3, WorkEffect
      <4> QED BY <4>1, Zenon DEF SameMarks
    <3> QED BY <1>6, <3>1, <3>2, <3>3
  <2> QED BY <2>1, <2>2, OneKept DEF Kept, SameData
<1>7. CASE ib_cancel_rmpp_recvs
  <2>1. /\ \A r \in Recs : ~rec[r].listed => rec'[r] = rec[r]
        /\ \A r \in Recs : rec[r].listed =>
                 /\ rec'[r].state = rec[r].state
                 /\ SameData(rec[r], rec'[r]) /\ rec'[r].given = rec[r].given
                 /\ rec'[r].listed = rec[r].listed
    BY <1>7, CancelEffect
  <2> QED BY <2>1 DEF Quiet, Kept, SameData
<1>8. CASE UnregFree
  <2>1. /\ \A r \in Recs : ~rec[r].listed => rec'[r] = rec[r]
        /\ \A r \in Recs : rec[r].listed =>
                 /\ rec'[r].state = "freed" /\ rec'[r].seg_num = 0
                 /\ rec'[r].segs = (IF rec[r].given THEN rec[r].segs ELSE <<>>)
                 /\ rec'[r].given = rec[r].given /\ rec'[r].listed = FALSE
    BY <1>8, FreeEffect
  <2>2. \A r \in Recs : rec[r].listed => rec[r].state # "none"
    BY DEF RecvInv, Shape, Marks
  <2> QED BY <2>1, <2>2 DEF Quiet, Kept
<1>9. CASE Respond \/ UnregStart \/ UNCHANGED vars
  BY <1>0, <1>9 DEF Respond, UnregStart, vars
<1> QED BY <1>1, <1>2, <1>3, <1>4, <1>5, <1>6, <1>7, <1>8, <1>9, <1>a, <1>b
        DEF Next, ReceiverCq, ReceiverWq

(* start_rmpp(): nothing that was handed over is remembered.               *)
LEMMA StartNew ==
    ASSUME TransferInv, StartRmpp
    PROVE  /\ wr.on # "none" /\ UNCHANGED <<wr, todo>>
           /\ \A q \in Recs : ~rec[q].listed
           /\ \E r \in Recs :
                 /\ \A q \in Recs : q # r => rec'[q] = rec[q]
                 /\ rec[r].state = "none" /\ ~rec[r].given
                 /\ Listing(rec'[r]) /\ rec'[r] \in RecType
                 /\ rec'[r].given = (N = 1)
                 /\ net' = net \cup {Ack(1, rec'[r].newwin)}
<1>1. PICK r \in Unused : \E y :
              /\ Changes(r, y) /\ net' = net \cup {Ack(1, y.newwin)}
              /\ y.state = (IF N = 1 THEN "COMPLETE" ELSE "ACTIVE")
              /\ y.seg_num = 1 /\ y.segs = <<1>> /\ y.given = (N = 1)
  BY StartEffect DEF TransferInv
<1>2. PICK y :
              /\ Changes(r, y) /\ net' = net \cup {Ack(1, y.newwin)}
              /\ y.state = (IF N = 1 THEN "COMPLETE" ELSE "ACTIVE")
              /\ y.seg_num = 1 /\ y.segs = <<1>> /\ y.given = (N = 1)
  BY <1>1
<1>3. /\ r \in Recs /\ rec'[r] = y /\ y \in RecType
      /\ \A q \in Recs : q # r => rec'[q] = rec[q]
  BY <1>2, ChangesRec DEF TransferInv, Types
<1>4. Listing(y)
  <2>1. Len(y.segs) = 1 /\ y.segs[1] = 1
    BY <1>2
  <2>2. InOrder(y)
    BY <1>2, <2>1 DEF InOrder
  <2>3. y.given => y.segs = [i \in 1..N |-> i]
    BY <1>2, <1>3, <2>2, Whole
  <2> QED BY <1>2, <2>2, <2>3 DEF Listing
<1>5. wr.on # "none" /\ \A q \in Recs : ~rec[q].listed
  BY DEF StartRmpp, Listed, TransferInv, Unsent
<1>6. rec[r].state = "none" /\ ~rec[r].given
  BY <1>3 DEF Unused, TransferInv, RecvInv, Shape, Marks
<1> QED BY <1>2, <1>3, <1>4, <1>5, <1>6 DEF StartRmpp

(* complete_rmpp() of a list that was not handed over before.              *)
LEMMA FinishNew ==
    ASSUME TransferInv, CqFinish
    PROVE  /\ wr.on # "none" /\ UNCHANGED <<wr, todo>> /\ cq'.at = "idle"
           /\ \A q \in Recs : rec[q].listed => ~rec[q].given
           /\ \E r \in Recs :
                 /\ \A q \in Recs : q # r => rec'[q] = rec[q]
                 /\ rec[r].state # "none" /\ ~rec[r].given
                 /\ Listing(rec'[r]) /\ rec'[r] \in RecType
                 /\ rec'[r].given = TRUE
                 /\ net' = net \cup {AckOf(rec[r])}
<1>0. PICK r \in Recs : r = cq.r
  BY DEF TransferInv, Types, CqFinish
<1>1. PICK y : /\ Changes(r, y) /\ y.state = rec[r].state /\ y.seg_num = rec[r].seg_num
               /\ y.segs = rec[r].segs
               /\ y.given = TRUE /\ net' = net \cup {AckOf(rec[r])}
  BY <1>0, FinishEffect DEF TransferInv
<1>2. /\ rec'[r] = y /\ y \in RecType /\ \A q \in Recs : q # r => rec'[q] = rec[q]
  BY <1>1, ChangesRec DEF TransferInv, Types
<1>3. /\ rec[r].state \in {"COMPLETE", "TIMEOUT"} /\ ~rec[r].given /\ cq.at = "finish"
      /\ rec[r].seg_num = N
  BY <1>0 DEF CqFinish, TransferInv, RecvInv, CqPlace, Last
<1>4. Listing(y)
  <2>1. InOrder(y)
    BY <1>1 DEF TransferInv, Listing, InOrder
  <2>2. y.segs = [i \in 1..N |-> i]
    BY <1>1, <1>2, <1>3, <2>1, Whole
  <2> QED BY <1>1, <1>3, <2>1, <2>2 DEF Listing
<1>5. \A q \in Recs : rec[q].listed => ~rec[q].given
  BY <1>0, <1>3 DEF TransferInv, RecvInv, OneListed
<1>6. wr.on # "none"
  BY <1>3 DEF TransferInv, Unsent
<1>7. UNCHANGED <<wr, todo>> /\ cq'.at = "idle"
  BY DEF CqFinish, Return
<1> QED BY <1>1, <1>2, <1>3, <1>4, <1>5, <1>6, <1>7

(* The body of continue_rmpp() hands nothing over.                         *)
LEMMA BodyNew ==
    ASSUME TransferInv, CqBody
    PROVE  /\ wr.on # "none" /\ UNCHANGED <<wr, todo>> /\ Last'
           /\ \E r \in Recs :
                 /\ \A q \in Recs : q # r => rec'[q] = rec[q]
                 /\ Listing(rec'[r])
                 /\ rec'[r].given = FALSE /\ rec[r].given = FALSE
                 /\ UNCHANGED net \/ \E w : net' = net \cup {Ack(rec'[r].seg_num, w)}
                                         /\ rec'[r].seg_num # N
<1>0. PICK r \in Recs : r = cq.r
  BY DEF TransferInv, Types, CqBody
<1> DEFINE x == rec[r]
           k == Before(x, cq.seg)
           l == Insert(x, cq.seg)
           u == update_seg_num(l, k)
<1>1. PICK y :
          /\ Changes(r, y) /\ SameOwners(x, y)
          /\ y.segs = u.segs /\ y.seg_num = u.seg_num
          /\ \/ /\ u.seg_num = N /\ y.state = "COMPLETE" /\ UNCHANGED net
                /\ cq' = [cq EXCEPT !.at = "finish"]
             \/ /\ ~(k = Cur(x) /\ u.seg_num = N) /\ y.state = x.state /\ Return
                /\ \/ UNCHANGED net
                   \/ u.seg_num # N /\ net' = net \cup {AckOf(y)}
  BY <1>0, BodyEffect DEF TransferInv
<1>2. /\ rec'[r] = y /\ \A q \in Recs : q # r => rec'[q] = rec[q]
  BY <1>1, ChangesRec DEF TransferInv, Types
<1>3. /\ x.state \in {"ACTIVE", "TIMEOUT"} /\ x.given \in BOOLEAN /\ ~x.given
      /\ ~Duplicate(x, cq.seg) /\ cq.seg \in 1..N /\ x \in RecType /\ Listing(x)
  <2>1. x \in RecType /\ cq.seg \in 1..N /\ Listing(x)
    BY <1>0 DEF TransferInv, Types, CqBody
  <2>2. x.state \in {"ACTIVE", "TIMEOUT"} /\ ~Duplicate(x, cq.seg) /\ ~x.given
    BY <1>0 DEF CqBody, TransferInv, RecvInv, CqPlace
  <2> QED BY <2>1, <2>2, RecFields
<1>4. InOrder(u) /\ (k # Cur(x) => u.seg_num = x.seg_num)
  <2> HIDE DEF x
  <2>1. InOrder(x)
    BY <1>3 DEF Listing
  <2> QED BY <1>3, <2>1, BodyInOrder
<1> HIDE DEF u, l, k
<1>5. y.given = FALSE
  BY <1>1, <1>3 DEF SameOwners
<1>6. Listing(y)
  <2>1. InOrder(y)
    BY <1>1, <1>4 DEF InOrder
  <2>2. y.state = "ACTIVE" => y.seg_num # N
    BY <1>1, <1>3, <1>4 DEF Listing
  <2>3. y.state = "COMPLETE" => y.seg_num = N
    BY <1>1, <1>3
  <2> QED BY <1>5, <2>1, <2>2, <2>3 DEF Listing
<1>7. UNCHANGED net \/ \E w : net' = net \cup {Ack(y.seg_num, w)} /\ y.seg_num # N
  BY <1>1 DEF AckOf
<1>8. wr.on # "none"
  BY <1>3 DEF TransferInv, Unsent
<1>9. Last'
  <2>1. CASE Return
    BY <2>1 DEF Return, Last
  <2>2. CASE u.seg_num = N /\ cq' = [cq EXCEPT !.at = "finish"]
    <3>1. cq'.r = r
      BY <1>0, <2>2 DEF TransferInv, Types
    <3> QED BY <1>1, <1>2, <2>2, <3>1 DEF Last
  <2> QED BY <1>1, <2>1, <2>2
<1>10. x.given = FALSE
  BY <1>3
<1> QED BY <1>2, <1>5, <1>6, <1>7, <1>8, <1>9, <1>10 DEF CqBody

(* What the receiver's other steps send.                                   *)
LEMMA QuietNet ==
    ASSUME TransferInv, [Next]_vars, ~SenderStep, ~StartRmpp, ~CqBody, ~CqFinish
    PROVE  /\ UNCHANGED <<wr, todo>>
           /\ \A m \in net' \ net : Tells(m) => Delivered
           /\ wr.on = "none" => net' \subseteq net
           /\ cq'.at = "finish" => cq' = cq
<1> USE DEF TransferInv
<1>0. ASSUME UNCHANGED <<wr, todo, net>>, cq'.at = "finish" => cq' = cq
      PROVE  /\ UNCHANGED <<wr, todo>>
             /\ \A m \in net' \ net : Tells(m) => Delivered
             /\ wr.on = "none" => net' \subseteq net
             /\ cq'.at = "finish" => cq' = cq
  BY <1>0
<1>1. ASSUME NEW r \in Recs, NEW s \in 1..N, Acquire(r, s)
      PROVE  UNCHANGED <<wr, todo, net>> /\ cq'.at = "check"
  BY <1>1 DEF Acquire
<1>2. CASE CqCheck
  <2>0. PICK r \in Recs : r = cq.r
    BY <1>2 DEF CqCheck, Types
  <2>1. UNCHANGED <<wr, todo>> /\ wr.on # "none" /\ cq.at = "check"
    <3>1. Live(rec[r])
      BY <1>2, <2>0 DEF CqCheck, RecvInv, CqPlace
    <3> QED BY <1>2, <3>1 DEF CqCheck, Unsent, Live
  <2>c. cq'.at # "finish"
    <3>1. Return \/ cq' = [cq EXCEPT !.at = "body"]
      BY <1>2 DEF CqCheck
    <3> QED BY <3>1 DEF Return, Types
  <2>2. CASE UNCHANGED net
    BY <1>0, <2>1, <2>2, <2>c
  <2>3. CASE net' = net \cup {AckOf(rec[r])} /\ rec[r].state # "TIMEOUT"
    <3>1. AckOf(rec[r]).type = "ACK" /\ AckOf(rec[r]).seg = rec[r].seg_num
      BY DEF AckOf, Ack
    <3>2. rec[r].seg_num = N => Delivered
      <4>1. rec[r].state \in {"ACTIVE", "COMPLETE"}
        BY <2>0, <2>1, <2>3 DEF RecvInv, CqPlace, Live
      <4>2. rec[r].state = "COMPLETE" => rec[r].given
        BY <2>1 DEF RecvInv, Shape, Marks
      <4> QED BY <4>1, <4>2 DEF Listing, Delivered
    <3>3. \A m \in net' \ net : Tells(m) => Delivered
      BY <2>3, <3>1, <3>2 DEF Tells
    <3> QED BY <2>1, <2>c, <3>3
  <2> QED BY <1>2, <2>0, <2>2, <2>3, CheckEffect
<1>3. ASSUME NEW r \in Recs, RecvTimeout(r) \/ RecvCleanup(r) \/ CleanupFreed(r)
      PROVE  UNCHANGED <<wr, todo, net, cq>>
  BY <1>3 DEF RecvTimeout, RecvCleanup, CleanupFreed
<1>4. CASE RecvExpire
  BY <1>0, <1>4 DEF RecvExpire
<1>5. CASE RecvNack \/ RecvDestroy \/ CleanupDestroy
  <2>1. UNCHANGED <<wr, todo, cq>> /\ (UNCHANGED net \/ net' = net \cup {Abort})
        /\ wr.on # "none"
    <3>1. wq.r \in Recs /\ rec[wq.r].state # "none"
      BY <1>5 DEF RecvNack, RecvDestroy, CleanupDestroy, RecvInv, WqPlace, Types
    <3> QED BY <1>5, <3>1 DEF RecvNack, RecvDestroy, CleanupDestroy, Unsent
  <2>2. \A m \in net' \ net : m.type = "ABORT"
    BY <2>1 DEF Abort
  <2> QED BY <2>1, <2>2 DEF Tells
<1>6. CASE Respond
  <2>1. Delivered /\ UNCHANGED <<wr, todo, cq>> /\ net' = net \cup {Response}
    BY <1>6 DEF Respond, Delivered
  <2>2. wr.on # "none"
    BY <2>1 DEF Delivered, Unsent, RecvInv, Shape, Marks
  <2> QED BY <2>1, <2>2
<1>7. CASE UnregStart \/ ib_cancel_rmpp_recvs \/ UnregFree
  BY <1>0, <1>7 DEF UnregStart, ib_cancel_rmpp_recvs, UnregFree
<1>9. CASE UNCHANGED vars
  BY <1>0, <1>9 DEF vars
<1>10. CASE ReceiverWq
  BY <1>0, <1>3, <1>4, <1>5, <1>10 DEF ReceiverWq
<1>11. CASE ReceiverCq
  BY <1>0, <1>1, <1>2, <1>11 DEF ReceiverCq
<1> QED BY <1>6, <1>7, <1>9, <1>10, <1>11 DEF Next

(* The records of a step that lists nothing.                               *)
LEMMA QuietListing ==
    ASSUME Quiet, rec \in [Recs -> RecType], \A r \in Recs : Listing(rec[r])
    PROVE  (\A r \in Recs : Listing(rec'[r])) /\ (Delivered' <=> Delivered)
           /\ \A r \in Recs : rec[r].state = "none" => rec'[r].state = "none"
<1>1. ASSUME NEW r \in Recs PROVE Listing(rec'[r])
  <2> DEFINE x == rec[r]  y == rec'[r]
  <2> SUFFICES Listing(y)
    OBVIOUS
  <2>1. Kept(x, y) /\ Listing(x) /\ Len(x.segs) \in Nat
    BY RecFields DEF Quiet
  <2> HIDE DEF x, y
  <2>2. CASE /\ y.segs = x.segs /\ y.seg_num = x.seg_num
             /\ y.state = x.state \/ y.state = "TIMEOUT"
    BY <2>1, <2>2 DEF Kept, Listing, InOrder
  <2>3. CASE /\ y.segs = (IF x.given THEN x.segs ELSE <<>>) /\ y.seg_num = 0
             /\ y.state = "freed"
    <3>1. CASE x.given
      BY <2>1, <2>3, <3>1 DEF Kept, Listing, InOrder
    <3>2. CASE ~x.given
      <4>1. y.segs = <<>> /\ Len(y.segs) = 0 /\ ~y.given
        BY <2>1, <2>3, <3>2 DEF Kept
      <4> QED BY <2>3, <4>1 DEF Listing, InOrder
    <3> QED BY <3>1, <3>2
  <2> QED BY <2>1, <2>2, <2>3 DEF Kept
<1>2. Delivered' <=> Delivered
  BY DEF Delivered, Quiet, Kept
<1>3. \A r \in Recs : rec[r].state = "none" => rec'[r].state = "none"
  BY DEF Quiet, Kept
<1> QED BY <1>1, <1>2, <1>3

(* Every step keeps what the two sides know of the transfer.               *)
LEMMA TransferStep ==
    ASSUME TransferInv, [Next]_vars
    PROVE  TransferInv'
<1>0. Types' /\ SendInv' /\ RecvInv'
  BY TypesStep, RecvInvStep DEF TransferInv
<1>d. PICK D \in BOOLEAN : D <=> Delivered
  BY DEF Delivered
<1>t. SendTold(D) /\ NetTold(D)
  BY <1>d DEF TransferInv, SendTold, NetTold
<1>1. CASE SenderStep
  <2>1. UNCHANGED receiver
    BY <1>1 DEF SenderStep, Post, SendDone, Complete, RecvAbort, RecvResponse,
                RecvAck, TimeoutSends, CancelMad
  <2>2. /\ SendTold(D)' /\ wr'.on # "none" /\ MoreData
    BY <1>1, <1>t, SenderTold DEF TransferInv, Unsent
  <2>3. Delivered' <=> D
    BY <1>d, <2>1 DEF Delivered
  <2>4. SendTold(Delivered)'
    BY <2>2, <2>3 DEF SendTold
  <2>5. NetTold(Delivered)'
    BY <1>t, <2>2, <2>3 DEF NetTold, MoreData, Tells
  <2>6. Last' /\ Unsent'
    BY <2>1, <2>2 DEF TransferInv, Last, Unsent
  <2>7. \A r \in Recs : Listing(rec'[r])
    BY <2>1 DEF TransferInv
  <2> QED BY <1>0, <2>4, <2>5, <2>6, <2>7 DEF TransferInv
<1>2. CASE StartRmpp
  <2>1. wr.on # "none" /\ UNCHANGED <<wr, todo>>
    BY <1>2, StartNew
  <2>2. PICK r \in Recs :
          /\ \A q \in Recs : q # r => rec'[q] = rec[q]
          /\ Listing(rec'[r]) /\ rec'[r].given = (N = 1) /\ ~rec[r].given
          /\ net' = net \cup {Ack(1, rec'[r].newwin)}
    BY <1>2, StartNew
  <2>4. Delivered' <=> Delivered \/ N = 1
    BY <2>2 DEF Delivered
  <2>5. SendTold(Delivered)'
    BY <2>1, <2>4 DEF TransferInv, SendTold
  <2>6. NetTold(Delivered)'
    <3>1. ASSUME NEW m \in net', Tells(m) PROVE Delivered \/ N = 1
      <4>1. CASE m \in net
        BY <3>1, <4>1 DEF TransferInv, NetTold
      <4>2. CASE m = Ack(1, rec'[r].newwin)
        BY <3>1, <4>2 DEF Tells, Ack
      <4> QED BY <2>2, <3>1, <4>1, <4>2
    <3> QED BY <2>4, <3>1 DEF NetTold, Tells
  <2>7. Last' /\ Unsent'
    BY <1>2, <2>1 DEF StartRmpp, Last, Unsent
  <2>8. \A q \in Recs : Listing(rec'[q])
    BY <2>2 DEF TransferInv
  <2> QED BY <1>0, <2>5, <2>6, <2>7, <2>8 DEF TransferInv
<1>3. CASE CqFinish
  <2>1. wr.on # "none" /\ UNCHANGED <<wr, todo>> /\ cq'.at = "idle"
    BY <1>3, FinishNew
  <2>2. PICK r \in Recs :
          /\ \A q \in Recs : q # r => rec'[q] = rec[q]
          /\ Listing(rec'[r]) /\ rec'[r].given = TRUE
    BY <1>3, FinishNew
  <2>3. Delivered'
    BY <2>2 DEF Delivered
  <2>4. SendTold(Delivered)' /\ NetTold(Delivered)'
    BY <2>3 DEF SendTold, NetTold
  <2>6. Last' /\ Unsent'
    BY <2>1 DEF Last, Unsent
  <2>7. \A q \in Recs : Listing(rec'[q])
    BY <2>2 DEF TransferInv
  <2> QED BY <1>0, <2>4, <2>6, <2>7 DEF TransferInv
<1>4. CASE CqBody
  <2>1. wr.on # "none" /\ UNCHANGED <<wr, todo>> /\ Last'
    BY <1>4, BodyNew
  <2>2. PICK r \in Recs :
          /\ \A q \in Recs : q # r => rec'[q] = rec[q]
          /\ Listing(rec'[r])
          /\ rec'[r].given = FALSE /\ rec[r].given = FALSE
          /\ UNCHANGED net \/ \E w : net' = net \cup {Ack(rec'[r].seg_num, w)}
                                  /\ rec'[r].seg_num # N
    BY <1>4, BodyNew
  <2>3. Delivered' <=> Delivered
    BY <2>2 DEF Delivered
  <2>4. SendTold(Delivered)'
    BY <2>1, <2>3 DEF TransferInv, SendTold
  <2>5. \A m \in net' : Tells(m) => m \in net
    BY <2>2 DEF Tells, Ack
  <2>6. NetTold(Delivered)'
    BY <2>3, <2>5 DEF TransferInv, NetTold, Tells
  <2>9. Unsent'
    BY <2>1 DEF Unsent
  <2>10. \A q \in Recs : Listing(rec'[q])
    BY <2>2 DEF TransferInv
  <2> QED BY <1>0, <2>1, <2>4, <2>6, <2>9, <2>10 DEF TransferInv
<1>5. CASE ~SenderStep /\ ~StartRmpp /\ ~CqFinish /\ ~CqBody
  <2>1. Quiet
    BY <1>5, QuietSteps DEF TransferInv
  <2>2. /\ \A r \in Recs : Listing(rec'[r])
        /\ Delivered' <=> Delivered
        /\ \A r \in Recs : rec[r].state = "none" => rec'[r].state = "none"
    BY <2>1, QuietListing DEF TransferInv, Types
  <2>3. /\ UNCHANGED <<wr, todo>>
        /\ \A m \in net' \ net : Tells(m) => Delivered
        /\ wr.on = "none" => net' \subseteq net
        /\ cq'.at = "finish" => cq' = cq
    BY <1>5, QuietNet
  <2>4. SendTold(Delivered)'
    BY <2>2, <2>3 DEF TransferInv, SendTold
  <2>5. NetTold(Delivered)'
    <3>1. \A m \in net' : Tells(m) => Delivered
      BY <2>3 DEF TransferInv, NetTold
    <3> QED BY <2>2, <3>1 DEF NetTold, Tells
  <2>6. Unsent'
    BY <2>2, <2>3 DEF TransferInv, Unsent
  <2>7. Last'
    <3> SUFFICES ASSUME cq'.at = "finish" PROVE rec'[cq'.r].seg_num = N
      BY DEF Last
    <3>1. PICK r \in Recs : r = cq.r
      BY <2>3 DEF TransferInv, Types
    <3>2. rec[r].seg_num = N /\ Kept(rec[r], rec'[r]) /\ cq'.r = r
      BY <2>1, <2>3, <3>1 DEF TransferInv, Last, Quiet
    <3>3. rec'[r].state # "freed"
      BY <1>0, <3>2 DEF RecvInv, CqPlace, Live
    <3> QED BY <3>2, <3>3 DEF Kept
  <2> QED BY <1>0, <2>2, <2>4, <2>5, <2>6, <2>7 DEF TransferInv
<1> QED BY <1>1, <1>2, <1>3, <1>4, <1>5

(* Initially nothing is known of a transfer.                               *)
LEMMA InitTransfer ==
    ASSUME Init
    PROVE  TransferInv
<1>1. Types /\ SendInv /\ RecvInv
  BY InitTypes, InitRecv
<1>2. \A r \in Recs : rec[r] = NewRec
  BY DEF Init
<1>3. Listing(NewRec)
  <2>1. NewRec.segs = <<>> /\ NewRec.seg_num = 0 /\ NewRec.given = FALSE
        /\ NewRec.state = "none"
    BY DEF NewRec
  <2>2. Len(NewRec.segs) = 0
    BY <2>1
  <2> QED BY <2>1, <2>2 DEF Listing, InOrder
<1>4. \A r \in Recs : rec[r].given = FALSE /\ rec[r].state = "none"
  BY <1>2 DEF NewRec
<1>5. wr.on = "none" /\ wr.last_ack = 0 /\ wr.result = "none" /\ todo = "none" /\ net = {}
      /\ N # 0 /\ cq.at = "idle"
  BY RmppAssumption DEF Init
<1> QED BY <1>1, <1>2, <1>3, <1>4, <1>5
        DEF TransferInv, Unsent, Last, SendTold, NetTold, Delivered

(* The two sides agree on the transfer in every reachable state: a list    *)
(* that is complete, or was handed over, is the message, and the sender    *)
(* knows of success only after a handover.                                 *)
THEOREM TransferInvariance == Spec => []TransferInv
<1>1. Init => TransferInv
  BY InitTransfer
<1>2. TransferInv /\ [Next]_vars => TransferInv'
  BY TransferStep
<1> QED BY <1>1, <1>2, PTL DEF Spec

-----------------------------------------------------------------------------
(* THE REFINEMENT *)

(* What a record has handed to the client.                                 *)
HandedBy(x) == IF x.given THEN x.segs ELSE <<>>
Got == [r \in Recs |-> HandedBy(rec[r])]
Known == \E r \in Recs : rec[r].given /\ rec[r].listed

(* Steps that hand nothing over.                                           *)
LEMMA SameGot ==
    ASSUME \A r \in Recs : HandedBy(rec'[r]) = HandedBy(rec[r])
    PROVE  Got' = Got
  BY DEF Got

(* A record that hands its list over.                                      *)
LEMMA NewGot ==
    ASSUME NEW r \in Recs, \A q \in Recs : q # r => rec'[q] = rec[q],
           Listing(rec'[r]), rec'[r].given, ~rec[r].given
    PROVE  Got' = [Got EXCEPT ![r] = Service!Message] /\ Got[r] = <<>>
<1>1. HandedBy(rec'[r]) = Service!Message /\ HandedBy(rec[r]) = <<>>
  BY DEF HandedBy, Listing, Service!Message
<1>2. \A q \in Recs : q # r => HandedBy(rec'[q]) = HandedBy(rec[q])
  OBVIOUS
<1>3. Got[r] = <<>> /\ \A q \in Recs : Got[q] = HandedBy(rec[q])
  BY <1>1 DEF Got
<1>4. Got' = [q \in Recs |-> HandedBy(rec'[q])]
  BY DEF Got
<1>5. [Got EXCEPT ![r] = Service!Message]
         = [q \in Recs |-> IF q = r THEN Service!Message ELSE HandedBy(rec[q])]
  BY DEF Got
<1> QED BY <1>1, <1>2, <1>3, <1>4, <1>5

(* Every step of the transfer is a step of the service or changes nothing  *)
(* the clients see.                                                        *)
LEMMA RefinedStep ==
    ASSUME TransferInv, TransferInv', [Next]_vars
    PROVE  [Service!Next]_Service!vars
<1> DEFINE end == IF wr.result \in {"none", "ok"} THEN wr.result ELSE "failed"
           sent == wr.on # "none"
<1>s. /\ UNCHANGED <<sent, Got, Known, end>> => UNCHANGED Service!vars
      /\ ~sent /\ sent' = TRUE /\ UNCHANGED <<Got, Known, end>> => Service!Send
      /\ ~sent /\ sent' = TRUE /\ end' = "failed" /\ UNCHANGED <<Got, Known>>
            => Service!Refuse
      /\ Known /\ Known' = FALSE /\ UNCHANGED <<sent, Got, end>> => Service!Forget
      /\ sent /\ end = "none" /\ (\E h \in Recs : Got[h] # <<>>) /\ end' = "ok"
            /\ UNCHANGED <<sent, Got, Known>> => Service!Succeed
      /\ sent /\ end = "none" /\ end' = "failed"
            /\ UNCHANGED <<sent, Got, Known>> => Service!Fail
  BY DEF Service!vars, Service!Send, Service!Refuse, Service!Forget,
         Service!Succeed, Service!Fail, Got, Known, HandedBy
<1>v. ASSUME NEW h \in Recs, sent, ~Known, Got[h] = <<>>,
             Got' = [Got EXCEPT ![h] = Service!Message], UNCHANGED <<sent, end>>
      PROVE  Service!Deliver(h)
  BY <1>v DEF Service!Deliver, Got, Known, HandedBy
<1>n. /\ Service!Send \/ Service!Refuse \/ Service!Forget \/ Service!Succeed
            \/ Service!Fail => Service!Next
      /\ \A h \in Recs : Service!Deliver(h) => Service!Next
  BY DEF Service!Next
<1>1. CASE SenderStep
  <2>1. UNCHANGED rec
    BY <1>1 DEF SenderStep, Post, SendDone, Complete, RecvAbort, RecvResponse,
                RecvAck, TimeoutSends, CancelMad
  <2>2. Got' = Got /\ Known' = Known /\ (Delivered' <=> Delivered)
    BY <2>1 DEF Got, Known, Delivered
  <2>d. PICK D \in BOOLEAN : D <=> Delivered
    BY DEF Delivered
  <2>3. /\ wr'.on # "none"
        /\ wr.on = "gone" => UNCHANGED wr
        /\ wr.on = "none" => wr'.result \in {"none", "error"}
    <3>1. SendTold(D) /\ NetTold(D)
      BY <2>d DEF TransferInv, SendTold, NetTold
    <3> QED BY <1>1, <3>1, SenderTold DEF TransferInv, Unsent
  <2>4. (wr.on = "gone" <=> wr.result # "none") /\ (wr'.result = "ok" => Delivered')
    BY DEF TransferInv, SendInv, SendRefs, SendTold
  <2>5. CASE wr.on = "none"
    <3>1. wr.result = "none"
      BY <2>4, <2>5
    <3> QED BY <1>s, <1>n, <2>2, <2>3, <2>5, <3>1
  <2>6. CASE wr.on = "gone"
    BY <1>s, <2>2, <2>3, <2>6
  <2>7. CASE wr.on \notin {"none", "gone"}
    <3>1. wr.result = "none"
      BY <2>4, <2>7
    <3>2. CASE wr'.result = "none"
      BY <1>s, <2>2, <2>3, <2>7, <3>1, <3>2
    <3>3. CASE wr'.result = "ok"
      <4>1. PICK h \in Recs : rec[h].given
        BY <2>2, <2>4, <3>3 DEF Delivered
      <4>2. rec[h].segs = [i \in 1..N |-> i] /\ 1 \in 1..N
        BY <4>1, RmppAssumption DEF TransferInv, Listing
      <4>3. Got[h] # <<>>
        <5>1. Got[h] = [i \in 1..N |-> i]
          BY <4>1, <4>2 DEF Got, HandedBy
        <5> QED BY <4>2, <5>1
      <4> QED BY <1>s, <1>n, <2>2, <2>3, <2>7, <3>1, <3>3, <4>3
    <3>4. CASE wr'.result \notin {"none", "ok"}
      BY <1>s, <1>n, <2>2, <2>3, <2>7, <3>1, <3>4
    <3> QED BY <3>2, <3>3, <3>4
  <2> QED BY <2>5, <2>6, <2>7
<1>2. CASE StartRmpp
  <2>1. /\ wr.on # "none" /\ UNCHANGED wr /\ \A q \in Recs : ~rec[q].listed
    BY <1>2, StartNew
  <2>2. PICK r \in Recs :
                 /\ \A q \in Recs : q # r => rec'[q] = rec[q]
                 /\ rec[r].state = "none" /\ ~rec[r].given
                 /\ Listing(rec'[r]) /\ rec'[r].given = (N = 1)
    BY <1>2, StartNew
  <2>3. ~Known
    BY <2>1 DEF Known
  <2>4. CASE N = 1
    <3>1. Got' = [Got EXCEPT ![r] = Service!Message] /\ Got[r] = <<>>
      BY <2>2, <2>4, NewGot
    <3> QED BY <1>n, <1>v, <2>1, <2>3, <3>1
  <2>5. CASE N # 1
    <3>1. \A q \in Recs : HandedBy(rec'[q]) = HandedBy(rec[q])
      BY <2>2, <2>5 DEF HandedBy
    <3>2. ~Known'
      BY <2>1, <2>2, <2>5 DEF Known
    <3>3. Known' = Known
      BY <2>3, <3>2 DEF Known
    <3> QED BY <1>s, <2>1, <3>1, <3>3, SameGot
  <2> QED BY <2>4, <2>5
<1>3. CASE CqFinish
  <2>1. /\ wr.on # "none" /\ UNCHANGED wr
        /\ \A q \in Recs : rec[q].listed => ~rec[q].given
    BY <1>3, FinishNew
  <2>2. PICK r \in Recs :
                 /\ \A q \in Recs : q # r => rec'[q] = rec[q]
                 /\ ~rec[r].given /\ Listing(rec'[r]) /\ rec'[r].given = TRUE
    BY <1>3, FinishNew
  <2>3. ~Known
    BY <2>1 DEF Known
  <2>4. Got' = [Got EXCEPT ![r] = Service!Message] /\ Got[r] = <<>>
    BY <2>2, NewGot
  <2> QED BY <1>n, <1>v, <2>1, <2>3, <2>4
<1>4. CASE CqBody
  <2>1. UNCHANGED wr
    BY <1>4, BodyNew
  <2>2. PICK r \in Recs :
                 /\ \A q \in Recs : q # r => rec'[q] = rec[q]
                 /\ rec'[r].given = FALSE /\ rec[r].given = FALSE
    BY <1>4, BodyNew
  <2>3. Got' = Got
    <3>1. \A q \in Recs : HandedBy(rec'[q]) = HandedBy(rec[q])
      BY <2>2 DEF HandedBy
    <3> QED BY <3>1, SameGot
  <2>4. Known' = Known
    BY <2>2 DEF Known
  <2> QED BY <1>s, <2>1, <2>3, <2>4
<1>5. CASE ~SenderStep /\ ~StartRmpp /\ ~CqFinish /\ ~CqBody
  <2>1. UNCHANGED wr
    BY <1>5, QuietNet
  <2>2. Quiet
    BY <1>5, QuietSteps DEF TransferInv
  <2>3. Got' = Got
    <3>1. \A q \in Recs : HandedBy(rec'[q]) = HandedBy(rec[q])
      BY <2>2 DEF Quiet, Kept, HandedBy
    <3> QED BY <3>1, SameGot
  <2>4. Known' => Known
    BY <2>2 DEF Quiet, Kept, Known
  <2>5. CASE Known /\ ~Known'
    <3>1. Known' = FALSE
      BY <2>5 DEF Known
    <3> QED BY <1>s, <1>n, <2>1, <2>3, <2>5, <3>1
  <2>6. CASE Known <=> Known'
    <3>1. Known' = Known
      BY <2>6 DEF Known
    <3> QED BY <1>s, <2>1, <2>3, <3>1
  <2> QED BY <2>4, <2>5, <2>6
<1> QED BY <1>1, <1>2, <1>3, <1>4, <1>5

(* Whatever the fabric loses, repeats or reorders and whichever timer      *)
(* expires, also while the last segment arrives, the receiver's client is  *)
(* handed nothing but the segments 1 to N in order, not again while the    *)
(* agent has the record of the handover, and the sender's client is told   *)
(* of success only after a handover.                                       *)
THEOREM Refinement == Spec => Implements
<1>1. Init => Service!Init
  <2> SUFFICES ASSUME Init PROVE Service!Init
    OBVIOUS
  <2>1. \A r \in Recs : rec[r].given = FALSE
    BY DEF Init, NewRec
  <2>2. wr.on = "none" /\ wr.result = "none"
    BY DEF Init
  <2> QED BY <2>1, <2>2 DEF Service!Init
<1>2. TransferInv /\ TransferInv' /\ [Next]_vars => [Service!Next]_Service!vars
  BY RefinedStep
<1> QED BY <1>1, <1>2, TransferInvariance, PTL DEF Spec, Service!Spec, Implements
=============================================================================
