---------------------------- MODULE MadSendProofs ---------------------------
(***************************************************************************)
(* Proofs about MadSend, for any number of MADs and agents, any windows    *)
(* and queue sizes, any number of retries and MADs of both classes on one  *)
(* port: the counters are those of the MADs under way, nobody waits for a  *)
(* permit that no one will pass on, each client is told once, and the FIFO *)
(* has its timer.                                                          *)
(***************************************************************************)
EXTENDS MadSend, FiniteSetTheorems, SequenceTheorems, WellFoundedInduction, TLAPS

Hws == {"none", "qp", "qover", "smpover", "smpout"}
MadType == [place : Places, refcount : Int, live : BOOLEAN, hw : Hws,
            status : Results, retries_left : Nat, canceled : BOOLEAN,
            sent : BOOLEAN, resp : BOOLEAN, told : Nat]
CcType == [outstanding : Nat, fifo : Seq(Mads), to : Seq(Mads),
           timer : Mads \cup {NoMad}, work : Mads \cup {NoMad},
           running : BOOLEAN, late : Mads \cup {NoMad}, modified : BOOLEAN,
           fault : BOOLEAN]
SmpType == [outstanding : Nat, overflow : Seq(Mads), leaked : Nat, extra : Nat]

(* No agent with SMPs is unregistered: the SMP window does not survive that. *)
SmpSafe == \A a \in Agents : <<a, "smp">> \notin Unreg

One(b) == IF b THEN 1 ELSE 0

(* A MAD x of class c.  The references of one that was sent are those of the *)
(* QP or the queue that has it, of the response it waits for, and of the     *)
(* thread that has this response.                                            *)
Good(c, x) ==
    /\ x \in MadType /\ x.refcount \in 0..2
    /\ x.told = One(x.place = "gone")
    /\ x.place \in {"idle", "cc", "exp", "handed"} => x.status = "ok"
    /\ x.place \in {"cc", "exp", "handed", "cancel", "stuck"} => c = "sa"
    /\ x.hw # "none" => x.place = "list"
    /\ x.hw \in {"smpover", "smpout"} => c = "smp"
    /\ x.place \in {"list", "wait", "done"} =>
          x.refcount = One(x.hw # "none") + One(x.live /\ x.status = "ok") + One(x.resp)
    /\ x.resp => ~x.live /\ x.place \in {"list", "done"}
    /\ x.place = "list" => x.hw # "none" \/ x.resp
    /\ x.place = "list" /\ x.live /\ x.status = "ok" => x.hw # "none"
    /\ x.place = "wait" => x.live
    /\ x.place = "done" => x.resp

(* The elements of a queue, which is without duplicates. *)
Elems(q) == {q[i] : i \in 1..Len(q)}
Once(q) == \A i, j \in 1..Len(q) : q[i] = q[j] => i = j

(* A MAD x of class c has a permit, or a place in the SMP window. *)
Sa(c, x) == /\ c = "sa"
            /\ x.place \in {"handed", "list", "wait", "done", "cancel", "stuck"}
Sm(c, x) == /\ c = "smp" /\ x.place \in {"list", "wait", "done", "cancel"}
            /\ x.hw \notin {"smpover", "smpout"}
SaHold(M) == {m \in Mads : Sa(class[m], M[m])}
SmpHold(M) == {m \in Mads : Sm(class[m], M[m])}

(* The FIFO k for the MADs M: a permit is with each MAD under way, and n     *)
(* more are out; a MAD waits only when all permits are out.                  *)
CcInv(M, k, n) ==
    /\ \A m \in Elems(k.to) : M[m].place = "cc"
    /\ k.outstanding = Cardinality(SaHold(M)) + n
    /\ k.outstanding <= SaWindow
    /\ \A m \in Elems(k.fifo) : M[m].canceled \/ k.outstanding = SaWindow

(* The SMP window w counts a MADs and those that ib_send_mad() failed to     *)
(* post, short by no more than those that smp_mad_done() failed to post.     *)
Span(a, w) == w.outstanding <= a + w.leaked /\ a + w.leaked <= w.outstanding + w.extra

(* The SMP window w for the MADs M: a place is with each MAD under way, and  *)
(* n more are taken.                                                         *)
SmpInv(M, w, n) ==
    /\ w \in SmpType /\ Once(w.overflow)
    /\ \A m \in Elems(w.overflow) : M[m].hw = "smpover"
    /\ Span(Cardinality(SmpHold(M)) + n, w)

(* A MAD that waits for the SMP window waits for some other one, or the      *)
(* whole window is lost.                                                     *)
SmpMoves(M, w) ==
    w.overflow # <<>> => \/ SmpHold(M) # {} \/ w.leaked >= SmpWindow
                         \/ \E m \in Mads : M[m].hw = "smpout"

(* The MADs in the overflow list of a QP. *)
QpInv(M, ov) ==
    /\ ov \in [QpOf -> Seq(Mads)]
    /\ \A c \in QpOf : Once(ov[c])
    /\ \A c \in QpOf : \A m \in Elems(ov[c]) : class[m] = c /\ M[m].hw = "qover"

(* All queues. *)
Queues(M, k, w, ov) ==
    CcInv(M, k, 0) /\ SmpInv(M, w, 0) /\ SmpMoves(M, w) /\ QpInv(M, ov)

Goods(M) == M \in [Mads -> MadType] /\ \A m \in Mads : Good(class[m], M[m])

(* The type of the congestion control, and its timer. *)
TimerInv == cc \in CcType /\ Elems(cc.fifo) \subseteq Elems(cc.to) /\ TimerArmed

(* The agents that are unregistered have no SMPs. *)
AgentInv ==
    /\ class \in Classes /\ class \in [Mads -> {"sa", "smp"}]
    /\ \A m \in Mads : agent[AgentOf[m]] # "open" => class[m] = "sa"
    /\ agent \in [Agents -> {"open", "freed_cc", "closed", "drained"}]

Inv == Goods(mad) /\ TimerInv /\ AgentInv /\ Queues(mad, cc, smp, over)
-----------------------------------------------------------------------------
(* A set of natural numbers has a least element. *)
LEMMA LeastNat ==
    ASSUME NEW T \in SUBSET Nat, T # {}
    PROVE  \E x \in T : \A y \in T : x <= y
<1>1. IsWellFoundedOn({ss \in Nat \X Nat : ss[1] < ss[2]}, Nat)
  BY NatLessThanWellFounded, Zenon DEF OpToRel
<1>2. \E x \in T : \A y \in T : ~(<<y, x>> \in {ss \in Nat \X Nat : ss[1] < ss[2]})
  BY <1>1, WFMin
<1>3. PICK x \in T : \A y \in T : ~(<<y, x>> \in {ss \in Nat \X Nat : ss[1] < ss[2]})
  BY <1>2
<1>4. \A y \in T : x <= y
  <2>1. SUFFICES ASSUME NEW y \in T PROVE x <= y
    OBVIOUS
  <2>2. <<y, x>> \in Nat \X Nat /\ <<y, x>>[1] = y /\ <<y, x>>[2] = x /\ x \in Nat /\ y \in Nat
    OBVIOUS
  <2>3. ~(y < x)
    BY <1>3, <2>2
  <2> QED BY <2>2, <2>3
<1> QED BY <1>4

(* The numbers of a set in increasing order. *)
Increasing(I, f) ==
    /\ f \in [1..Cardinality(I) -> I]
    /\ \A j, k \in 1..Cardinality(I) : j < k => f[j] < f[k]

(* Every set of numbers up to n can be listed in increasing order. *)
LEMMA Listing ==
    ASSUME NEW n \in Nat, NEW I \in SUBSET (1..n)
    PROVE  IsFiniteSet(I) /\ \E f : Increasing(I, f)
<1>0. \A k \in Nat : \A J \in SUBSET (1..k) : IsFiniteSet(J) /\ Cardinality(J) \in Nat
  <2>1. SUFFICES ASSUME NEW k \in Nat, NEW J \in SUBSET (1..k)
                 PROVE  IsFiniteSet(J) /\ Cardinality(J) \in Nat
    OBVIOUS
  <2>2. IsFiniteSet(1..k)
    BY FS_Interval
  <2>3. IsFiniteSet(J)
    BY <2>2, FS_Subset
  <2> QED BY <2>3, FS_CardinalityType
<1> DEFINE T == {k \in Nat : \E J \in SUBSET (1..k) : ~\E f : Increasing(J, f)}
<1>1. SUFFICES ASSUME T # {} PROVE FALSE
  BY <1>0
<1>2. PICK k \in T : \A j \in T : k <= j
  <2>1. T \in SUBSET Nat
    OBVIOUS
  <2> HIDE DEF T
  <2> QED BY <1>1, <2>1, LeastNat
<1>3. PICK J \in SUBSET (1..k) : ~\E f : Increasing(J, f)
  OBVIOUS
<1>4. k \in Nat
  OBVIOUS
<1>5. k # 0
  <2>1. SUFFICES ASSUME k = 0 PROVE FALSE
    OBVIOUS
  <2>2. J = {} /\ Cardinality(J) = 0
    <3>1. 1..k = {}
      BY <2>1
    <3> QED BY <3>1, FS_EmptySet
  <2>3. Increasing(J, [i \in 1..0 |-> i])
    BY <2>2 DEF Increasing
  <2> QED BY <1>3, <2>3
<1>6. k - 1 \notin T
  <2> HIDE DEF T
  <2> QED BY <1>2, <1>4
<1>7. \A K \in SUBSET (1..(k - 1)) : \E f : Increasing(K, f)
  BY <1>4, <1>5, <1>6
<1>8. k \in J
  BY <1>3, <1>4, <1>5, <1>7
<1> HIDE DEF T
<1>9. PICK f : Increasing(J \ {k}, f)
  BY <1>4, <1>7
<1>10. PICK c : c = Cardinality(J \ {k})
  OBVIOUS
<1>11. c \in Nat /\ Cardinality(J) = c + 1
  <2>1. IsFiniteSet(J) /\ Cardinality(J) \in Nat
    BY <1>0, <1>4
  <2>2. Cardinality(J \ {k}) = Cardinality(J) - 1 /\ IsFiniteSet(J \ {k})
    BY <1>8, <2>1, FS_RemoveElement
  <2>3. Cardinality(J \ {k}) \in Nat
    BY <2>2, FS_CardinalityType
  <2> QED BY <1>10, <2>1, <2>2, <2>3
<1>12. PICK g : g = [i \in 1..(c + 1) |-> IF i = c + 1 THEN k ELSE f[i]]
  OBVIOUS
<1>13. \A i \in 1..(c + 1) : i # c + 1 => i \in 1..c
  BY <1>11
<1>14. g \in [1..Cardinality(J) -> J]
  BY <1>8, <1>9, <1>10, <1>11, <1>12, <1>13 DEF Increasing
<1>15. ASSUME NEW i \in 1..(c + 1), NEW j \in 1..(c + 1), i < j PROVE g[i] < g[j]
  <2>1. i \in 1..c /\ g[i] = f[i] /\ f[i] \in J \ {k}
    <3>1. i # c + 1 /\ i \in 1..c
      BY <1>11, <1>15
    <3>2. f \in [1..c -> J \ {k}]
      BY <1>9, <1>10 DEF Increasing
    <3> QED BY <1>12, <3>1, <3>2
  <2>2. CASE j = c + 1
    <3>1. f[i] \in 1..k /\ f[i] # k
      BY <2>1
    <3> QED BY <1>4, <1>11, <1>12, <2>1, <2>2, <3>1
  <2>3. CASE j # c + 1
    <3>1. j \in 1..c /\ g[j] = f[j]
      BY <1>11, <1>12, <1>13, <2>3
    <3> QED BY <1>9, <1>10, <1>15, <2>1, <3>1 DEF Increasing
  <2> QED BY <2>2, <2>3
<1>16. Increasing(J, g)
  BY <1>11, <1>14, <1>15 DEF Increasing
<1> QED BY <1>3, <1>16

(* What Without() leaves of a queue. *)
LEMMA WithoutElems ==
    ASSUME NEW q \in Seq(Mads), NEW S
    PROVE  /\ Without(q, S) \in Seq(Mads)
           /\ Elems(Without(q, S)) = Elems(q) \ S
           /\ Once(q) => Once(Without(q, S))
<1>1. PICK I : I = {i \in 1..Len(q) : q[i] \notin S}
  OBVIOUS
<1>2. Len(q) \in Nat /\ I \in SUBSET (1..Len(q)) /\ \A i \in 1..Len(q) : q[i] \in Mads
  BY <1>1
<1>3. IsFiniteSet(I) /\ \E f : Increasing(I, f)
  BY <1>2, Listing
<1>4. PICK n : n = Cardinality(I)
  OBVIOUS
<1>5. n \in Nat
  BY <1>3, <1>4, FS_CardinalityType
<1>6. PICK at : at = CHOOSE f \in [1..n -> I] : \A j, k \in 1..n : j < k => f[j] < f[k]
  OBVIOUS
<1>7. at \in [1..n -> I] /\ \A j, k \in 1..n : j < k => at[j] < at[k]
  <2>1. \E f \in [1..n -> I] : \A j, k \in 1..n : j < k => f[j] < f[k]
    BY <1>3, <1>4 DEF Increasing
  <2> QED BY <1>6, <2>1
<1>8. PICK w : w = [k \in 1..n |-> q[at[k]]]
  OBVIOUS
<1>9. Without(q, S) = w
  BY <1>1, <1>4, <1>6, <1>8 DEF Without
<1>10. w \in [1..n -> Mads]
  BY <1>2, <1>7, <1>8
<1>11. w \in Seq(Mads) /\ Len(w) = n
  BY <1>5, <1>10
<1>12. \A j, k \in 1..n : at[j] = at[k] => j = k
  <2>1. SUFFICES ASSUME NEW j \in 1..n, NEW k \in 1..n, at[j] = at[k] PROVE j = k
    OBVIOUS
  <2>2. at[j] \in 1..Len(q)
    BY <1>2, <1>7
  <2> QED BY <1>2, <1>5, <1>7, <2>1, <2>2
<1>13. at \in Injection(1..n, I)
  BY <1>7, <1>12 DEF Injection, IsInjective
<1>14. at \in Surjection(1..n, I)
  <2>1. Cardinality(1..n) = n
    BY <1>5, FS_Interval
  <2> QED BY <1>3, <1>4, <1>13, <2>1, FS_Injection
<1>15. \A i \in I : \E k \in 1..n : at[k] = i
  BY <1>14 DEF Surjection
<1>16. Elems(w) = Elems(q) \ S
  <2>1. \A k \in 1..n : w[k] = q[at[k]] /\ at[k] \in 1..Len(q) /\ q[at[k]] \notin S
    BY <1>1, <1>7, <1>8
  <2>2. Elems(w) \subseteq Elems(q) \ S
    BY <1>11, <2>1 DEF Elems
  <2>3. ASSUME NEW i \in 1..Len(q), q[i] \notin S PROVE q[i] \in Elems(w)
    <3>1. PICK k \in 1..n : at[k] = i
      BY <1>1, <1>15, <2>3
    <3> QED BY <1>11, <2>1, <3>1 DEF Elems
  <2> QED BY <2>2, <2>3 DEF Elems
<1>17. ASSUME Once(q), NEW j \in 1..n, NEW k \in 1..n, w[j] = w[k] PROVE j = k
  <2>1. at[j] = at[k]
    BY <1>2, <1>7, <1>8, <1>17 DEF Once
  <2> QED BY <1>12, <2>1
<1>18. Once(q) => Once(w)
  BY <1>11, <1>17 DEF Once
<1> QED BY <1>9, <1>11, <1>16, <1>18

(* Two queues one behind the other. *)
LEMMA ConcatElems ==
    ASSUME NEW q \in Seq(Mads), NEW r \in Seq(Mads)
    PROVE  q \o r \in Seq(Mads) /\ Elems(q \o r) = Elems(q) \cup Elems(r)
<1>1. PICK c : c = q \o r
  OBVIOUS
<1>2. /\ c \in Seq(Mads) /\ Len(c) = Len(q) + Len(r) /\ Len(q) \in Nat /\ Len(r) \in Nat
      /\ \A k \in 1..(Len(q) + Len(r)) : c[k] = IF k <= Len(q) THEN q[k] ELSE r[k - Len(q)]
  BY <1>1, ConcatProperties
<1>3. \A k \in 1..Len(q) : k \in 1..Len(c) /\ c[k] = q[k]
  BY <1>2
<1>4. ASSUME NEW k \in 1..Len(r) PROVE Len(q) + k \in 1..Len(c) /\ c[Len(q) + k] = r[k]
  <2>1. /\ Len(q) + k \in 1..(Len(q) + Len(r)) /\ ~(Len(q) + k <= Len(q))
        /\ (Len(q) + k) - Len(q) = k
    BY <1>2
  <2> QED BY <1>2, <2>1
<1>5. ASSUME NEW k \in 1..Len(c) PROVE c[k] \in Elems(q) \cup Elems(r)
  <2>1. CASE k <= Len(q)
    BY <1>2, <2>1 DEF Elems
  <2>2. CASE ~(k <= Len(q))
    <3>1. k - Len(q) \in 1..Len(r) /\ c[k] = r[k - Len(q)]
      BY <1>2, <2>2
    <3> QED BY <3>1 DEF Elems
  <2> QED BY <2>1, <2>2
<1>6. Elems(c) \subseteq Elems(q) \cup Elems(r)
  BY <1>5 DEF Elems
<1>7. Elems(q) \subseteq Elems(c) /\ Elems(r) \subseteq Elems(c)
  BY <1>3, <1>4 DEF Elems
<1> QED BY <1>1, <1>2, <1>6, <1>7

(* A queue of one, before another. *)
LEMMA ConsElems ==
    ASSUME NEW m \in Mads, NEW q \in Seq(Mads)
    PROVE  /\ <<m>> \in Seq(Mads) /\ Elems(<<m>>) = {m}
           /\ <<m>> \o q \in Seq(Mads) /\ Elems(<<m>> \o q) = Elems(q) \cup {m}
<1>1. PICK e : e = <<m>>
  OBVIOUS
<1>2. e \in Seq(Mads) /\ Len(e) = 1 /\ e[1] = m
  BY <1>1
<1>3. Elems(e) = {m}
  BY <1>2 DEF Elems
<1>4. e \o q \in Seq(Mads) /\ Elems(e \o q) = Elems(e) \cup Elems(q)
  BY <1>2, ConcatElems
<1> QED BY <1>1, <1>2, <1>3, <1>4

(* Insertion adds m and keeps the others. *)
LEMMA InsertElems ==
    ASSUME NEW q \in Seq(Mads), NEW m \in Mads, NEW i \in 0..Len(q)
    PROVE  InsertAt(q, i, m) \in Seq(Mads) /\ Elems(InsertAt(q, i, m)) = Elems(q) \cup {m}
<1>0. i \in Nat /\ Len(q) \in Nat /\ i <= Len(q)
  OBVIOUS
<1>1. PICK a, b, e : a = SubSeq(q, 1, i) /\ b = SubSeq(q, i + 1, Len(q)) /\ e = <<m>>
  OBVIOUS
<1>2. /\ a \in Seq(Mads) /\ Len(a) = i /\ \A k \in 1..Len(a) : a[k] = q[k]
      /\ b \in Seq(Mads) /\ Len(b) = Len(q) - i /\ \A k \in 1..Len(b) : b[k] = q[i + k]
  BY <1>0, <1>1
<1>3. e \in Seq(Mads) /\ Elems(e) = {m}
  BY <1>1, ConsElems
<1>4. a \o e \in Seq(Mads) /\ Elems(a \o e) = Elems(a) \cup {m}
  BY <1>2, <1>3, ConcatElems
<1>5. (a \o e) \o b \in Seq(Mads) /\ Elems((a \o e) \o b) = Elems(a) \cup {m} \cup Elems(b)
  BY <1>2, <1>4, ConcatElems
<1>6. Elems(a) \subseteq Elems(q)
  BY <1>0, <1>2 DEF Elems
<1>7. Elems(b) \subseteq Elems(q)
  <2>1. \A k \in 1..Len(b) : i + k \in 1..Len(q)
    BY <1>0, <1>2
  <2> QED BY <1>2, <2>1 DEF Elems
<1>8. Elems(q) \subseteq Elems(a) \cup Elems(b)
  <2>1. SUFFICES ASSUME NEW k \in 1..Len(q) PROVE q[k] \in Elems(a) \cup Elems(b)
    BY DEF Elems
  <2>2. CASE k <= i
    BY <1>0, <1>2, <2>2 DEF Elems
  <2>3. CASE ~(k <= i)
    <3>1. k - i \in 1..Len(b) /\ i + (k - i) = k
      BY <1>0, <1>2, <2>3
    <3>2. b[k - i] = q[k]
      BY <1>2, <3>1
    <3> QED BY <3>1, <3>2 DEF Elems
  <2> QED BY <2>2, <2>3
<1> QED BY <1>1, <1>5, <1>6, <1>7, <1>8 DEF InsertAt

(* A queue with one more element at its end. *)
LEMMA AppendElems ==
    ASSUME NEW q \in Seq(Mads), NEW m \in Mads
    PROVE  /\ Append(q, m) \in Seq(Mads) /\ Elems(Append(q, m)) = Elems(q) \cup {m}
           /\ Once(q) /\ m \notin Elems(q) => Once(Append(q, m))
<1>1. /\ Append(q, m) \in Seq(Mads) /\ Len(Append(q, m)) = Len(q) + 1
      /\ Append(q, m)[Len(q) + 1] = m /\ \A k \in 1..Len(q) : Append(q, m)[k] = q[k]
      /\ Len(q) \in Nat
  OBVIOUS
<1>2. \A k \in 1..(Len(q) + 1) : k = Len(q) + 1 \/ k \in 1..Len(q)
  BY <1>1
<1>3. Len(q) + 1 \in 1..(Len(q) + 1) /\ \A k \in 1..Len(q) : k \in 1..(Len(q) + 1)
  BY <1>1
<1>4. PICK r : r = Append(q, m)
  OBVIOUS
<1>5. Elems(r) = Elems(q) \cup {m}
  BY <1>1, <1>2, <1>3, <1>4 DEF Elems
<1>6. Once(q) /\ m \notin Elems(q) => Once(r)
  BY <1>1, <1>2, <1>4 DEF Once, Elems
<1> QED BY <1>1, <1>4, <1>5, <1>6

(* A queue without its first element. *)
LEMMA TailElems ==
    ASSUME NEW q \in Seq(Mads), q # <<>>
    PROVE  /\ Head(q) \in Mads /\ Head(q) \in Elems(q) /\ Tail(q) \in Seq(Mads)
           /\ Once(q) => Once(Tail(q)) /\ Elems(Tail(q)) = Elems(q) \ {Head(q)}
<1>1. /\ Tail(q) \in Seq(Mads) /\ Len(Tail(q)) = Len(q) - 1 /\ Len(q) \in Nat /\ Len(q) >= 1
      /\ \A k \in 1..Len(Tail(q)) : Tail(q)[k] = q[k + 1]
      /\ Head(q) = q[1] /\ Head(q) \in Mads
  OBVIOUS
<1>2. \A k \in 1..Len(Tail(q)) : k + 1 \in 1..Len(q) /\ k + 1 # 1
  BY <1>1
<1>3. 1 \in 1..Len(q) /\ Head(q) \in Elems(q)
  BY <1>1 DEF Elems
<1>4. \A k \in 1..Len(q) : k # 1 => k - 1 \in 1..Len(Tail(q)) /\ (k - 1) + 1 = k
  BY <1>1
<1>5. Once(q) => Once(Tail(q))
  BY <1>1, <1>2, <1>3 DEF Once
<1>6. ASSUME Once(q) PROVE Elems(Tail(q)) = Elems(q) \ {Head(q)}
  <2>1. Elems(Tail(q)) \subseteq Elems(q) \ {Head(q)}
    BY <1>1, <1>2, <1>3, <1>6 DEF Elems, Once
  <2>2. ASSUME NEW k \in 1..Len(q), q[k] # Head(q) PROVE q[k] \in Elems(Tail(q))
    <3>1. k # 1
      BY <1>1, <2>2
    <3>2. k - 1 \in 1..Len(Tail(q)) /\ Tail(q)[k - 1] = q[k]
      BY <1>1, <1>4, <3>1
    <3> QED BY <3>2 DEF Elems
  <2> QED BY <2>1, <2>2 DEF Elems
<1> QED BY <1>1, <1>3, <1>5, <1>6

(* A queue is empty when it has no elements. *)
LEMMA EmptyElems ==
    ASSUME NEW q \in Seq(Mads)
    PROVE  /\ Elems(q) \subseteq Mads
           /\ q = <<>> <=> Elems(q) = {}
           /\ q # <<>> => Head(q) = q[1] /\ Head(q) \in Elems(q) /\ Len(q) >= 1
           /\ \A i \in 1..Len(q) : q[i] \in Elems(q)
           /\ Len(q) = 1 => Elems(q) = {Head(q)}
<1>1. Len(q) \in Nat /\ (q = <<>> <=> Len(q) = 0) /\ \A i \in 1..Len(q) : q[i] \in Mads
  OBVIOUS
<1>2. q # <<>> => Head(q) = q[1] /\ Len(q) >= 1 /\ 1 \in 1..Len(q)
  BY <1>1
<1>3. q = <<>> => Elems(q) = {}
  BY <1>1 DEF Elems
<1>4. Len(q) = 1 => Elems(q) = {Head(q)}
  BY <1>1, <1>2 DEF Elems
<1> QED BY <1>1, <1>2, <1>3, <1>4 DEF Elems
-----------------------------------------------------------------------------
(* THE TIMER OF THE FIFO *)

(* The congestion control, field by field. *)
LEMMA CcFields ==
    ASSUME cc \in CcType
    PROVE  /\ cc.outstanding \in Nat /\ cc.fifo \in Seq(Mads) /\ cc.to \in Seq(Mads)
           /\ cc.timer \in Mads \cup {NoMad} /\ cc.work \in Mads \cup {NoMad}
           /\ cc.late \in Mads \cup {NoMad}
           /\ cc.running \in BOOLEAN /\ cc.modified \in BOOLEAN /\ cc.fault \in BOOLEAN
BY DEF CcType

(* The MAD that tf_dequeue() takes. *)
LEMMA FirstWaiting ==
    ASSUME cc \in CcType, NEW M, Waiting(M) # {}
    PROVE  LET m == cc.fifo[CHOOSE i \in Waiting(M) : \A j \in Waiting(M) : i <= j]
           IN  m \in Elems(cc.fifo) /\ ~M[m].canceled
<1>1. Waiting(M) \in SUBSET Nat
  BY DEF Waiting
<1>2. \E i \in Waiting(M) : \A j \in Waiting(M) : i <= j
  BY <1>1, LeastNat
<1>3. PICK n : n = CHOOSE i \in Waiting(M) : \A j \in Waiting(M) : i <= j
  OBVIOUS
<1>4. n \in Waiting(M)
  BY <1>2, <1>3
<1>5. cc.fifo[n] \in Elems(cc.fifo) /\ ~M[cc.fifo[n]].canceled
  BY <1>4 DEF Waiting, Elems
<1> QED BY <1>3, <1>5

(* sa_cc_mad_done(), case by case. *)
LEMMA DoneCases ==
    ASSUME cc \in CcType, NEW M, NEW m, sa_cc_mad_done(M, m)
    PROVE  \/ \E n \in Elems(cc.fifo) :
                 /\ ~M[n].canceled /\ mad' = [M EXCEPT ![m] = Tell(@), ![n].place = "handed"]
                 /\ cc' = [cc EXCEPT !.fifo = Without(@, {n}), !.to = Without(@, {n}),
                                     !.timer = TimerWithout(n)]
           \/ /\ \A n \in Elems(cc.fifo) : M[n].canceled
              /\ mad' = [M EXCEPT ![m] = Tell(@)] /\ cc' = [cc EXCEPT !.outstanding = Less(@)]
           \/ mad' = [M EXCEPT ![m].place = "stuck"] /\ cc' = [cc EXCEPT !.fault = TRUE]
<1>1. CASE Waiting(M) # {}
  <2>1. PICK n : n = cc.fifo[CHOOSE i \in Waiting(M) : \A j \in Waiting(M) : i <= j]
    OBVIOUS
  <2>2. n \in Elems(cc.fifo) /\ ~M[n].canceled
    BY <1>1, <2>1, FirstWaiting
  <2>3. PassOn(M, m)
    BY <1>1 DEF sa_cc_mad_done
  <2>4. /\ mad' = [M EXCEPT ![m] = Tell(@), ![n].place = "handed"]
        /\ cc' = [cc EXCEPT !.fifo = Without(@, {n}), !.to = Without(@, {n}),
                            !.timer = TimerWithout(n)]
    BY <2>1, <2>3 DEF PassOn
  <2> QED BY <2>2, <2>4
<1>2. CASE Waiting(M) = {}
  <2>1. \A n \in Elems(cc.fifo) : M[n].canceled
    BY <1>2 DEF Waiting, Elems
  <2> QED BY <1>2, <2>1 DEF sa_cc_mad_done, GiveBack
<1> QED BY <1>1, <1>2

(* The timer after sa_cc_mad_done(). *)
LEMMA TimerDone ==
    ASSUME TimerInv, NEW M, NEW z, sa_cc_mad_done(M, z), MadSendAssumption
    PROVE  TimerInv'
<1>0. cc \in CcType /\ Elems(cc.fifo) \subseteq Elems(cc.to) /\ TimerArmed
  BY DEF TimerInv
<1>00. /\ cc.outstanding \in Nat /\ cc.fifo \in Seq(Mads) /\ cc.to \in Seq(Mads)
       /\ cc.timer \in Mads \cup {NoMad}
  BY <1>0, CcFields
<1>1. CASE \E m \in Elems(cc.fifo) :
              cc' = [cc EXCEPT !.fifo = Without(@, {m}), !.to = Without(@, {m}),
                               !.timer = TimerWithout(m)]
  <2>1. PICK m \in Elems(cc.fifo) :
              cc' = [cc EXCEPT !.fifo = Without(@, {m}), !.to = Without(@, {m}),
                               !.timer = TimerWithout(m)]
    BY <1>1
  <2>2. m \in Elems(cc.to) /\ cc.to # <<>>
    BY <1>0, <1>00, EmptyElems
  <2>3. PICK f, t, x : f = Without(cc.fifo, {m}) /\ t = Without(cc.to, {m}) /\ x = TimerWithout(m)
    OBVIOUS
  <2>4. /\ f \in Seq(Mads) /\ Elems(f) = Elems(cc.fifo) \ {m}
        /\ t \in Seq(Mads) /\ Elems(t) = Elems(cc.to) \ {m}
    BY <1>00, <2>3, WithoutElems
  <2>5. x \in Mads \cup {NoMad} /\ (t # <<>> => x = cc.timer \/ x \in Mads)
    <3>1. CASE Head(cc.to) # m
      BY <1>00, <2>3, <3>1 DEF TimerWithout
    <3>2. CASE Head(cc.to) = m /\ Len(cc.to) = 1
      <4>1. Elems(cc.to) = {m}
        BY <1>00, <3>2, EmptyElems
      <4>2. t = <<>>
        BY <2>4, <4>1, EmptyElems
      <4> QED BY <2>3, <3>2, <4>2 DEF TimerWithout
    <3>3. CASE Head(cc.to) = m /\ Len(cc.to) # 1
      <4>1. 2 \in 1..Len(cc.to)
        <5>1. Len(cc.to) \in Nat /\ Len(cc.to) >= 1
          BY <1>00, <2>2, EmptyElems
        <5>2. PICK n : n = Len(cc.to)
          OBVIOUS
        <5>3. n \in Nat /\ n >= 1 /\ n # 1
          BY <3>3, <5>1, <5>2
        <5>4. 2 \in 1..n
          BY <5>3
        <5> QED BY <5>2, <5>4
      <4>2. cc.to[2] \in Mads
        BY <1>00, <4>1
      <4> QED BY <2>3, <3>3, <4>2 DEF TimerWithout
    <3> QED BY <3>1, <3>2, <3>3
  <2>6. cc' = [cc EXCEPT !.fifo = f, !.to = t, !.timer = x]
    BY <2>1, <2>3
  <2>7. /\ cc' \in CcType /\ cc'.fifo = f /\ cc'.to = t /\ cc'.timer = x
        /\ cc'.work = cc.work /\ cc'.running = cc.running
    BY <1>0, <2>4, <2>5, <2>6 DEF CcType
  <2> QED BY <1>0, <2>2, <2>4, <2>5, <2>7, MadSendAssumption DEF TimerInv, TimerArmed, MadSendAssumption
<1>2. CASE cc' = [cc EXCEPT !.outstanding = Less(@)]
  <2>1. PICK x : x = Less(cc.outstanding)
    OBVIOUS
  <2>2. x \in Nat
    BY <1>00, <2>1 DEF Less
  <2>3. cc' = [cc EXCEPT !.outstanding = x]
    BY <1>2, <2>1
  <2>4. /\ cc' \in CcType /\ cc'.fifo = cc.fifo /\ cc'.to = cc.to /\ cc'.timer = cc.timer
        /\ cc'.work = cc.work /\ cc'.running = cc.running
    BY <1>0, <2>2, <2>3 DEF CcType
  <2> QED BY <1>0, <2>4 DEF TimerInv, TimerArmed
<1>3. CASE cc' = [cc EXCEPT !.fault = TRUE]
  <2>1. PICK b : b = TRUE
    OBVIOUS
  <2>2. cc' = [cc EXCEPT !.fault = b] /\ b \in BOOLEAN
    BY <1>3, <2>1
  <2>3. /\ cc' \in CcType /\ cc'.fifo = cc.fifo /\ cc'.to = cc.to /\ cc'.timer = cc.timer
        /\ cc'.work = cc.work /\ cc'.running = cc.running
    BY <1>0, <2>2 DEF CcType
  <2> QED BY <1>0, <2>3 DEF TimerInv, TimerArmed
<1> QED BY <1>0, <1>1, <1>2, <1>3, DoneCases

(* The timer when a MAD has ended. *)
LEMMA TimerEnded ==
    ASSUME MadSendAssumption, TimerInv, NEW M, NEW m, NEW w, Ended(M, m, w)
    PROVE  TimerInv'
<1>1. CASE class[m] = "smp"
  BY <1>1 DEF Ended, TimerInv, TimerArmed
<1>2. CASE class[m] # "smp"
  BY <1>2, TimerDone DEF Ended
<1> QED BY <1>1, <1>2

(* The timer when a reference is put. *)
LEMMA TimerPut ==
    ASSUME MadSendAssumption, TimerInv, NEW M, NEW m, NEW s, ib_mad_complete_send_wr(M, m, s)
    PROVE  TimerInv'
<1>1. CASE cc' = cc
  BY <1>1 DEF TimerInv, TimerArmed
<1>2. CASE \E N : Ended(N, m, smp)
  BY <1>2, TimerEnded
<1> QED BY <1>1, <1>2 DEF ib_mad_complete_send_wr

(* The timer when a MAD is put in the FIFO. *)
LEMMA TimerPost ==
    ASSUME MadSendAssumption, TimerInv, NEW m \in Mads, PostSa(m)
    PROVE  TimerInv'
<1>0. cc \in CcType /\ Elems(cc.fifo) \subseteq Elems(cc.to) /\ TimerArmed
  BY DEF TimerInv
<1>00. cc.outstanding \in Nat /\ cc.fifo \in Seq(Mads) /\ cc.to \in Seq(Mads)
  BY <1>0, CcFields
<1>1. CASE cc' = [cc EXCEPT !.outstanding = @ + 1]
  <2>1. PICK x : x = cc.outstanding + 1
    OBVIOUS
  <2>2. x \in Nat
    BY <1>00, <2>1
  <2>3. cc' = [cc EXCEPT !.outstanding = x]
    BY <1>1, <2>1
  <2>4. /\ cc' \in CcType /\ cc'.fifo = cc.fifo /\ cc'.to = cc.to /\ cc'.timer = cc.timer
        /\ cc'.work = cc.work /\ cc'.running = cc.running
    BY <1>0, <2>2, <2>3 DEF CcType
  <2> QED BY <1>0, <2>4 DEF TimerInv, TimerArmed
<1>2. CASE cc' = cc
  BY <1>2 DEF TimerInv, TimerArmed
<1>3. CASE \E i \in 0..Len(cc.to) : tf_enqueue(m, i)
  <2>1. PICK i \in 0..Len(cc.to) : tf_enqueue(m, i)
    BY <1>3
  <2>2. PICK f, t, x : /\ f = Append(cc.fifo, m) /\ t = InsertAt(cc.to, i, m)
                       /\ x = IF i = 0 THEN m ELSE cc.timer
    OBVIOUS
  <2>3. /\ f \in Seq(Mads) /\ Elems(f) = Elems(cc.fifo) \cup {m}
        /\ t \in Seq(Mads) /\ Elems(t) = Elems(cc.to) \cup {m}
    BY <1>00, <2>2, AppendElems, InsertElems
  <2>4. x \in Mads \cup {NoMad} /\ (i = 0 => x = m) /\ (i # 0 => x = cc.timer)
    BY <1>0, <2>2, CcFields
  <2>5. i # 0 => cc.to # <<>>
    BY <1>00
  <2>6. cc' = [cc EXCEPT !.fifo = f, !.to = t, !.timer = x]
    BY <2>1, <2>2 DEF tf_enqueue
  <2>7. /\ cc' \in CcType /\ cc'.fifo = f /\ cc'.to = t /\ cc'.timer = x
        /\ cc'.work = cc.work /\ cc'.running = cc.running
    BY <1>0, <2>3, <2>4, <2>6 DEF CcType
  <2>8. TimerArmed'
    BY <1>0, <2>4, <2>5, <2>7, MadSendAssumption DEF TimerArmed, MadSendAssumption
  <2> QED BY <1>0, <2>3, <2>7, <2>8 DEF TimerInv
<1> QED BY <1>1, <1>2, <1>3 DEF PostSa

(* The timer when the FIFO is walked, cancelled from, modified or freed. *)
LEMMA TimerExpire ==
    ASSUME MadSendAssumption, TimerInv, NEW k \in 0..Len(cc.to), ExpireCut(k)
    PROVE  TimerInv'
<1>0. cc \in CcType /\ Elems(cc.fifo) \subseteq Elems(cc.to) /\ TimerArmed
  BY DEF TimerInv
<1>00. /\ cc.fifo \in Seq(Mads) /\ cc.to \in Seq(Mads) /\ cc.running \in BOOLEAN
       /\ cc.timer \in Mads \cup {NoMad} /\ cc.work \in Mads \cup {NoMad}
  BY <1>0, CcFields
<1>1. PICK E, f, t, w, r, x :
         /\ E = {cc.to[i] : i \in 1..k} /\ f = Without(cc.fifo, E) /\ t = Without(cc.to, E)
         /\ w = (IF cc.running THEN cc.work ELSE NoMad) /\ r = (k > 0)
         /\ x = IF k = 0 /\ cc.to # <<>> THEN Head(cc.to) ELSE cc.timer
  OBVIOUS
<1>2. /\ f \in Seq(Mads) /\ Elems(f) = Elems(cc.fifo) \ E
      /\ t \in Seq(Mads) /\ Elems(t) = Elems(cc.to) \ E
  BY <1>00, <1>1, WithoutElems
<1>3. w \in Mads \cup {NoMad} /\ r \in BOOLEAN
  BY <1>00, <1>1
<1>4. cc.to # <<>> => Head(cc.to) \in Mads
  BY <1>00, TailElems
<1>5. x \in Mads \cup {NoMad} /\ (k = 0 /\ cc.to # <<>> => x \in Mads)
  BY <1>00, <1>1, <1>4
<1>6. cc' = [cc EXCEPT !.fifo = f, !.to = t, !.work = w, !.running = r, !.timer = x]
  BY <1>1 DEF ExpireCut
<1>7. /\ cc' \in CcType /\ cc'.fifo = f /\ cc'.to = t /\ cc'.timer = x
      /\ cc'.work = w /\ cc'.running = r
  BY <1>0, <1>2, <1>3, <1>5, <1>6 DEF CcType
<1>8. t # <<>> => cc.to # <<>>
  BY <1>00, <1>2, EmptyElems
<1>9. k = 0 \/ r
  <2>1. k = 0 \/ k > 0
    OBVIOUS
  <2>2. r = (k > 0)
    BY <1>1
  <2> QED BY <2>1, <2>2, Zenon
<1>10. TimerArmed'
  BY <1>5, <1>7, <1>8, <1>9, MadSendAssumption DEF TimerArmed, MadSendAssumption
<1> QED BY <1>0, <1>2, <1>7, <1>10 DEF TimerInv

(* The timer when an entry of the FIFO is cancelled. *)
LEMMA TimerCancelItem ==
    ASSUME MadSendAssumption, TimerInv, NEW m \in Mads, tf_cancel_item(m)
    PROVE  TimerInv'
<1>0. cc \in CcType /\ Elems(cc.fifo) \subseteq Elems(cc.to)
  BY DEF TimerInv
<1>00. cc.fifo \in Seq(Mads) /\ cc.to \in Seq(Mads) /\ cc.late \in Mads \cup {NoMad}
  BY <1>0, CcFields
<1>1. PICK p, g, l : /\ p = Without(cc.to, {m}) /\ g = Without(cc.fifo, {m})
                     /\ l = IF cc.late = m THEN NoMad ELSE cc.late
  OBVIOUS
<1>2. /\ p \in Seq(Mads) /\ Elems(p) = Elems(cc.to) \ {m}
      /\ g \in Seq(Mads) /\ Elems(g) = Elems(cc.fifo) \ {m}
  BY <1>00, <1>1, WithoutElems
<1>3. PICK f, t : t = <<m>> \o p /\ f = Append(g, m)
  OBVIOUS
<1>4. /\ t \in Seq(Mads) /\ Elems(t) = Elems(p) \cup {m}
      /\ f \in Seq(Mads) /\ Elems(f) = Elems(g) \cup {m}
  BY <1>2, <1>3, ConsElems, AppendElems
<1>5. l \in Mads \cup {NoMad}
  BY <1>00, <1>1
<1>6. cc' = [cc EXCEPT !.to = t, !.fifo = f, !.timer = m, !.late = l]
  BY <1>1, <1>3 DEF tf_cancel_item
<1>7. cc' \in CcType /\ cc'.fifo = f /\ cc'.to = t /\ cc'.timer = m
  BY <1>0, <1>4, <1>5, <1>6 DEF CcType
<1> QED BY <1>0, <1>2, <1>4, <1>7, MadSendAssumption DEF TimerInv, TimerArmed, MadSendAssumption

(* The timer when a MAD is cancelled. *)
LEMMA TimerCancel ==
    ASSUME MadSendAssumption, TimerInv, NEW m \in Mads, CancelMad(m)
    PROVE  TimerInv'
<1>1. CASE cc' = cc
  BY <1>1 DEF TimerInv, TimerArmed
<1> QED BY <1>1, TimerCancelItem DEF CancelMad

(* The timer when the timeout of a MAD is modified. *)
LEMMA TimerModify ==
    ASSUME MadSendAssumption, TimerInv, NEW m \in Mads, ModifyMad(m)
    PROVE  TimerInv'
<1>0. cc \in CcType /\ Elems(cc.fifo) \subseteq Elems(cc.to) /\ TimerArmed
  BY DEF TimerInv
<1>00. /\ cc.fifo \in Seq(Mads) /\ cc.to \in Seq(Mads) /\ cc.timer \in Mads \cup {NoMad}
       /\ cc.late \in Mads \cup {NoMad}
  BY <1>0, CcFields
<1>1. PICK p, b : p = Without(cc.to, {m}) /\ b = TRUE
  OBVIOUS
<1>2. p \in Seq(Mads) /\ Elems(p) = Elems(cc.to) \ {m} /\ b \in BOOLEAN
  BY <1>00, <1>1, WithoutElems
<1>3. CASE cc' = [cc EXCEPT !.modified = TRUE]
  <2>1. cc' = [cc EXCEPT !.modified = b]
    BY <1>1, <1>3
  <2>2. /\ cc' \in CcType /\ cc'.fifo = cc.fifo /\ cc'.to = cc.to /\ cc'.timer = cc.timer
        /\ cc'.work = cc.work /\ cc'.running = cc.running
    BY <1>0, <1>2, <2>1 DEF CcType
  <2> QED BY <1>0, <2>2 DEF TimerInv, TimerArmed
<1>4. CASE \E i \in 0..Len(p) :
              cc' = [cc EXCEPT !.to = InsertAt(p, i, m), !.timer = IF i = 0 THEN m ELSE @,
                               !.late = IF mad[m].canceled THEN m ELSE @, !.modified = TRUE]
  <2>1. PICK i \in 0..Len(p) :
           cc' = [cc EXCEPT !.to = InsertAt(p, i, m), !.timer = IF i = 0 THEN m ELSE @,
                            !.late = IF mad[m].canceled THEN m ELSE @, !.modified = TRUE]
    BY <1>4
  <2>2. PICK t, x, l : /\ t = InsertAt(p, i, m) /\ x = (IF i = 0 THEN m ELSE cc.timer)
                       /\ l = IF mad[m].canceled THEN m ELSE cc.late
    OBVIOUS
  <2>3. t \in Seq(Mads) /\ Elems(t) = Elems(p) \cup {m}
    BY <1>2, <2>2, InsertElems
  <2>4. x \in Mads \cup {NoMad} /\ (i = 0 => x = m) /\ (i # 0 => x = cc.timer)
    BY <1>00, <2>2
  <2>5. l \in Mads \cup {NoMad}
    BY <1>00, <2>2
  <2>6. i # 0 => cc.to # <<>>
    <3>1. i # 0 => p # <<>>
      BY <1>2
    <3> QED BY <1>00, <1>2, <3>1, EmptyElems
  <2>7. cc' = [cc EXCEPT !.to = t, !.timer = x, !.late = l, !.modified = b]
    BY <1>1, <2>1, <2>2
  <2>8. /\ cc' \in CcType /\ cc'.fifo = cc.fifo /\ cc'.to = t /\ cc'.timer = x
        /\ cc'.work = cc.work /\ cc'.running = cc.running
    BY <1>0, <1>2, <2>3, <2>4, <2>5, <2>7 DEF CcType
  <2>9. TimerArmed'
    BY <1>0, <2>4, <2>6, <2>8, MadSendAssumption DEF TimerArmed, MadSendAssumption
  <2> QED BY <1>0, <1>2, <2>3, <2>8, <2>9 DEF TimerInv
<1> QED BY <1>1, <1>3, <1>4, TimerCancelItem DEF ModifyMad

(* The timer when the FIFO is freed of an agent's MADs. *)
LEMMA TimerUnreg ==
    ASSUME TimerInv, NEW a, UnregCc(a)
    PROVE  TimerInv'
<1>0. cc \in CcType /\ Elems(cc.fifo) \subseteq Elems(cc.to) /\ TimerArmed
  BY DEF TimerInv
<1>00. cc.fifo \in Seq(Mads) /\ cc.to \in Seq(Mads)
  BY <1>0, CcFields
<1>1. PICK E : cc' = [cc EXCEPT !.fifo = Without(@, E), !.to = Without(@, E)]
  BY DEF UnregCc
<1>2. PICK f, t : f = Without(cc.fifo, E) /\ t = Without(cc.to, E)
  OBVIOUS
<1>3. /\ f \in Seq(Mads) /\ Elems(f) = Elems(cc.fifo) \ E
      /\ t \in Seq(Mads) /\ Elems(t) = Elems(cc.to) \ E
  BY <1>00, <1>2, WithoutElems
<1>4. t # <<>> => cc.to # <<>>
  BY <1>00, <1>3, EmptyElems
<1>5. cc' = [cc EXCEPT !.fifo = f, !.to = t]
  BY <1>1, <1>2
<1>6. /\ cc' \in CcType /\ cc'.fifo = f /\ cc'.to = t /\ cc'.timer = cc.timer
      /\ cc'.work = cc.work /\ cc'.running = cc.running
  BY <1>0, <1>3, <1>5 DEF CcType
<1> QED BY <1>0, <1>3, <1>4, <1>6 DEF TimerInv, TimerArmed

(* TimerInv is inductive by itself. *)
LEMMA TimerStep ==
    ASSUME MadSendAssumption, TimerInv, [Next]_vars
    PROVE  TimerInv'
<1>0. CASE cc' = cc
  BY <1>0 DEF TimerInv, TimerArmed
<1>1. CASE Client
  <2>1. PICK m \in Mads : PostSa(m) \/ PostSmp(m) \/ CancelMad(m) \/ ModifyMad(m) \/ Response(m)
    BY <1>1 DEF Client
  <2>2. CASE PostSmp(m) \/ Response(m)
    BY <1>0, <2>2 DEF PostSmp, Response
  <2> QED BY <2>1, <2>2, TimerPost, TimerCancel, TimerModify
<1>2. CASE TimerFire
  <2>0. cc \in CcType /\ Elems(cc.fifo) \subseteq Elems(cc.to) /\ cc.timer \in Mads \cup {NoMad}
    BY CcFields DEF TimerInv
  <2>1. PICK x, n : x = cc.timer /\ n = NoMad
    OBVIOUS
  <2>2. cc' = [cc EXCEPT !.timer = n, !.work = x] /\ x # NoMad
    BY <1>2, <2>1 DEF TimerFire
  <2>3. x \in Mads \cup {NoMad} /\ n \in Mads \cup {NoMad}
    BY <2>0, <2>1
  <2>4. cc' \in CcType /\ cc'.fifo = cc.fifo /\ cc'.to = cc.to /\ cc'.work = x
    BY <2>0, <2>2, <2>3 DEF CcType
  <2> QED BY <2>0, <2>2, <2>4 DEF TimerInv, TimerArmed
<1>3. CASE \E k \in 0..Len(cc.to) : ExpireCut(k)
  BY <1>3, TimerExpire
<1>4. ASSUME NEW m \in Mads, MadStep(m) PROVE TimerInv'
  <2>1. CASE SendHanded(m)
    BY <1>0, <2>1, TimerDone DEF SendHanded
  <2>2. CASE SmpPost(m) \/ ExpireNotify(m)
    BY <1>0, <2>2 DEF SmpPost, ExpireNotify
  <2>3. CASE SendDone(m)
    <3>1. \E M : ib_mad_complete_send_wr(M, m, "ok")
      BY <2>3 DEF SendDone
    <3> QED BY <3>1, TimerPut
  <2>4. CASE Complete(m)
    BY <2>4, TimerPut DEF Complete
  <2>5. CASE TimeoutSends(m)
    BY <1>0, <2>5, TimerEnded DEF TimeoutSends
  <2>6. CASE UnregReport(m)
    BY <1>0, <2>6, TimerEnded DEF UnregReport
  <2> QED BY <1>4, <2>1, <2>2, <2>3, <2>4, <2>5, <2>6 DEF MadStep
<1>5. ASSUME NEW a \in Agents, Cancel(a) PROVE TimerInv'
  <2>1. CASE UnregClose(a) \/ UnregOverflow(a)
    BY <1>0, <2>1 DEF UnregClose, UnregOverflow
  <2> QED BY <1>5, <2>1, TimerUnreg DEF Cancel
<1>6. CASE UNCHANGED vars
  BY <1>0, <1>6 DEF vars
<1> QED BY <1>1, <1>2, <1>3, <1>4, <1>5, <1>6 DEF Next, Timer, Expire

(* The queues are empty at first. *)
LEMMA TimerInit == ASSUME Init PROVE TimerInv
<1>1. PICK e, n : e = <<>> /\ n = NoMad
  OBVIOUS
<1>2. e \in Seq(Mads) /\ n \in Mads \cup {NoMad}
  BY <1>1
<1>3. cc = [outstanding |-> 0, fifo |-> e, to |-> e, timer |-> n, work |-> n,
            running |-> FALSE, late |-> n, modified |-> FALSE, fault |-> FALSE]
  BY <1>1 DEF Init
<1>4. cc \in CcType /\ cc.fifo = e /\ cc.to = e
  BY <1>2, <1>3 DEF CcType
<1> QED BY <1>1, <1>4 DEF TimerInv, TimerArmed

(* The FIFO is never left without its timer (tf_dequeue(), tf_enqueue(),     *)
(* tf_modify_item(), timeout_handler_task()), whatever fails and whoever     *)
(* unregisters, and also in the fault of tf_dequeue().                       *)
THEOREM TimerAlwaysArmed == Spec => []TimerArmed
<1>1. Init => TimerInv
  BY TimerInit
<1>2. TimerInv /\ [Next]_vars => TimerInv'
  BY TimerStep, MadSendAssumption
<1>3. TimerInv => TimerArmed
  BY DEF TimerInv
<1> QED BY <1>1, <1>2, <1>3, PTL DEF Spec
-----------------------------------------------------------------------------
(* THE QUEUES WHEN MADS CHANGE *)

(* What a queue does not see of a change of a MAD from x to y. *)
KeepsCc(c, x, y) ==
    /\ Sa(c, x) <=> Sa(c, y)
    /\ x.place = "cc" => y.place = "cc" /\ y.canceled = x.canceled
KeepsSmp(c, x, y) ==
    /\ Sm(c, x) <=> Sm(c, y)
    /\ x.hw = "smpover" => y.hw = "smpover"
KeepsOut(x, y) == x.hw = "smpout" => y.hw = "smpout"
KeepsQp(x, y) == x.hw = "qover" => y.hw = "qover"
Keeps(c, x, y) == KeepsCc(c, x, y) /\ KeepsSmp(c, x, y) /\ KeepsOut(x, y) /\ KeepsQp(x, y)

(* Holders are counted. *)
LEMMA Counting ==
    ASSUME NEW H \in SUBSET Mads
    PROVE  /\ Cardinality(H) \in Nat
           /\ \A m \in H : Cardinality(H) = Cardinality(H \ {m}) + 1
<1>1. IsFiniteSet(H)
  BY MadSendAssumption, FS_Subset DEF MadSendAssumption
<1>2. Cardinality(H) \in Nat
  BY <1>1, FS_CardinalityType
<1>3. ASSUME NEW m \in H PROVE Cardinality(H) = Cardinality(H \ {m}) + 1
  <2>1. Cardinality(H \ {m}) = Cardinality(H) - 1
    BY <1>1, FS_RemoveElement
  <2> QED BY <1>2, <2>1
<1> QED BY <1>2, <1>3

(* One MAD of M is no holder any more in M2. *)
LEMMA SaLoses ==
    ASSUME NEW M, NEW M2, NEW m \in Mads, Sa(class[m], M[m]), ~Sa(class[m], M2[m]),
           \A j \in Mads : j # m => (Sa(class[j], M[j]) <=> Sa(class[j], M2[j]))
    PROVE  /\ Cardinality(SaHold(M2)) \in Nat
           /\ Cardinality(SaHold(M)) = Cardinality(SaHold(M2)) + 1
<1>1. SaHold(M2) = SaHold(M) \ {m} /\ m \in SaHold(M)
  BY DEF SaHold
<1>2. SaHold(M) \in SUBSET Mads /\ SaHold(M2) \in SUBSET Mads
  BY DEF SaHold
<1> HIDE DEF SaHold
<1> QED BY <1>1, <1>2, Counting

(* The same of the SMP window. *)
LEMMA SmLoses ==
    ASSUME NEW M, NEW M2, NEW m \in Mads, Sm(class[m], M[m]), ~Sm(class[m], M2[m]),
           \A j \in Mads : j # m => (Sm(class[j], M[j]) <=> Sm(class[j], M2[j]))
    PROVE  /\ Cardinality(SmpHold(M2)) \in Nat
           /\ Cardinality(SmpHold(M)) = Cardinality(SmpHold(M2)) + 1
<1>1. SmpHold(M2) = SmpHold(M) \ {m} /\ m \in SmpHold(M)
  BY DEF SmpHold
<1>2. SmpHold(M) \in SUBSET Mads /\ SmpHold(M2) \in SUBSET Mads
  BY DEF SmpHold
<1> QED BY <1>1, <1>2, Counting

(* The FIFO does not see a change. *)
LEMMA CcKept ==
    ASSUME NEW M, NEW M2, NEW k \in CcType, NEW n, Elems(k.fifo) \subseteq Elems(k.to),
           CcInv(M, k, n), \A j \in Mads : KeepsCc(class[j], M[j], M2[j])
    PROVE  CcInv(M2, k, n)
<1>1. SaHold(M2) = SaHold(M)
  BY DEF SaHold, KeepsCc
<1>2. Elems(k.to) \subseteq Mads
  <2>1. k.to \in Seq(Mads)
    BY DEF CcType
  <2> QED BY <2>1, EmptyElems
<1>3. \A m \in Elems(k.to) : M2[m].place = "cc" /\ M2[m].canceled = M[m].canceled
  BY <1>2 DEF CcInv, KeepsCc
<1>4. \A m \in Elems(k.fifo) : M2[m].canceled \/ k.outstanding = SaWindow
  BY <1>3 DEF CcInv
<1> QED BY <1>1, <1>3, <1>4 DEF CcInv

(* A MAD gives up its permit: one more is out. *)
LEMMA CcDrops ==
    ASSUME NEW M, NEW M2, NEW k \in CcType, Elems(k.fifo) \subseteq Elems(k.to),
           CcInv(M, k, 0), NEW m \in Mads,
           Sa(class[m], M[m]), ~Sa(class[m], M2[m]), M[m].place # "cc",
           \A j \in Mads : j # m => KeepsCc(class[j], M[j], M2[j])
    PROVE  CcInv(M2, k, 1)
<1>1. /\ Cardinality(SaHold(M2)) \in Nat
      /\ Cardinality(SaHold(M)) = Cardinality(SaHold(M2)) + 1
  BY SaLoses DEF KeepsCc
<1>2. Elems(k.to) \subseteq Mads /\ k.outstanding \in Nat
  <2>1. k.to \in Seq(Mads) /\ k.outstanding \in Nat
    BY DEF CcType
  <2> QED BY <2>1, EmptyElems
<1>3. \A j \in Elems(k.to) : M2[j].place = "cc" /\ M2[j].canceled = M[j].canceled
  BY <1>2 DEF CcInv, KeepsCc
<1>4. \A j \in Elems(k.fifo) : M2[j].canceled \/ k.outstanding = SaWindow
  BY <1>3 DEF CcInv
<1>5. k.outstanding = Cardinality(SaHold(M)) + 0 /\ k.outstanding <= SaWindow
  BY DEF CcInv
<1>6. k.outstanding = Cardinality(SaHold(M2)) + 1
  BY <1>1, <1>2, <1>5
<1> QED BY <1>3, <1>4, <1>5, <1>6 DEF CcInv

(* The SMP window does not see a change. *)
LEMMA SmpKept ==
    ASSUME NEW M, NEW M2, NEW w, NEW n, SmpInv(M, w, n),
           \A j \in Mads : KeepsSmp(class[j], M[j], M2[j])
    PROVE  SmpInv(M2, w, n)
<1>1. SmpHold(M2) = SmpHold(M)
  BY DEF SmpHold, KeepsSmp
<1>2. Elems(w.overflow) \subseteq Mads
  <2>1. w.overflow \in Seq(Mads)
    BY DEF SmpInv, SmpType
  <2> QED BY <2>1, EmptyElems
<1> QED BY <1>1, <1>2 DEF SmpInv, KeepsSmp

(* A MAD gives up its place in the SMP window. *)
LEMMA SmpDrops ==
    ASSUME NEW M, NEW M2, NEW w, SmpInv(M, w, 0), NEW m \in Mads,
           Sm(class[m], M[m]), ~Sm(class[m], M2[m]), M[m].hw # "smpover",
           \A j \in Mads : j # m => KeepsSmp(class[j], M[j], M2[j])
    PROVE  SmpInv(M2, w, 1)
<1>1. /\ Cardinality(SmpHold(M2)) \in Nat
      /\ Cardinality(SmpHold(M)) = Cardinality(SmpHold(M2)) + 1
  BY SmLoses DEF KeepsSmp
<1>2. Elems(w.overflow) \subseteq Mads
  <2>1. w.overflow \in Seq(Mads)
    BY DEF SmpInv, SmpType
  <2> QED BY <2>1, EmptyElems
<1>3. \A j \in Elems(w.overflow) : M2[j].hw = "smpover"
  BY <1>2 DEF SmpInv, KeepsSmp
<1>4. Span(Cardinality(SmpHold(M)) + 0, w)
  BY DEF SmpInv
<1>5. Cardinality(SmpHold(M)) + 0 = Cardinality(SmpHold(M2)) + 1
  BY <1>1
<1>6. Span(Cardinality(SmpHold(M2)) + 1, w)
  BY <1>4, <1>5
<1> QED BY <1>3, <1>6 DEF SmpInv

(* Who waits for the window does not see a change. *)
LEMMA MovesKept ==
    ASSUME NEW M, NEW M2, NEW w, SmpMoves(M, w),
           \A j \in Mads : KeepsSmp(class[j], M[j], M2[j]) /\ KeepsOut(M[j], M2[j])
    PROVE  SmpMoves(M2, w)
<1>1. SmpHold(M2) = SmpHold(M)
  BY DEF SmpHold, KeepsSmp
<1>2. \A j \in Mads : M[j].hw = "smpout" => M2[j].hw = "smpout"
  BY DEF KeepsOut
<1> QED BY <1>1, <1>2 DEF SmpMoves

(* The QP does not see a change. *)
LEMMA QpKept ==
    ASSUME NEW M, NEW M2, NEW ov, QpInv(M, ov), \A j \in Mads : KeepsQp(M[j], M2[j])
    PROVE  QpInv(M2, ov)
<1>1. ASSUME NEW c \in QpOf PROVE Elems(ov[c]) \subseteq Mads
  <2>1. ov[c] \in Seq(Mads)
    BY DEF QpInv
  <2> QED BY <2>1, EmptyElems
<1> QED BY <1>1 DEF QpInv, KeepsQp

(* No queue sees a change. *)
LEMMA QueuesKept ==
    ASSUME NEW M, NEW M2, NEW k \in CcType, NEW w, NEW ov,
           Elems(k.fifo) \subseteq Elems(k.to),
           Queues(M, k, w, ov), \A j \in Mads : Keeps(class[j], M[j], M2[j])
    PROVE  Queues(M2, k, w, ov)
<1>1. CcInv(M2, k, 0)
  BY CcKept DEF Queues, Keeps
<1>2. SmpInv(M2, w, 0)
  BY SmpKept DEF Queues, Keeps
<1>3. SmpMoves(M2, w)
  BY MovesKept DEF Queues, Keeps
<1>4. QpInv(M2, ov)
  BY QpKept DEF Queues, Keeps
<1> QED BY <1>1, <1>2, <1>3, <1>4 DEF Queues
-----------------------------------------------------------------------------
(* A MAD ENDS *)

(* The fields of a MAD. *)
LEMMA MadFields ==
    ASSUME NEW x \in MadType
    PROVE  /\ x.place \in Places /\ x.refcount \in Int /\ x.live \in BOOLEAN /\ x.hw \in Hws
           /\ x.status \in Results /\ x.retries_left \in Nat /\ x.canceled \in BOOLEAN
           /\ x.sent \in BOOLEAN /\ x.resp \in BOOLEAN /\ x.told \in Nat
BY DEF MadType

(* A MAD takes another place. *)
LEMMA PlaceSet ==
    ASSUME NEW x \in MadType, NEW p \in Places, NEW y, y = [x EXCEPT !.place = p]
    PROVE  /\ y \in MadType /\ y.place = p /\ y.refcount = x.refcount /\ y.live = x.live
           /\ y.hw = x.hw /\ y.status = x.status /\ y.canceled = x.canceled
           /\ y.resp = x.resp /\ y.told = x.told
BY DEF MadType

(* The client is told of a MAD. *)
LEMMA TellFields ==
    ASSUME NEW x \in MadType, x.told = 0, NEW y, y = Tell(x)
    PROVE  /\ y \in MadType /\ y.place = "gone" /\ y.told = 1 /\ y.hw = x.hw
           /\ y.resp = x.resp /\ y.refcount = x.refcount
<1>1. PICK n : n = x.told + 1
  OBVIOUS
<1>2. n \in Nat /\ n = 1
  BY <1>1
<1>3. y = [x EXCEPT !.place = "gone", !.told = n]
  BY <1>1 DEF Tell
<1> QED BY <1>2, <1>3 DEF MadType, Places

(* A MAD gets another status. *)
LEMMA StatusSet ==
    ASSUME NEW x \in MadType, NEW t \in Results, NEW y, y = [x EXCEPT !.status = t]
    PROVE  /\ y \in MadType /\ y.status = t /\ y.place = x.place /\ y.refcount = x.refcount
           /\ y.live = x.live /\ y.hw = x.hw /\ y.canceled = x.canceled
           /\ y.resp = x.resp /\ y.told = x.told
BY DEF MadType

(* A MAD with a permit that nothing has any more. *)
Leaving(x) == /\ x.place \in {"handed", "list", "wait", "done", "cancel"}
              /\ x.hw = "none" /\ ~x.resp /\ x.told = 0 /\ x.refcount \in 0..2

(* sa_cc_mad_done() passes the permit of a MAD that ends on, takes it back,  *)
(* or is caught in the fault with it.                                        *)
LEMMA SaDone ==
    ASSUME AgentInv, TimerInv, NEW M \in [Mads -> MadType], NEW m \in Mads, NEW w, NEW ov,
           class[m] = "sa", \A j \in Mads : j # m => Good(class[j], M[j]), Leaving(M[m]),
           Queues(M, cc, w, ov), sa_cc_mad_done(M, m)
    PROVE  Goods(mad') /\ Queues(mad', cc', w, ov)
<1>0. /\ cc \in CcType /\ Elems(cc.fifo) \subseteq Elems(cc.to) /\ cc.outstanding \in Nat
      /\ cc.fifo \in Seq(Mads) /\ cc.to \in Seq(Mads)
  BY CcFields DEF TimerInv
<1>01. Elems(cc.to) \subseteq Mads
  BY <1>0, EmptyElems
<1>02. M[m] \in MadType
  OBVIOUS
<1>1. PICK y : y = Tell(M[m])
  OBVIOUS
<1>2. /\ y \in MadType /\ y.place = "gone" /\ y.told = 1 /\ y.hw = "none" /\ ~y.resp
      /\ y.refcount \in 0..2
  <2>1. /\ y \in MadType /\ y.place = "gone" /\ y.told = 1 /\ y.hw = M[m].hw
        /\ y.resp = M[m].resp /\ y.refcount = M[m].refcount
    BY <1>02, <1>1, TellFields DEF Leaving
  <2> QED BY <2>1 DEF Leaving
<1>3. Good(class[m], y)
  BY <1>2 DEF Good, One
<1>4. PICK M1 : M1 = [M EXCEPT ![m] = Tell(@)]
  OBVIOUS
<1>5. M1 \in [Mads -> MadType] /\ M1[m] = y /\ \A j \in Mads : j # m => M1[j] = M[j]
  BY <1>1, <1>2, <1>4
<1>6. Goods(M1)
  BY <1>3, <1>5 DEF Goods
<1>7. CcInv(M1, cc, 1)
  <2>1. Sa(class[m], M[m]) /\ ~Sa(class[m], M1[m]) /\ M[m].place # "cc"
    BY <1>2, <1>5 DEF Sa, Leaving
  <2>2. \A j \in Mads : j # m => KeepsCc(class[j], M[j], M1[j])
    BY <1>5 DEF KeepsCc
  <2>3. CcInv(M, cc, 0)
    BY DEF Queues
  <2> QED BY <1>0, <2>1, <2>2, <2>3, CcDrops
<1>8. SmpInv(M1, w, 0) /\ SmpMoves(M1, w) /\ QpInv(M1, ov)
  <2>1. \A j \in Mads : /\ KeepsSmp(class[j], M[j], M1[j]) /\ KeepsOut(M[j], M1[j])
                        /\ KeepsQp(M[j], M1[j])
    BY <1>2, <1>5 DEF KeepsSmp, KeepsOut, KeepsQp, Sm, Leaving
  <2> QED BY <2>1, SmpKept, MovesKept, QpKept DEF Queues
<1>9. /\ cc.outstanding = Cardinality(SaHold(M1)) + 1 /\ cc.outstanding <= SaWindow
      /\ \A j \in Elems(cc.to) : M1[j].place = "cc"
      /\ \A j \in Elems(cc.fifo) : M1[j].canceled \/ cc.outstanding = SaWindow
  BY <1>7 DEF CcInv
<1>10. Cardinality(SaHold(M1)) \in Nat
  <2>1. SaHold(M1) \in SUBSET Mads
    BY DEF SaHold
  <2> QED BY <2>1, Counting
<1>11. ASSUME NEW n \in Elems(cc.fifo),
              mad' = [M EXCEPT ![m] = Tell(@), ![n].place = "handed"],
              cc' = [cc EXCEPT !.fifo = Without(@, {n}), !.to = Without(@, {n}),
                               !.timer = TimerWithout(n)]
       PROVE  Goods(mad') /\ Queues(mad', cc', w, ov)
  <2>1. n \in Mads /\ M1[n].place = "cc" /\ M1[n] \in MadType /\ Good(class[n], M1[n])
    BY <1>0, <1>01, <1>6, <1>9 DEF Goods
  <2>2. n # m
    BY <1>2, <1>5, <2>1
  <2>3. class[n] = "sa" /\ M1[n].hw = "none"
    BY <2>1 DEF Good
  <2>4. PICK z : z = [M1[n] EXCEPT !.place = "handed"]
    OBVIOUS
  <2>5. mad' = [M1 EXCEPT ![n] = z]
    <3>1. mad' = [M1 EXCEPT ![n].place = "handed"]
      BY <1>11, <1>4
    <3> QED BY <2>4, <3>1
  <2>6. /\ z \in MadType /\ z.place = "handed" /\ z.refcount = M1[n].refcount
        /\ z.live = M1[n].live /\ z.hw = M1[n].hw /\ z.status = M1[n].status
        /\ z.resp = M1[n].resp /\ z.told = M1[n].told
    <3>1. "handed" \in Places
      BY DEF Places
    <3> QED BY <2>1, <2>4, <3>1, PlaceSet
  <2>7. Good(class[n], z)
    BY <2>1, <2>3, <2>6 DEF Good, One
  <2>8. /\ mad' \in [Mads -> MadType] /\ mad'[n] = z
        /\ \A j \in Mads : j # n => mad'[j] = M1[j]
    BY <1>5, <2>1, <2>5, <2>6
  <2>9. Goods(mad')
    BY <1>6, <2>7, <2>8 DEF Goods
  <2>10. ~Sa(class[n], M1[n]) /\ Sa(class[n], mad'[n])
    BY <2>1, <2>3, <2>6, <2>8 DEF Sa
  <2>11. Cardinality(SaHold(mad')) = Cardinality(SaHold(M1)) + 1
    BY <2>1, <2>8, <2>10, SaLoses
  <2>12. PICK f, t, x : f = Without(cc.fifo, {n}) /\ t = Without(cc.to, {n}) /\ x = TimerWithout(n)
    OBVIOUS
  <2>13. Elems(f) = Elems(cc.fifo) \ {n} /\ Elems(t) = Elems(cc.to) \ {n}
    BY <1>0, <2>12, WithoutElems
  <2>14. cc' = [cc EXCEPT !.fifo = f, !.to = t, !.timer = x]
    BY <1>11, <2>12
  <2>15. cc'.fifo = f /\ cc'.to = t /\ cc'.outstanding = cc.outstanding
    BY <1>0, <2>14 DEF CcType
  <2>16. CcInv(mad', cc', 0)
    <3>1. \A j \in Elems(t) : mad'[j].place = "cc"
      BY <1>01, <1>9, <2>8, <2>13
    <3>2. \A j \in Elems(f) : mad'[j].canceled \/ cc.outstanding = SaWindow
      BY <1>0, <1>01, <1>9, <2>8, <2>13
    <3>3. cc.outstanding = Cardinality(SaHold(mad')) + 0
      BY <1>0, <1>9, <1>10, <2>11
    <3> QED BY <1>9, <2>15, <3>1, <3>2, <3>3 DEF CcInv
  <2>17. \A j \in Mads : /\ KeepsSmp(class[j], M1[j], mad'[j]) /\ KeepsQp(M1[j], mad'[j])
                         /\ KeepsOut(M1[j], mad'[j])
    BY <2>1, <2>3, <2>6, <2>8 DEF KeepsSmp, KeepsQp, KeepsOut, Sm
  <2>18. SmpInv(mad', w, 0) /\ SmpMoves(mad', w) /\ QpInv(mad', ov)
    BY <1>8, <2>17, SmpKept, MovesKept, QpKept
  <2> QED BY <2>9, <2>16, <2>18 DEF Queues
<1>12. ASSUME \A n \in Elems(cc.fifo) : M[n].canceled,
              mad' = [M EXCEPT ![m] = Tell(@)], cc' = [cc EXCEPT !.outstanding = Less(@)]
       PROVE  Goods(mad') /\ Queues(mad', cc', w, ov)
  <2>1. PICK x : x = Less(cc.outstanding)
    OBVIOUS
  <2>2. x = cc.outstanding - 1
    BY <1>0, <1>9, <1>10, <2>1 DEF Less
  <2>3. cc' = [cc EXCEPT !.outstanding = x]
    BY <1>12, <2>1
  <2>4. cc'.fifo = cc.fifo /\ cc'.to = cc.to /\ cc'.outstanding = x
    BY <1>0, <2>3 DEF CcType
  <2>5. x = Cardinality(SaHold(M1)) + 0 /\ x <= SaWindow
    BY <1>0, <1>9, <1>10, <2>2, MadSendAssumption DEF MadSendAssumption
  <2>6. \A j \in Elems(cc.fifo) : M1[j].canceled
    <3>1. \A j \in Elems(cc.fifo) : j \in Mads /\ j # m
      BY <1>0, <1>01, <1>2, <1>5, <1>9
    <3> QED BY <1>12, <1>5, <3>1
  <2>7. CcInv(M1, cc', 0)
    BY <1>9, <2>4, <2>5, <2>6 DEF CcInv
  <2>8. mad' = M1
    BY <1>12, <1>4
  <2> QED BY <1>6, <1>8, <2>7, <2>8 DEF Queues
<1>13. ASSUME mad' = [M EXCEPT ![m].place = "stuck"], cc' = [cc EXCEPT !.fault = TRUE]
       PROVE  Goods(mad') /\ Queues(mad', cc', w, ov)
  <2>1. PICK z, b : z = [M[m] EXCEPT !.place = "stuck"] /\ b = TRUE
    OBVIOUS
  <2>2. /\ z \in MadType /\ z.place = "stuck" /\ z.refcount = M[m].refcount
        /\ z.live = M[m].live /\ z.hw = M[m].hw /\ z.status = M[m].status
        /\ z.resp = M[m].resp /\ z.told = M[m].told
    <3>1. "stuck" \in Places
      BY DEF Places
    <3> QED BY <1>02, <2>1, <3>1, PlaceSet
  <2>3. Good(class[m], z)
    BY <2>2 DEF Good, One, Leaving
  <2>4. mad' \in [Mads -> MadType] /\ mad'[m] = z /\ \A j \in Mads : j # m => mad'[j] = M[j]
    BY <1>13, <2>1, <2>2
  <2>5. Goods(mad')
    BY <2>3, <2>4 DEF Goods
  <2>6. \A j \in Mads : Keeps(class[j], M[j], mad'[j])
    BY <2>2, <2>4 DEF Keeps, KeepsCc, KeepsSmp, KeepsOut, KeepsQp, Sa, Sm, Leaving
  <2>7. Queues(mad', cc, w, ov)
    BY <1>0, <2>6, QueuesKept
  <2>8. cc' = [cc EXCEPT !.fault = b]
    BY <1>13, <2>1
  <2>9. cc'.fifo = cc.fifo /\ cc'.to = cc.to /\ cc'.outstanding = cc.outstanding
    BY <1>0, <2>8 DEF CcType
  <2>10. CcInv(mad', cc', 0)
    BY <2>7, <2>9 DEF Queues, CcInv
  <2> QED BY <2>5, <2>7, <2>10 DEF Queues
<1> QED BY <1>0, <1>11, <1>12, <1>13, DoneCases

(* smp_mad_done() takes the next MAD out of the overflow list. *)
LEMMA SmpTakeOk ==
    ASSUME NEW S, NEW k \in CcType, NEW ov, Elems(k.fifo) \subseteq Elems(k.to),
           Goods(S.M), SmpInv(S.M, S.w, 0), CcInv(S.M, k, 0), QpInv(S.M, ov),
           NEW T, T = SmpTake(S)
    PROVE  Goods(T.M) /\ Queues(T.M, k, T.w, ov)
<1>1. PICK M, v : M = S.M /\ v = S.w
  OBVIOUS
<1>2. /\ v \in SmpType /\ v.overflow \in Seq(Mads) /\ Once(v.overflow)
      /\ Span(Cardinality(SmpHold(M)) + 0, v) /\ \A m \in Elems(v.overflow) : M[m].hw = "smpover"
      /\ Goods(M) /\ CcInv(M, k, 0) /\ QpInv(M, ov) /\ SmpInv(M, v, 0)
  BY <1>1 DEF SmpInv, SmpType
<1>3. CASE v.overflow = <<>>
  <2>1. T = S
    BY <1>1, <1>3 DEF SmpTake
  <2>2. SmpMoves(M, v)
    BY <1>3 DEF SmpMoves
  <2> QED BY <1>1, <2>1, <2>2 DEF Queues
<1>4. CASE v.overflow # <<>>
  <2>1. PICK h, r : h = Head(v.overflow) /\ r = Tail(v.overflow)
    OBVIOUS
  <2>2. /\ h \in Mads /\ h \in Elems(v.overflow) /\ r \in Seq(Mads) /\ Once(r)
        /\ Elems(r) = Elems(v.overflow) \ {h}
    BY <1>2, <1>4, <2>1, TailElems
  <2>3. PICK y : y = [M[h] EXCEPT !.hw = "smpout"]
    OBVIOUS
  <2>4. M \in [Mads -> MadType] /\ M[h] \in MadType /\ Good(class[h], M[h]) /\ M[h].hw = "smpover"
    BY <1>2, <2>2 DEF Goods
  <2>5. /\ y \in MadType /\ y.place = M[h].place /\ y.refcount = M[h].refcount
        /\ y.live = M[h].live /\ y.hw = "smpout" /\ y.status = M[h].status
        /\ y.canceled = M[h].canceled /\ y.resp = M[h].resp /\ y.told = M[h].told
    BY <2>3, <2>4 DEF MadType, Hws
  <2>6. class[h] = "smp" /\ M[h].place = "list"
    BY <2>4 DEF Good
  <2>7. Good(class[h], y)
    BY <2>4, <2>5, <2>6 DEF Good, One
  <2>8. T.M = [M EXCEPT ![h] = y] /\ T.w = [v EXCEPT !.overflow = r]
    <3>1. PICK A, B : /\ A = [M EXCEPT ![Head(v.overflow)].hw = "smpout"]
                      /\ B = [v EXCEPT !.overflow = Tail(@)]
      OBVIOUS
    <3>2. T = [M |-> A, w |-> B]
      BY <1>1, <1>4, <3>1 DEF SmpTake
    <3>3. T.M = A /\ T.w = B
      BY <3>2
    <3> QED BY <2>1, <2>3, <3>1, <3>3
  <2>9. T.M[h] = y /\ \A j \in Mads : j # h => T.M[j] = M[j]
    BY <2>2, <2>4, <2>8
  <2>10. Goods(T.M)
    BY <1>2, <2>2, <2>4, <2>5, <2>7, <2>8, <2>9 DEF Goods
  <2>11. /\ T.w \in SmpType /\ T.w.outstanding = v.outstanding /\ T.w.overflow = r
         /\ T.w.leaked = v.leaked /\ T.w.extra = v.extra
    BY <1>2, <2>2, <2>8 DEF SmpType
  <2>12. \A j \in Mads : Sm(class[j], M[j]) <=> Sm(class[j], T.M[j])
    BY <2>4, <2>5, <2>9 DEF Sm
  <2>13. SmpHold(T.M) = SmpHold(M)
    BY <2>12 DEF SmpHold
  <2>14. \A j \in Elems(r) : T.M[j].hw = "smpover"
    <3>1. Elems(v.overflow) \subseteq Mads
      BY <1>2, EmptyElems
    <3> QED BY <1>2, <2>2, <2>9, <3>1
  <2>15. Span(Cardinality(SmpHold(T.M)) + 0, T.w)
    BY <1>2, <2>11, <2>13 DEF Span
  <2>16. SmpInv(T.M, T.w, 0)
    BY <2>2, <2>11, <2>14, <2>15 DEF SmpInv
  <2>17. SmpMoves(T.M, T.w)
    BY <2>2, <2>5, <2>9 DEF SmpMoves
  <2>18. \A j \in Mads : KeepsCc(class[j], M[j], T.M[j]) /\ KeepsQp(M[j], T.M[j])
    BY <2>4, <2>5, <2>9 DEF KeepsCc, KeepsQp, Sa
  <2>19. CcInv(T.M, k, 0) /\ QpInv(T.M, ov)
    BY <1>2, <2>18, CcKept, QpKept
  <2> QED BY <2>10, <2>16, <2>17, <2>19 DEF Queues
<1> QED BY <1>3, <1>4

(* smp_mad_done() gives the place of a MAD that has ended back, and takes    *)
(* the next MAD out of the overflow list.                                    *)
LEMMA SmpDone ==
    ASSUME NEW M, NEW w, NEW k \in CcType, NEW ov,
           Elems(k.fifo) \subseteq Elems(k.to), Goods(M), SmpInv(M, w, 1),
           CcInv(M, k, 0), QpInv(M, ov), NEW S, S = smp_mad_done([M |-> M, w |-> w])
    PROVE  Goods(S.M) /\ Queues(S.M, k, S.w, ov)
<1>0. /\ w \in SmpType /\ w.outstanding \in Nat /\ w.leaked \in Nat /\ w.extra \in Nat
      /\ Once(w.overflow) /\ Span(Cardinality(SmpHold(M)) + 1, w)
      /\ \A m \in Elems(w.overflow) : M[m].hw = "smpover"
  BY DEF SmpInv, SmpType
<1>00. PICK a : a = Cardinality(SmpHold(M))
  OBVIOUS
<1>01. a \in Nat
  <2>1. SmpHold(M) \in SUBSET Mads
    BY DEF SmpHold
  <2> QED BY <1>00, <2>1, Counting
<1>1. PICK n : n = Less(w.outstanding)
  OBVIOUS
<1>2. n \in Nat /\ n <= a + 0 + w.leaked /\ a + 0 + w.leaked <= n + w.extra
  BY <1>0, <1>00, <1>01, <1>1 DEF Less, Span
<1>3. PICK v : v = [w EXCEPT !.outstanding = n]
  OBVIOUS
<1>4. /\ v \in SmpType /\ v.outstanding = n /\ v.overflow = w.overflow
      /\ v.leaked = w.leaked /\ v.extra = w.extra
  BY <1>0, <1>2, <1>3 DEF SmpType
<1>5. PICK T : T = [M |-> M, w |-> v]
  OBVIOUS
<1>6. S = SmpTake(T)
  BY <1>1, <1>3, <1>5 DEF smp_mad_done
<1>7. SmpInv(M, v, 0)
  BY <1>0, <1>00, <1>2, <1>4 DEF SmpInv, Span
<1>8. T.M = M /\ T.w = v
  BY <1>5
<1> QED BY <1>6, <1>7, <1>8, SmpTakeOk

(* A MAD under way that nothing has any more. *)
Ending(x) == /\ x.place \in {"list", "wait", "done", "cancel"} /\ x.hw = "none"
             /\ ~x.resp /\ x.told = 0 /\ x.refcount \in 0..2

(* The MAD m has ended: its client is told, and its permit or its place goes *)
(* on.                                                                       *)
LEMMA EndedOk ==
    ASSUME AgentInv, TimerInv, NEW M \in [Mads -> MadType], NEW m \in Mads, NEW w, NEW ov,
           \A j \in Mads : j # m => Good(class[j], M[j]), Ending(M[m]),
           Queues(M, cc, w, ov), Ended(M, m, w)
    PROVE  Goods(mad') /\ Queues(mad', cc', smp', ov)
<1>0. cc \in CcType /\ Elems(cc.fifo) \subseteq Elems(cc.to) /\ class[m] \in {"sa", "smp"}
  BY DEF TimerInv, AgentInv
<1>1. CASE class[m] = "sa"
  <2>1. sa_cc_mad_done(M, m) /\ smp' = w
    BY <1>1 DEF Ended
  <2>2. Leaving(M[m])
    BY DEF Ending, Leaving
  <2>3. Goods(mad') /\ Queues(mad', cc', w, ov)
    BY <1>1, <2>1, <2>2, SaDone
  <2> QED BY <2>1, <2>3
<1>2. CASE class[m] = "smp"
  <2>1. PICK y, M1 : y = Tell(M[m]) /\ M1 = [M EXCEPT ![m] = Tell(@)]
    OBVIOUS
  <2>2. /\ y \in MadType /\ y.place = "gone" /\ y.told = 1 /\ y.hw = "none" /\ ~y.resp
        /\ y.refcount \in 0..2
    <3>1. /\ y \in MadType /\ y.place = "gone" /\ y.told = 1 /\ y.hw = M[m].hw
          /\ y.resp = M[m].resp /\ y.refcount = M[m].refcount
      BY <2>1, TellFields DEF Ending
    <3> QED BY <3>1 DEF Ending
  <2>3. Good(class[m], y)
    BY <2>2 DEF Good, One
  <2>4. M1 \in [Mads -> MadType] /\ M1[m] = y /\ \A j \in Mads : j # m => M1[j] = M[j]
    BY <2>1, <2>2
  <2>5. Goods(M1)
    BY <2>3, <2>4 DEF Goods
  <2>6. PICK S : S = smp_mad_done([M |-> M1, w |-> w])
    OBVIOUS
  <2>7. mad' = S.M /\ smp' = S.w /\ cc' = cc
    BY <1>2, <2>1, <2>6 DEF Ended
  <2>8. Sm(class[m], M[m]) /\ ~Sm(class[m], M1[m]) /\ M[m].hw # "smpover"
    BY <1>2, <2>2, <2>4 DEF Sm, Ending
  <2>9. \A j \in Mads : j # m => KeepsSmp(class[j], M[j], M1[j])
    BY <2>4 DEF KeepsSmp
  <2>10. SmpInv(M1, w, 1)
    BY <2>8, <2>9, SmpDrops DEF Queues
  <2>11. \A j \in Mads : KeepsCc(class[j], M[j], M1[j]) /\ KeepsQp(M[j], M1[j])
    BY <1>2, <2>2, <2>4 DEF KeepsCc, KeepsQp, Sa, Ending
  <2>12. CcInv(M1, cc, 0) /\ QpInv(M1, ov)
    BY <1>0, <2>11, CcKept, QpKept DEF Queues
  <2>13. Goods(S.M) /\ Queues(S.M, cc, S.w, ov)
    BY <1>0, <2>5, <2>6, <2>10, <2>12, SmpDone
  <2> QED BY <2>7, <2>13
<1> QED BY <1>0, <1>1, <1>2

(* A MAD with a reference that is about to be put. *)
Owed(c, x) ==
    /\ x \in MadType /\ x.told = 0 /\ x.place \in {"list", "done"}
    /\ x.refcount = One(x.hw # "none") + One(x.live /\ x.status = "ok") + One(x.resp) + 1
    /\ x.resp => ~x.live
    /\ x.hw \in {"smpover", "smpout"} => c = "smp"
    /\ x.place = "done" => x.hw = "none" /\ ~x.live /\ ~x.resp

(* What PutSend() makes of it. *)
LEMMA PutFields ==
    ASSUME NEW x \in MadType, NEW z, z = PutSend(x, "ok")
    PROVE  /\ z \in MadType /\ z.refcount = x.refcount - 1 /\ z.status = x.status
           /\ z.hw = x.hw /\ z.resp = x.resp /\ z.told = x.told /\ z.canceled = x.canceled
           /\ x.refcount - 1 = 1 /\ x.live /\ x.status = "ok" => z.place = "wait" /\ z.live
           /\ ~(x.refcount - 1 = 1 /\ x.live /\ x.status = "ok") =>
                 z.place = x.place /\ z.live = x.live
<1>1. PICK n : n = x.refcount - 1
  OBVIOUS
<1>2. n \in Int
  BY <1>1 DEF MadType
<1>3. PICK t, y : t = x.status /\ y = [x EXCEPT !.status = t, !.refcount = n]
  OBVIOUS
<1>4. /\ y \in MadType /\ y.refcount = n /\ y.status = x.status /\ y.hw = x.hw
      /\ y.resp = x.resp /\ y.told = x.told /\ y.canceled = x.canceled
      /\ y.place = x.place /\ y.live = x.live
  <2>1. t \in Results
    BY <1>3 DEF MadType
  <2> QED BY <1>2, <1>3, <2>1 DEF MadType
<1>5. z = IF y.refcount = 1 /\ y.live /\ y.status = "ok" THEN wait_for_response(y) ELSE y
  <2>1. PICK k : k = x.refcount - 1 - 0
    OBVIOUS
  <2>2. k = n
    BY <1>1, <1>2, <2>1 DEF MadType
  <2>3. PICK u : u = [x EXCEPT !.status = t, !.refcount = k]
    OBVIOUS
  <2>4. z = IF u.refcount = 1 /\ u.live /\ u.status = "ok" THEN wait_for_response(u) ELSE u
    BY <1>3, <2>1, <2>3 DEF PutSend
  <2>5. u = y
    BY <1>3, <2>2, <2>3
  <2> QED BY <2>4, <2>5
<1>6. PICK v : v = wait_for_response(y)
  OBVIOUS
<1>7. /\ v \in MadType /\ v.refcount = n /\ v.status = x.status /\ v.hw = x.hw
      /\ v.resp = x.resp /\ v.told = x.told /\ v.canceled = x.canceled
      /\ v.place = "wait" /\ v.live = TRUE
  BY <1>4, <1>6 DEF MadType, wait_for_response, Places
<1> QED BY <1>1, <1>4, <1>5, <1>6, <1>7

(* ib_mad_complete_send_wr() puts a reference: the MAD goes on to wait for   *)
(* its response or for who else has it, or ends.                             *)
LEMMA PutOk ==
    ASSUME AgentInv, TimerInv, NEW M \in [Mads -> MadType], NEW m \in Mads, NEW ov,
           \A j \in Mads : j # m => Good(class[j], M[j]), Owed(class[m], M[m]),
           Queues(M, cc, smp, ov), ib_mad_complete_send_wr(M, m, "ok")
    PROVE  Goods(mad') /\ Queues(mad', cc', smp', ov)
<1>0. cc \in CcType /\ Elems(cc.fifo) \subseteq Elems(cc.to)
  BY DEF TimerInv
<1>1. PICK x, z : x = M[m] /\ z = PutSend(x, "ok")
  OBVIOUS
<1>2. x \in MadType /\ Owed(class[m], x)
  BY <1>1
<1>3. /\ z \in MadType /\ z.refcount = x.refcount - 1 /\ z.status = x.status
      /\ z.hw = x.hw /\ z.resp = x.resp /\ z.told = x.told /\ z.canceled = x.canceled
      /\ x.refcount - 1 = 1 /\ x.live /\ x.status = "ok" => z.place = "wait" /\ z.live
      /\ ~(x.refcount - 1 = 1 /\ x.live /\ x.status = "ok") =>
            z.place = x.place /\ z.live = x.live
  BY <1>1, <1>2, PutFields
<1>31. z.refcount \in Int /\ z.hw \in Hws /\ z.live \in BOOLEAN /\ z.resp \in BOOLEAN
  BY <1>3, MadFields
<1>4. z.refcount = One(z.hw # "none") + One(z.live /\ z.status = "ok") + One(z.resp)
  BY <1>2, <1>3, MadFields DEF Owed, One
<1>5. PICK N : N = [M EXCEPT ![m] = z]
  OBVIOUS
<1>6. N \in [Mads -> MadType] /\ N[m] = z /\ \A j \in Mads : j # m => N[j] = M[j]
  BY <1>3, <1>5
<1>7. Keeps(class[m], x, z)
  BY <1>2, <1>3 DEF Keeps, KeepsCc, KeepsSmp, KeepsOut, KeepsQp, Sa, Sm, Owed
<1>8. \A j \in Mads : Keeps(class[j], M[j], N[j])
  BY <1>1, <1>6, <1>7 DEF Keeps, KeepsCc, KeepsSmp, KeepsOut, KeepsQp
<1>9. Queues(N, cc, smp, ov)
  BY <1>0, <1>8, QueuesKept
<1>10. CASE z.refcount > 0
  <2>1. mad' = N /\ cc' = cc /\ smp' = smp
    BY <1>1, <1>5, <1>10 DEF ib_mad_complete_send_wr
  <2>2. Good(class[m], z)
    <3>1. x.refcount - 1 = 1 /\ x.live /\ x.status = "ok" => z.hw = "none" /\ ~z.resp
      BY <1>2, <1>3, MadFields DEF Owed, One
    <3>2. z.refcount \in 0..2
      <4>1. ~(z.live /\ z.resp)
        BY <1>2, <1>3, <3>1 DEF Owed
      <4>2. z.refcount \in {0, 1, 2}
        BY <1>31, <1>4, <4>1 DEF One
      <4> QED BY <4>2
    <3>3. z.place = "list" => z.hw # "none" \/ z.resp
      BY <1>2, <1>3, <1>4, <1>10, MadFields DEF Owed, One
    <3>4. z.place = "list" /\ z.live /\ z.status = "ok" => z.hw # "none"
      BY <1>2, <1>3, <1>4, <1>10, MadFields DEF Owed, One
    <3>5. z.place # "done"
      BY <1>2, <1>3, <1>4, <1>10, MadFields DEF Owed, One
    <3>6. z.place \in {"list", "wait"} /\ z.told = 0 /\ (z.resp => ~z.live /\ z.place = "list")
      BY <1>2, <1>3, <3>1, <3>5 DEF Owed
    <3>7. z.hw # "none" => z.place = "list"
      BY <1>2, <1>3, <3>1, <3>6 DEF Owed
    <3>8. z.hw \in {"smpover", "smpout"} => class[m] = "smp"
      BY <1>2, <1>3 DEF Owed
    <3>9. z.place = "wait" => z.live
      BY <1>2, <1>3 DEF Owed
    <3> QED BY <1>3, <1>4, <3>2, <3>3, <3>4, <3>5, <3>6, <3>7, <3>8, <3>9 DEF Good, One
  <2>3. Goods(N)
    BY <1>6, <2>2 DEF Goods
  <2> QED BY <1>9, <2>1, <2>3
<1>11. CASE ~(z.refcount > 0)
  <2>1. Ended(N, m, smp)
    BY <1>1, <1>5, <1>11 DEF ib_mad_complete_send_wr
  <2>2. z.refcount = 0 /\ z.hw = "none" /\ ~z.resp
    BY <1>31, <1>4, <1>11 DEF One
  <2>3. Ending(N[m])
    BY <1>2, <1>3, <1>6, <2>2 DEF Ending, Owed
  <2> QED BY <1>6, <1>9, <2>1, <2>3, EndedOk
<1> QED BY <1>10, <1>11
-----------------------------------------------------------------------------
(* A MAD IS SENT *)

(* A MAD goes to the QP, or behind those that wait for it. *)
LEMMA QpAdd ==
    ASSUME NEW M, NEW M2, NEW m \in Mads, QpInv(M, over), class[m] \in QpOf,
           M[m].hw # "qover", M2[m].hw = HwOf(m),
           \A j \in Mads : j # m => KeepsQp(M[j], M2[j])
    PROVE  QpInv(M2, OverWith(m))
<1>1. HwOf(m) = "qp" \/ HwOf(m) = "qover"
  BY DEF HwOf
<1>2. CASE HwOf(m) = "qp"
  <2>1. \A j \in Mads : KeepsQp(M[j], M2[j])
    BY DEF KeepsQp
  <2> QED BY <1>2, <2>1, QpKept DEF OverWith
<1>3. CASE HwOf(m) = "qover"
  <2>0. /\ over \in [QpOf -> Seq(Mads)] /\ \A c \in QpOf : Once(over[c])
        /\ \A c \in QpOf : \A j \in Elems(over[c]) : class[j] = c /\ M[j].hw = "qover"
    BY DEF QpInv
  <2>1. PICK d, r : d = class[m] /\ r = Append(over[d], m)
    OBVIOUS
  <2>2. d \in QpOf /\ over[d] \in Seq(Mads) /\ m \notin Elems(over[d]) /\ Once(over[d])
    BY <2>0, <2>1
  <2>3. r \in Seq(Mads) /\ Elems(r) = Elems(over[d]) \cup {m} /\ Once(r)
    BY <2>1, <2>2, AppendElems
  <2>4. OverWith(m) = [over EXCEPT ![d] = r]
    <3>1. OverWith(m) = [over EXCEPT ![d] = Append(@, m)]
      BY <1>3, <2>1 DEF OverWith
    <3> QED BY <2>0, <2>1, <2>2, <3>1
  <2>5. PICK ov : ov = [over EXCEPT ![d] = r]
    OBVIOUS
  <2>6. ov \in [QpOf -> Seq(Mads)] /\ ov[d] = r /\ \A c \in QpOf : c # d => ov[c] = over[c]
    BY <2>0, <2>2, <2>3, <2>5
  <2>7. ASSUME NEW c \in QpOf PROVE Elems(over[c]) \subseteq Mads
    <3>1. over[c] \in Seq(Mads)
      BY <2>0
    <3> QED BY <3>1, EmptyElems
  <2>8. ASSUME NEW c \in QpOf, NEW j \in Elems(ov[c]) PROVE class[j] = c /\ M2[j].hw = "qover"
    <3>1. CASE c = d /\ j = m
      BY <1>3, <2>1, <3>1
    <3>2. CASE ~(c = d /\ j = m)
      <4>1. j \in Elems(over[c])
        BY <2>3, <2>6, <2>8, <3>2
      <4>2. j \in Mads /\ class[j] = c /\ M[j].hw = "qover"
        BY <2>0, <2>7, <4>1
      <4> QED BY <4>2 DEF KeepsQp
    <3> QED BY <3>1, <3>2
  <2>9. \A c \in QpOf : Once(ov[c])
    BY <2>0, <2>3, <2>6
  <2>10. QpInv(M2, ov)
    BY <2>6, <2>8, <2>9 DEF QpInv
  <2> QED BY <2>4, <2>5, <2>10
<1> QED BY <1>1, <1>2, <1>3

(* A MAD that ib_send_mad() is about to send. *)
Ready(x) == /\ x \in MadType /\ x.place = "list" /\ x.live /\ x.status = "ok"
            /\ x.refcount = 2 /\ x.told = 0 /\ ~x.resp

(* What Posted() makes of a MAD. *)
LEMMA PostedFields ==
    ASSUME NEW x \in MadType, NEW h \in Hws, NEW y, y = Posted(x, h)
    PROVE  /\ y \in MadType /\ y.hw = h /\ y.place = x.place /\ y.refcount = x.refcount
           /\ y.live = x.live /\ y.status = x.status /\ y.canceled = x.canceled
           /\ y.resp = x.resp /\ y.told = x.told
<1>1. PICK b : b = (x.sent \/ h = "qp")
  OBVIOUS
<1>2. b \in BOOLEAN
  BY <1>1
<1>3. y = [x EXCEPT !.hw = h, !.sent = b]
  BY <1>1 DEF Posted
<1> QED BY <1>2, <1>3 DEF MadType

(* ib_send_mad() fails: what it leaves of the window holds the same MADs. *)
LEMMA FailsOk ==
    ASSUME NEW M, NEW m, NEW k, NEW ov, NEW w, SendFails(m, w), Queues(M, k, smp, ov)
    PROVE  Queues(M, k, w, ov)
<1>1. CASE w = smp
  BY <1>1
<1>2. CASE class[m] = "smp" /\ ~HeldBack(m) /\ w = SmpLeak(m)
  <2>0. /\ smp \in SmpType /\ smp.outstanding \in Nat /\ smp.leaked \in Nat /\ smp.extra \in Nat
        /\ Span(Cardinality(SmpHold(M)) + 0, smp) /\ SmpMoves(M, smp)
    BY DEF Queues, SmpInv, SmpType
  <2>1. PICK n, l, v, a : /\ n = smp.outstanding + 1 /\ l = smp.leaked + 1
                          /\ v = [smp EXCEPT !.outstanding = n]
                          /\ a = Cardinality(SmpHold(M))
    OBVIOUS
  <2>2. n \in Nat /\ l \in Nat
    BY <2>0, <2>1
  <2>3. /\ v \in SmpType /\ v.outstanding = n /\ v.overflow = smp.overflow
        /\ v.leaked = smp.leaked /\ v.extra = smp.extra
    BY <2>0, <2>1, <2>2 DEF SmpType
  <2>4. w = [v EXCEPT !.leaked = l]
    <3>1. v = SmpWith(m)
      BY <1>2, <2>1 DEF SmpWith
    <3>2. w = [v EXCEPT !.leaked = @ + 1]
      BY <1>2, <3>1 DEF SmpLeak
    <3> QED BY <2>1, <2>3, <3>2
  <2>5. /\ w \in SmpType /\ w.outstanding = n /\ w.overflow = smp.overflow
        /\ w.leaked = l /\ w.extra = smp.extra
    BY <2>2, <2>3, <2>4 DEF SmpType
  <2>6. a \in Nat
    <3>1. SmpHold(M) \in SUBSET Mads
      BY DEF SmpHold
    <3> QED BY <2>1, <3>1, Counting
  <2>7. Span(a + 0, smp)
    BY <2>0, <2>1
  <2>8. Span(a + 0, w)
    BY <2>0, <2>1, <2>5, <2>6, <2>7 DEF Span
  <2>9. SmpInv(M, w, 0)
    BY <2>1, <2>5, <2>8 DEF Queues, SmpInv
  <2>10. smp.leaked >= SmpWindow => w.leaked >= SmpWindow
    BY <2>0, <2>1, <2>5, MadSendAssumption DEF MadSendAssumption
  <2>11. SmpMoves(M, w)
    BY <2>0, <2>5, <2>10 DEF SmpMoves
  <2> QED BY <2>9, <2>11 DEF Queues
<1>3. CASE class[m] # "smp" /\ w = SmpLeak(m)
  BY <1>1, <1>3 DEF SmpLeak
<1> QED BY <1>1, <1>2, <1>3 DEF SendFails

(* ib_send_mad(): the MAD m, ready as x, is sent or held back.  One that was *)
(* sent before still has its old place in the SMP window.                    *)
LEMMA SentOk ==
    ASSUME AgentInv, TimerInv, Goods(mad), Queues(mad, cc, smp, over), NEW m \in Mads,
           \/ mad[m].place = "idle" /\ class[m] = "smp"
           \/ mad[m].place = "handed"
           \/ mad[m].place = "wait",
           NEW x, Ready(x), NEW M2, M2 = [mad EXCEPT ![m] = SentMad(x, m)]
    PROVE  /\ Goods(M2) /\ CcInv(M2, cc, 0) /\ QpInv(M2, OverSent(m))
           /\ class[m] = "sa" \/ mad[m].place = "idle" =>
                 SmpInv(M2, SmpWith(m), 0) /\ SmpMoves(M2, SmpWith(m))
           /\ class[m] = "smp" /\ mad[m].place = "wait" => SmpInv(M2, SmpWith(m), 1)
           /\ class[m] = "sa" => SmpWith(m) = smp
<1>0. /\ cc \in CcType /\ Elems(cc.fifo) \subseteq Elems(cc.to) /\ class[m] \in QpOf
      /\ mad \in [Mads -> MadType] /\ mad[m] \in MadType /\ Good(class[m], mad[m])
  BY DEF TimerInv, AgentInv, Goods, QpOf
<1>00. mad[m].hw = "none" /\ (mad[m].place = "handed" => class[m] = "sa")
  BY <1>0 DEF Good
<1>01. /\ CcInv(mad, cc, 0) /\ SmpInv(mad, smp, 0) /\ SmpMoves(mad, smp) /\ QpInv(mad, over)
       /\ smp \in SmpType /\ smp.outstanding \in Nat /\ smp.overflow \in Seq(Mads)
       /\ Once(smp.overflow) /\ \A j \in Elems(smp.overflow) : mad[j].hw = "smpover"
       /\ Span(Cardinality(SmpHold(mad)) + 0, smp) /\ smp.leaked \in Nat /\ smp.extra \in Nat
       /\ Elems(smp.overflow) \subseteq Mads
  <2>1. /\ smp \in SmpType /\ smp.outstanding \in Nat /\ smp.overflow \in Seq(Mads)
        /\ smp.leaked \in Nat /\ smp.extra \in Nat
    BY DEF Queues, SmpInv, SmpType
  <2>2. Elems(smp.overflow) \subseteq Mads
    BY <2>1, EmptyElems
  <2> QED BY <2>1, <2>2 DEF Queues, SmpInv
<1>1. PICK h : h = IF HeldBack(m) THEN "smpover" ELSE HwOf(m)
  OBVIOUS
<1>2. /\ h \in Hws /\ h # "none" /\ h # "smpout"
      /\ h = "smpover" <=> HeldBack(m)
      /\ h = "smpover" => class[m] = "smp" /\ smp.outstanding >= SmpWindow
      /\ ~HeldBack(m) => h = HwOf(m)
  BY <1>1 DEF HeldBack, HwOf, Hws
<1>3. PICK y : y = SentMad(x, m)
  OBVIOUS
<1>4. x \in MadType /\ y = Posted(x, h)
  BY <1>1, <1>3 DEF SentMad, Ready
<1>5. /\ y \in MadType /\ y.hw = h /\ y.place = "list" /\ y.refcount = 2 /\ y.live
      /\ y.status = "ok" /\ y.told = 0 /\ ~y.resp
  <2>1. /\ y \in MadType /\ y.hw = h /\ y.place = x.place /\ y.refcount = x.refcount
        /\ y.live = x.live /\ y.status = x.status /\ y.resp = x.resp /\ y.told = x.told
    BY <1>2, <1>4, PostedFields
  <2> QED BY <2>1 DEF Ready
<1>6. Good(class[m], y)
  BY <1>2, <1>5 DEF Good, One
<1>7. M2 \in [Mads -> MadType] /\ M2[m] = y /\ \A j \in Mads : j # m => M2[j] = mad[j]
  BY <1>0, <1>3, <1>5
<1>8. Goods(M2)
  BY <1>6, <1>7 DEF Goods
<1>9. \A j \in Mads : j # m => Keeps(class[j], mad[j], M2[j])
  BY <1>7 DEF Keeps, KeepsCc, KeepsSmp, KeepsOut, KeepsQp
<1>10. \A j \in Mads : KeepsOut(mad[j], M2[j]) /\ KeepsQp(mad[j], M2[j])
  BY <1>00, <1>7 DEF KeepsOut, KeepsQp
<1>11. CcInv(M2, cc, 0)
  <2>1. KeepsCc(class[m], mad[m], M2[m])
    BY <1>0, <1>00, <1>5, <1>7 DEF KeepsCc, Sa
  <2>2. \A j \in Mads : KeepsCc(class[j], mad[j], M2[j])
    BY <1>9, <2>1 DEF Keeps
  <2> QED BY <1>0, <1>01, <2>2, CcKept
<1>12. QpInv(M2, OverSent(m))
  <2>1. CASE HeldBack(m)
    BY <1>01, <1>10, <2>1, QpKept DEF OverSent
  <2>2. CASE ~HeldBack(m)
    <3>1. M2[m].hw = HwOf(m) /\ mad[m].hw # "qover"
      BY <1>00, <1>2, <1>5, <1>7, <2>2
    <3>2. QpInv(M2, OverWith(m))
      BY <1>0, <1>01, <1>10, <3>1, QpAdd
    <3> QED BY <2>2, <3>2 DEF OverSent
  <2> QED BY <2>1, <2>2
<1>13. CASE class[m] = "sa"
  <2>1. SmpWith(m) = smp
    BY <1>13 DEF SmpWith
  <2>2. \A j \in Mads : KeepsSmp(class[j], mad[j], M2[j])
    BY <1>00, <1>7, <1>13 DEF KeepsSmp, Sm
  <2>3. SmpInv(M2, smp, 0)
    BY <1>01, <2>2, SmpKept
  <2>4. SmpMoves(M2, smp)
    BY <1>01, <1>10, <2>2, MovesKept
  <2> QED BY <1>8, <1>11, <1>12, <1>13, <2>1, <2>3, <2>4
<1>14. CASE class[m] = "smp"
  <2>0. mad[m].place = "idle" \/ mad[m].place = "wait"
    BY <1>00, <1>14
  <2>1. PICK w : w = SmpWith(m)
    OBVIOUS
  <2>2. PICK a, b : a = Cardinality(SmpHold(mad)) /\ b = Cardinality(SmpHold(M2))
    OBVIOUS
  <2>3. /\ a \in Nat /\ b \in Nat /\ smp.outstanding <= a + smp.leaked
        /\ a + smp.leaked <= smp.outstanding + smp.extra
    <3>1. SmpHold(mad) \in SUBSET Mads /\ SmpHold(M2) \in SUBSET Mads
      BY DEF SmpHold
    <3>2. a \in Nat /\ b \in Nat
      BY <2>2, <3>1, Counting
    <3>3. Span(a + 0, smp)
      BY <1>01, <2>2
    <3> QED BY <1>01, <3>2, <3>3 DEF Span
  <2>4. Sm(class[m], mad[m]) <=> mad[m].place = "wait"
    BY <1>00, <1>14, <2>0 DEF Sm
  <2>5. Sm(class[m], M2[m]) <=> ~HeldBack(m)
    BY <1>2, <1>5, <1>7, <1>14 DEF Sm
  <2>6. \A j \in Mads : j # m => (Sm(class[j], mad[j]) <=> Sm(class[j], M2[j]))
    BY <1>7
  <2>7. Sm(class[m], mad[m]) /\ ~Sm(class[m], M2[m]) => a = b + 1
    BY <2>2, <2>6, SmLoses
  <2>8. ~Sm(class[m], mad[m]) /\ Sm(class[m], M2[m]) => b = a + 1
    BY <2>2, <2>6, SmLoses
  <2>9. (Sm(class[m], mad[m]) <=> Sm(class[m], M2[m])) => a = b
    <3>1. (Sm(class[m], mad[m]) <=> Sm(class[m], M2[m])) => SmpHold(mad) = SmpHold(M2)
      BY <2>6 DEF SmpHold
    <3> QED BY <2>2, <3>1
  <2>10. /\ w \in SmpType /\ Once(w.overflow) /\ w.outstanding \in Nat /\ w.outstanding > 0
         /\ \A j \in Elems(w.overflow) : M2[j].hw = "smpover"
         /\ w.outstanding = IF HeldBack(m) THEN smp.outstanding ELSE smp.outstanding + 1
         /\ w.leaked = smp.leaked /\ w.extra = smp.extra
    <3>1. CASE HeldBack(m)
      <4>1. PICK r : r = Append(smp.overflow, m)
        OBVIOUS
      <4>2. w = [smp EXCEPT !.overflow = r]
        BY <1>14, <2>1, <3>1, <4>1 DEF SmpWith
      <4>3. m \notin Elems(smp.overflow)
        BY <1>00, <1>01
      <4>4. r \in Seq(Mads) /\ Elems(r) = Elems(smp.overflow) \cup {m} /\ Once(r)
        BY <1>01, <4>1, <4>3, AppendElems
      <4>5. /\ w \in SmpType /\ w.overflow = r /\ w.outstanding = smp.outstanding
            /\ w.leaked = smp.leaked /\ w.extra = smp.extra
        BY <1>01, <4>2, <4>4 DEF SmpType
      <4>6. \A j \in Elems(r) : M2[j].hw = "smpover"
        BY <1>01, <1>2, <1>5, <1>7, <3>1, <4>4
      <4>7. smp.outstanding > 0
        BY <1>01, <1>2, <3>1, MadSendAssumption DEF MadSendAssumption
      <4> QED BY <1>01, <2>3, <3>1, <4>4, <4>5, <4>6, <4>7
    <3>2. CASE ~HeldBack(m)
      <4>1. PICK n : n = smp.outstanding + 1
        OBVIOUS
      <4>2. n \in Nat /\ n > 0
        BY <1>01, <4>1
      <4>3. w = [smp EXCEPT !.outstanding = n]
        BY <1>14, <2>1, <3>2, <4>1 DEF SmpWith
      <4>4. /\ w \in SmpType /\ w.overflow = smp.overflow /\ w.outstanding = n
            /\ w.leaked = smp.leaked /\ w.extra = smp.extra
        BY <1>01, <4>2, <4>3 DEF SmpType
      <4>5. \A j \in Elems(smp.overflow) : M2[j].hw = "smpover"
        BY <1>00, <1>01, <1>7
      <4> QED BY <1>01, <3>2, <4>1, <4>2, <4>4, <4>5
    <3> QED BY <3>1, <3>2
  <2>11. CASE mad[m].place = "idle"
    <3>0. b = IF HeldBack(m) THEN a ELSE a + 1
      BY <2>4, <2>5, <2>8, <2>9, <2>11
    <3>1. w.outstanding <= b + 0 + w.leaked /\ b + 0 + w.leaked <= w.outstanding + w.extra
      BY <1>01, <2>3, <2>10, <3>0, SMTT(30)
    <3>2. SmpInv(M2, w, 0)
      BY <2>2, <2>10, <3>1 DEF SmpInv, Span
    <3>3. SmpMoves(M2, w)
      <4>1. CASE HeldBack(m) /\ SmpHold(M2) = {}
        <5>1. b = 0
          BY <2>2, <4>1, FS_EmptySet
        <5>2. smp.outstanding >= SmpWindow /\ SmpWindow \in Nat
          BY <1>2, <4>1, MadSendAssumption DEF MadSendAssumption
        <5>3. w.leaked >= SmpWindow
          BY <1>01, <2>10, <3>1, <4>1, <5>1, <5>2
        <5> QED BY <5>3 DEF SmpMoves
      <4>2. CASE ~HeldBack(m)
        <5>1. m \in SmpHold(M2)
          BY <2>5, <4>2 DEF SmpHold
        <5> QED BY <5>1 DEF SmpMoves
      <4>3. CASE SmpHold(M2) # {}
        BY <4>3 DEF SmpMoves
      <4> QED BY <4>1, <4>2, <4>3
    <3> QED BY <1>8, <1>11, <1>12, <1>14, <2>1, <2>11, <3>2, <3>3
  <2>12. CASE mad[m].place = "wait"
    <3>0. IF HeldBack(m) THEN a = b + 1 ELSE a = b
      BY <2>4, <2>5, <2>7, <2>9, <2>12
    <3>1. w.outstanding <= b + 1 + w.leaked /\ b + 1 + w.leaked <= w.outstanding + w.extra
      BY <1>01, <2>3, <2>10, <3>0, SMTT(30)
    <3>2. SmpInv(M2, w, 1)
      BY <2>2, <2>10, <3>1 DEF SmpInv, Span
    <3> QED BY <1>8, <1>11, <1>12, <1>14, <2>1, <2>12, <3>2
  <2> QED BY <2>0, <2>11, <2>12
<1> QED BY <1>0, <1>13, <1>14 DEF QpOf
-----------------------------------------------------------------------------
(* THE STEPS *)

(* One MAD changes from mad[m] to y, and no queue sees it.  The SMP window   *)
(* may be another one.                                                       *)
LEMMA QuietMad ==
    ASSUME Inv, NEW m \in Mads, NEW y, Good(class[m], y), Keeps(class[m], mad[m], y),
           mad' = [mad EXCEPT ![m] = y], NEW w, Queues(mad, cc, w, over)
    PROVE  Goods(mad') /\ Queues(mad', cc, w, over)
<1>0. /\ cc \in CcType /\ Elems(cc.fifo) \subseteq Elems(cc.to) /\ Goods(mad)
      /\ mad \in [Mads -> MadType] /\ y \in MadType
  BY DEF Inv, TimerInv, Goods, Good
<1>1. mad' \in [Mads -> MadType] /\ mad'[m] = y /\ \A j \in Mads : j # m => mad'[j] = mad[j]
  BY <1>0
<1>2. Goods(mad')
  BY <1>0, <1>1 DEF Goods
<1>3. \A j \in Mads : Keeps(class[j], mad[j], mad'[j])
  BY <1>1 DEF Keeps, KeepsCc, KeepsSmp, KeepsOut, KeepsQp
<1>4. Queues(mad', cc, w, over)
  BY <1>0, <1>3, QueuesKept
<1> QED BY <1>2, <1>4

(* The same, and nothing else. *)
LEMMA QuietStep ==
    ASSUME Inv, NEW m \in Mads, NEW y, Good(class[m], y), Keeps(class[m], mad[m], y),
           mad' = [mad EXCEPT ![m] = y], cc' = cc, smp' = smp, over' = over
    PROVE  Goods(mad') /\ Queues(mad', cc', smp', over')
<1>1. Queues(mad, cc, smp, over)
  BY DEF Inv
<1>2. Goods(mad') /\ Queues(mad', cc, smp, over)
  BY <1>1, QuietMad
<1> QED BY <1>2

(* sa_cc_mad_send(). *)
LEMMA StepPostSa ==
    ASSUME Inv, NEW m \in Mads, PostSa(m)
    PROVE  Goods(mad') /\ Queues(mad', cc', smp', over')
<1>0. /\ cc \in CcType /\ Elems(cc.fifo) \subseteq Elems(cc.to) /\ Goods(mad)
      /\ Queues(mad, cc, smp, over) /\ mad \in [Mads -> MadType] /\ mad[m] \in MadType
      /\ Good(class[m], mad[m]) /\ mad[m].place = "idle" /\ class[m] = "sa"
      /\ smp' = smp /\ over' = over
  BY DEF Inv, TimerInv, Goods, PostSa
<1>00. cc.outstanding \in Nat /\ cc.fifo \in Seq(Mads) /\ cc.to \in Seq(Mads)
  BY <1>0, CcFields
<1>01. mad[m].hw = "none" /\ ~mad[m].resp /\ mad[m].told = 0 /\ mad[m].status = "ok"
  BY <1>0 DEF Good, One
<1>02. Elems(cc.to) \subseteq Mads
  BY <1>00, EmptyElems
<1>03. /\ cc.outstanding = Cardinality(SaHold(mad)) + 0 /\ cc.outstanding <= SaWindow
       /\ \A j \in Elems(cc.to) : mad[j].place = "cc"
       /\ \A j \in Elems(cc.fifo) : mad[j].canceled \/ cc.outstanding = SaWindow
  BY <1>0 DEF Queues, CcInv
<1>04. Cardinality(SaHold(mad)) \in Nat
  <2>1. SaHold(mad) \in SUBSET Mads
    BY DEF SaHold
  <2> QED BY <2>1, Counting
<1>05. SaWindow \in Nat
  BY MadSendAssumption DEF MadSendAssumption
<1>1. ASSUME NEW p \in {"handed", "cc"}, mad' = [mad EXCEPT ![m].place = p]
      PROVE  /\ Goods(mad') /\ SmpInv(mad', smp, 0) /\ SmpMoves(mad', smp) /\ QpInv(mad', over)
             /\ mad'[m].place = p /\ \A j \in Mads : j # m => mad'[j] = mad[j]
  <2>1. PICK y : y = [mad[m] EXCEPT !.place = p]
    OBVIOUS
  <2>2. /\ y \in MadType /\ y.place = p /\ y.refcount = mad[m].refcount
        /\ y.live = mad[m].live /\ y.hw = mad[m].hw /\ y.status = mad[m].status
        /\ y.resp = mad[m].resp /\ y.told = mad[m].told
    <3>1. p \in Places
      BY DEF Places
    <3> QED BY <1>0, <2>1, <3>1, PlaceSet
  <2>3. Good(class[m], y)
    BY <1>0, <1>01, <1>1, <2>2 DEF Good, One
  <2>4. mad' \in [Mads -> MadType] /\ mad'[m] = y /\ \A j \in Mads : j # m => mad'[j] = mad[j]
    BY <1>0, <1>1, <2>1, <2>2
  <2>5. Goods(mad')
    BY <1>0, <2>3, <2>4 DEF Goods
  <2>6. \A j \in Mads : /\ KeepsSmp(class[j], mad[j], mad'[j]) /\ KeepsOut(mad[j], mad'[j])
                        /\ KeepsQp(mad[j], mad'[j])
    BY <1>0, <1>01, <2>2, <2>4 DEF KeepsSmp, KeepsOut, KeepsQp, Sm
  <2>7. SmpInv(mad', smp, 0) /\ QpInv(mad', over)
    BY <1>0, <2>6, SmpKept, QpKept DEF Queues
  <2>8. SmpMoves(mad', smp)
    BY <1>0, <2>6, MovesKept DEF Queues
  <2> QED BY <2>2, <2>4, <2>5, <2>7, <2>8
<1>2. CASE /\ cc.outstanding < SaWindow /\ cc' = [cc EXCEPT !.outstanding = @ + 1]
           /\ mad' = [mad EXCEPT ![m].place = "handed"]
  <2>1. /\ Goods(mad') /\ SmpInv(mad', smp, 0) /\ SmpMoves(mad', smp) /\ QpInv(mad', over)
        /\ mad'[m].place = "handed" /\ \A j \in Mads : j # m => mad'[j] = mad[j]
    BY <1>1, <1>2
  <2>2. PICK n : n = cc.outstanding + 1
    OBVIOUS
  <2>3. cc' = [cc EXCEPT !.outstanding = n]
    BY <1>2, <2>2
  <2>4. cc'.fifo = cc.fifo /\ cc'.to = cc.to /\ cc'.outstanding = n
    BY <1>0, <2>3 DEF CcType
  <2>5. ~Sa(class[m], mad[m]) /\ Sa(class[m], mad'[m])
    BY <1>0, <2>1 DEF Sa
  <2>6. Cardinality(SaHold(mad')) = Cardinality(SaHold(mad)) + 1
    BY <2>1, <2>5, SaLoses
  <2>7. n = Cardinality(SaHold(mad')) + 0 /\ n <= SaWindow
    BY <1>00, <1>03, <1>04, <1>05, <1>2, <2>2, <2>6
  <2>8. \A j \in Elems(cc.to) : mad'[j].place = "cc"
    BY <1>0, <1>02, <1>03, <2>1
  <2>9. \A j \in Elems(cc.fifo) : mad'[j].canceled
    <3>1. cc.outstanding # SaWindow
      BY <1>00, <1>05, <1>2
    <3> QED BY <1>0, <1>02, <1>03, <2>1, <3>1
  <2>10. CcInv(mad', cc', 0)
    BY <2>4, <2>7, <2>8, <2>9 DEF CcInv
  <2> QED BY <1>0, <2>1, <2>10 DEF Queues
<1>3. CASE mad' = [mad EXCEPT ![m] = [Tell(@) EXCEPT !.status = "busy"]] /\ cc' = cc
  <2>1. PICK y : y = [Tell(mad[m]) EXCEPT !.status = "busy"]
    OBVIOUS
  <2>2. /\ y \in MadType /\ y.place = "gone" /\ y.told = 1 /\ y.hw = mad[m].hw
        /\ y.resp = mad[m].resp /\ y.refcount = mad[m].refcount
    <3>1. PICK z : z = Tell(mad[m])
      OBVIOUS
    <3>2. /\ z \in MadType /\ z.place = "gone" /\ z.told = 1 /\ z.hw = mad[m].hw
          /\ z.resp = mad[m].resp /\ z.refcount = mad[m].refcount
      BY <1>0, <1>01, <3>1, TellFields
    <3>3. "busy" \in Results /\ y = [z EXCEPT !.status = "busy"]
      BY <2>1, <3>1 DEF Results
    <3> QED BY <3>2, <3>3, StatusSet
  <2>3. Good(class[m], y)
    BY <1>0, <1>01, <2>2 DEF Good, One
  <2>4. Keeps(class[m], mad[m], y)
    BY <1>0, <1>01, <2>2 DEF Keeps, KeepsCc, KeepsSmp, KeepsOut, KeepsQp, Sa, Sm
  <2>5. mad' = [mad EXCEPT ![m] = y]
    BY <1>3, <2>1
  <2> QED BY <1>0, <1>3, <2>3, <2>4, <2>5, QuietStep
<1>4. CASE /\ cc.outstanding >= SaWindow /\ \E i \in 0..Len(cc.to) : tf_enqueue(m, i)
           /\ mad' = [mad EXCEPT ![m].place = "cc"]
  <2>1. /\ Goods(mad') /\ SmpInv(mad', smp, 0) /\ SmpMoves(mad', smp) /\ QpInv(mad', over)
        /\ mad'[m].place = "cc" /\ \A j \in Mads : j # m => mad'[j] = mad[j]
    BY <1>1, <1>4
  <2>2. PICK i \in 0..Len(cc.to) : tf_enqueue(m, i)
    BY <1>4
  <2>3. PICK f, t, x : /\ f = Append(cc.fifo, m) /\ t = InsertAt(cc.to, i, m)
                       /\ x = IF i = 0 THEN m ELSE cc.timer
    OBVIOUS
  <2>4. Elems(f) = Elems(cc.fifo) \cup {m} /\ Elems(t) = Elems(cc.to) \cup {m}
    BY <1>00, <2>3, AppendElems, InsertElems
  <2>5. cc' = [cc EXCEPT !.fifo = f, !.to = t, !.timer = x]
    BY <2>2, <2>3 DEF tf_enqueue
  <2>6. cc'.fifo = f /\ cc'.to = t /\ cc'.outstanding = cc.outstanding
    BY <1>0, <2>5 DEF CcType
  <2>7. \A j \in Mads : Sa(class[j], mad[j]) <=> Sa(class[j], mad'[j])
    BY <1>0, <2>1 DEF Sa
  <2>8. SaHold(mad') = SaHold(mad)
    BY <2>7 DEF SaHold
  <2>9. cc.outstanding = SaWindow
    BY <1>00, <1>03, <1>05, <1>4
  <2>10. \A j \in Elems(t) : mad'[j].place = "cc"
    BY <1>02, <1>03, <2>1, <2>4
  <2>11. CcInv(mad', cc', 0)
    BY <1>03, <2>6, <2>8, <2>9, <2>10 DEF CcInv
  <2> QED BY <1>0, <2>1, <2>11 DEF Queues
<1> QED BY <1>2, <1>3, <1>4 DEF PostSa

(* ib_post_send_mad() of an SMP. *)
LEMMA StepPostSmp ==
    ASSUME Inv, NEW m \in Mads, PostSmp(m)
    PROVE  Goods(mad') /\ Queues(mad', cc', smp', over')
<1>0. /\ Goods(mad) /\ Queues(mad, cc, smp, over) /\ AgentInv /\ TimerInv
      /\ mad[m] \in MadType /\ Good(class[m], mad[m]) /\ mad \in [Mads -> MadType]
      /\ mad[m].place = "idle" /\ class[m] = "smp" /\ cc' = cc
  BY DEF Inv, Goods, PostSmp
<1>01. /\ ~mad[m].resp /\ mad[m].told = 0 /\ mad[m].status = "ok" /\ mad[m].hw = "none"
       /\ mad[m].refcount \in 0..2
  BY <1>0 DEF Good, One
<1>1. CASE /\ mad' = [mad EXCEPT ![m] = SentMad(Listed(@), m)]
           /\ smp' = SmpWith(m) /\ over' = OverSent(m)
  <2>1. PICK x : x = Listed(mad[m])
    OBVIOUS
  <2>2. mad' = [mad EXCEPT ![m] = SentMad(x, m)]
    BY <1>1, <2>1
  <2>3. Ready(x)
    <3>1. PICK n : n = 2
      OBVIOUS
    <3>2. x = [mad[m] EXCEPT !.place = "list", !.live = TRUE, !.refcount = n]
      BY <2>1, <3>1 DEF Listed
    <3>3. n \in Int
      BY <3>1
    <3> QED BY <1>0, <1>01, <3>1, <3>2, <3>3 DEF Ready, MadType, Places
  <2>4. /\ Goods(mad') /\ CcInv(mad', cc, 0) /\ QpInv(mad', OverSent(m))
        /\ SmpInv(mad', SmpWith(m), 0) /\ SmpMoves(mad', SmpWith(m))
    BY <1>0, <2>2, <2>3, SentOk
  <2> QED BY <1>0, <1>1, <2>4 DEF Queues
<1>2. ASSUME NEW w, SendFails(m, w), smp' = w, over' = over,
             mad' = [mad EXCEPT ![m] = [Tell(@) EXCEPT !.status = "error"]]
      PROVE  Goods(mad') /\ Queues(mad', cc', smp', over')
  <2>1. PICK z, y : z = Tell(mad[m]) /\ y = [z EXCEPT !.status = "error"]
    OBVIOUS
  <2>2. /\ z \in MadType /\ z.place = "gone" /\ z.told = 1 /\ z.hw = mad[m].hw
        /\ z.resp = mad[m].resp /\ z.refcount = mad[m].refcount
    BY <1>0, <1>01, <2>1, TellFields
  <2>3. /\ y \in MadType /\ y.place = "gone" /\ y.told = 1 /\ y.hw = "none" /\ ~y.resp
        /\ y.refcount \in 0..2
    <3>1. "error" \in Results
      BY DEF Results
    <3>2. /\ y \in MadType /\ y.place = z.place /\ y.told = z.told /\ y.hw = z.hw
          /\ y.resp = z.resp /\ y.refcount = z.refcount
      BY <2>1, <2>2, <3>1, StatusSet
    <3> QED BY <1>01, <2>2, <3>2
  <2>4. Good(class[m], y)
    BY <2>3 DEF Good, One
  <2>5. Keeps(class[m], mad[m], y)
    BY <1>0, <1>01, <2>3 DEF Keeps, KeepsCc, KeepsSmp, KeepsOut, KeepsQp, Sa, Sm
  <2>6. mad' = [mad EXCEPT ![m] = y]
    BY <1>2, <2>1
  <2>7. Queues(mad, cc, w, over)
    BY <1>0, <1>2, FailsOk
  <2>8. Goods(mad') /\ Queues(mad', cc, w, over)
    BY <2>4, <2>5, <2>6, <2>7, QuietMad
  <2> QED BY <1>0, <1>2, <2>8
<1> QED BY <1>1, <1>2 DEF PostSmp

(* send_sa_cc_mad(). *)
LEMMA StepSendHanded ==
    ASSUME Inv, NEW m \in Mads, SendHanded(m)
    PROVE  Goods(mad') /\ Queues(mad', cc', smp', over')
<1>0. /\ Goods(mad) /\ Queues(mad, cc, smp, over) /\ AgentInv /\ TimerInv
      /\ mad[m] \in MadType /\ Good(class[m], mad[m]) /\ mad \in [Mads -> MadType]
      /\ mad[m].place = "handed" /\ smp' = smp
      /\ cc \in CcType /\ Elems(cc.fifo) \subseteq Elems(cc.to)
  BY DEF Inv, Goods, SendHanded, TimerInv
<1>01. /\ class[m] = "sa" /\ ~mad[m].resp /\ mad[m].told = 0 /\ mad[m].status = "ok"
       /\ mad[m].hw = "none" /\ mad[m].refcount \in 0..2
  BY <1>0 DEF Good, One
<1>1. CASE /\ mad' = [mad EXCEPT ![m] = SentMad(Listed(@), m)]
           /\ over' = OverSent(m) /\ cc' = cc
  <2>1. PICK x : x = Listed(mad[m])
    OBVIOUS
  <2>2. mad' = [mad EXCEPT ![m] = SentMad(x, m)]
    BY <1>1, <2>1
  <2>3. Ready(x)
    <3>1. PICK n : n = 2
      OBVIOUS
    <3>2. x = [mad[m] EXCEPT !.place = "list", !.live = TRUE, !.refcount = n]
      BY <2>1, <3>1 DEF Listed
    <3>3. n \in Int
      BY <3>1
    <3> QED BY <1>0, <1>01, <3>1, <3>2, <3>3 DEF Ready, MadType, Places
  <2>4. /\ Goods(mad') /\ CcInv(mad', cc, 0) /\ QpInv(mad', OverSent(m))
        /\ SmpInv(mad', SmpWith(m), 0) /\ SmpMoves(mad', SmpWith(m)) /\ SmpWith(m) = smp
    BY <1>0, <1>01, <2>2, <2>3, SentOk
  <2> QED BY <1>0, <1>1, <2>4 DEF Queues
<1>2. CASE sa_cc_mad_done([mad EXCEPT ![m].status = "error"], m) /\ over' = over
  <2>1. PICK y, M : y = [mad[m] EXCEPT !.status = "error"] /\ M = [mad EXCEPT ![m].status = "error"]
    OBVIOUS
  <2>2. /\ y \in MadType /\ y.place = "handed" /\ y.refcount = mad[m].refcount
        /\ y.hw = "none" /\ y.canceled = mad[m].canceled /\ y.resp = mad[m].resp /\ y.told = 0
    <3>1. "error" \in Results
      BY DEF Results
    <3> QED BY <1>0, <1>01, <2>1, <3>1, StatusSet
  <2>3. M \in [Mads -> MadType] /\ M[m] = y /\ \A j \in Mads : j # m => M[j] = mad[j]
    BY <1>0, <2>1, <2>2
  <2>4. \A j \in Mads : Keeps(class[j], mad[j], M[j])
    BY <1>0, <1>01, <2>2, <2>3 DEF Keeps, KeepsCc, KeepsSmp, KeepsOut, KeepsQp, Sa, Sm
  <2>5. Queues(M, cc, smp, over)
    BY <1>0, <2>4, QueuesKept
  <2>6. Leaving(M[m]) /\ \A j \in Mads : j # m => Good(class[j], M[j])
    BY <1>0, <1>01, <2>2, <2>3 DEF Leaving, Goods
  <2>7. sa_cc_mad_done(M, m)
    BY <1>2, <2>1
  <2>8. Goods(mad') /\ Queues(mad', cc', smp, over)
    BY <1>0, <1>01, <2>3, <2>5, <2>6, <2>7, SaDone
  <2> QED BY <1>0, <1>2, <2>8
<1> QED BY <1>1, <1>2 DEF SendHanded

(* What PutSend() makes of a MAD that could not be posted. *)
LEMMA PutErrFields ==
    ASSUME NEW x \in MadType, x.refcount \in 0..2, NEW z, z = PutSend(x, "error")
    PROVE  /\ z \in MadType /\ z.status # "ok" /\ z.place = x.place /\ z.hw = x.hw
           /\ z.resp = x.resp /\ z.told = x.told /\ z.live = x.live
           /\ z.refcount = x.refcount - 1 - One(x.live /\ x.status = "ok")
<1>0. x.live \in BOOLEAN /\ x.status \in Results /\ x.refcount \in Int
  BY MadFields
<1>1. PICK s, d, n : /\ s = (IF x.status = "ok" THEN "error" ELSE x.status)
                     /\ d = (IF x.status = "ok" THEN Held(x) ELSE 0)
                     /\ n = x.refcount - 1 - d
  OBVIOUS
<1>2. /\ s \in Results /\ s # "ok" /\ n \in Int
      /\ n = x.refcount - 1 - One(x.live /\ x.status = "ok")
  BY <1>0, <1>1 DEF Results, Held, One
<1>3. PICK y : y = [x EXCEPT !.status = s, !.refcount = n]
  OBVIOUS
<1>4. /\ y \in MadType /\ y.status = s /\ y.refcount = n /\ y.place = x.place
      /\ y.live = x.live /\ y.hw = x.hw /\ y.resp = x.resp /\ y.told = x.told
  BY <1>2, <1>3 DEF MadType
<1>5. z = IF y.refcount = 1 /\ y.live /\ y.status = "ok" THEN wait_for_response(y) ELSE y
  BY <1>1, <1>3 DEF PutSend
<1>6. z = y
  BY <1>2, <1>4, <1>5
<1> QED BY <1>2, <1>4, <1>6

(* smp_mad_done() cannot post what it took from the overflow list: that MAD  *)
(* is completed, and the next one is taken.                                  *)
LEMMA SmpPostFails ==
    ASSUME Inv, NEW m \in Mads, mad[m].hw = "smpout", NEW x, NEW w, NEW S, NEW T,
           x = PutSend([mad[m] EXCEPT !.hw = "none"], "error"),
           w = [smp EXCEPT !.extra = @ + 1],
           S = IF x.refcount > 0 THEN [M |-> [mad EXCEPT ![m] = x], w |-> w]
               ELSE smp_mad_done([M |-> [mad EXCEPT ![m] = Tell(x)], w |-> w]),
           T = SmpTake(S)
    PROVE  Goods(T.M) /\ Queues(T.M, cc, T.w, over)
<1>0. /\ Goods(mad) /\ Queues(mad, cc, smp, over) /\ mad[m] \in MadType
      /\ Good(class[m], mad[m]) /\ mad \in [Mads -> MadType]
      /\ cc \in CcType /\ Elems(cc.fifo) \subseteq Elems(cc.to)
  BY DEF Inv, Goods, TimerInv
<1>1. /\ class[m] = "smp" /\ mad[m].place = "list" /\ mad[m].told = 0 /\ mad[m].refcount \in 0..2
      /\ mad[m].refcount = 1 + One(mad[m].live /\ mad[m].status = "ok") + One(mad[m].resp)
      /\ (mad[m].resp => ~mad[m].live)
  <2>1. class[m] = "smp" /\ mad[m].place = "list" /\ mad[m].refcount \in 0..2
    BY <1>0 DEF Good
  <2>2. mad[m].told = 0 /\ (mad[m].resp => ~mad[m].live)
    BY <1>0, <2>1 DEF Good, One
  <2>3. mad[m].refcount = One(mad[m].hw # "none") + One(mad[m].live /\ mad[m].status = "ok")
                             + One(mad[m].resp)
    BY <1>0, <2>1 DEF Good
  <2> QED BY <2>1, <2>2, <2>3 DEF One
<1>2. PICK u : u = [mad[m] EXCEPT !.hw = "none"]
  OBVIOUS
<1>3. /\ u \in MadType /\ u.hw = "none" /\ u.place = "list" /\ u.told = 0
      /\ u.refcount = mad[m].refcount /\ u.live = mad[m].live /\ u.status = mad[m].status
      /\ u.resp = mad[m].resp
  BY <1>0, <1>1, <1>2 DEF MadType, Hws
<1>4. /\ x \in MadType /\ x.status # "ok" /\ x.place = "list" /\ x.hw = "none"
      /\ x.resp = mad[m].resp /\ x.told = 0 /\ x.live = mad[m].live
      /\ x.refcount = mad[m].refcount - 1 - One(mad[m].live /\ mad[m].status = "ok")
  <2>1. u.refcount \in 0..2 /\ x = PutSend(u, "error")
    BY <1>1, <1>2, <1>3
  <2>2. /\ x \in MadType /\ x.status # "ok" /\ x.place = u.place /\ x.hw = u.hw
        /\ x.resp = u.resp /\ x.told = u.told /\ x.live = u.live
        /\ x.refcount = u.refcount - 1 - One(u.live /\ u.status = "ok")
    BY <1>3, <2>1, PutErrFields
  <2> QED BY <1>3, <2>2
<1>5. x.refcount = One(x.resp) /\ x.refcount \in 0..2
  BY <1>1, <1>4 DEF One
<1>6. PICK a : a = Cardinality(SmpHold(mad))
  OBVIOUS
<1>7. a \in Nat
  <2>1. SmpHold(mad) \in SUBSET Mads
    BY DEF SmpHold
  <2> QED BY <1>6, <2>1, Counting
<1>8. /\ smp \in SmpType /\ smp.outstanding \in Nat /\ smp.leaked \in Nat /\ smp.extra \in Nat
      /\ Once(smp.overflow) /\ smp.overflow \in Seq(Mads)
      /\ \A j \in Elems(smp.overflow) : mad[j].hw = "smpover"
      /\ Span(a + 0, smp)
  <2>1. SmpInv(mad, smp, 0)
    BY <1>0 DEF Queues
  <2> QED BY <1>6, <2>1 DEF SmpInv, SmpType
<1>9. /\ w \in SmpType /\ w.outstanding = smp.outstanding /\ w.overflow = smp.overflow
      /\ w.leaked = smp.leaked /\ w.extra = smp.extra + 1
  <2>1. PICK e : e = smp.extra + 1
    OBVIOUS
  <2>2. e \in Nat /\ w = [smp EXCEPT !.extra = e]
    BY <1>8, <2>1
  <2>3. /\ w \in SmpType /\ w.outstanding = smp.outstanding /\ w.overflow = smp.overflow
        /\ w.leaked = smp.leaked /\ w.extra = e
    BY <1>8, <2>2 DEF SmpType
  <2> QED BY <2>1, <2>3
<1>10. Elems(smp.overflow) \subseteq Mads /\ m \notin Elems(smp.overflow)
  BY <1>8, EmptyElems
<1>11. ~Sm(class[m], mad[m]) /\ CcInv(mad, cc, 0) /\ QpInv(mad, over)
  BY <1>0 DEF Sm, Queues
<1>12. CASE x.refcount > 0
  <2>1. PICK M1 : M1 = [mad EXCEPT ![m] = x]
    OBVIOUS
  <2>2. M1 \in [Mads -> MadType] /\ M1[m] = x /\ \A j \in Mads : j # m => M1[j] = mad[j]
    BY <1>0, <1>4, <2>1
  <2>3. x.resp /\ ~x.live
    BY <1>1, <1>4, <1>5, <1>12 DEF One
  <2>4. Good(class[m], x)
    BY <1>4, <1>5, <2>3 DEF Good, One
  <2>5. Goods(M1)
    BY <1>0, <2>2, <2>4 DEF Goods
  <2>6. S.M = M1 /\ S.w = w
    <3>1. S = [M |-> M1, w |-> w]
      BY <1>12, <2>1
    <3> QED BY <3>1
  <2>7. Sm(class[m], M1[m])
    BY <1>1, <1>4, <2>2 DEF Sm
  <2>8. Cardinality(SmpHold(M1)) = a + 1
    <3>1. \A j \in Mads : j # m => (Sm(class[j], M1[j]) <=> Sm(class[j], mad[j]))
      BY <2>2
    <3>2. ~Sm(class[m], mad[m])
      BY <1>11
    <3>3. Cardinality(SmpHold(M1)) = Cardinality(SmpHold(mad)) + 1
      BY <2>7, <3>1, <3>2, SmLoses
    <3> QED BY <1>6, <3>3
  <2>9. Span(Cardinality(SmpHold(M1)) + 0, w)
    BY <1>7, <1>8, <1>9, <2>8 DEF Span
  <2>10. \A j \in Elems(w.overflow) : M1[j].hw = "smpover"
    BY <1>8, <1>9, <1>10, <2>2
  <2>11. SmpInv(M1, w, 0)
    BY <1>8, <1>9, <2>9, <2>10 DEF SmpInv
  <2>12. \A j \in Mads : KeepsCc(class[j], mad[j], M1[j]) /\ KeepsQp(mad[j], M1[j])
    BY <1>1, <1>4, <2>2 DEF KeepsCc, KeepsQp, Sa
  <2>13. CcInv(M1, cc, 0) /\ QpInv(M1, over)
    BY <1>0, <1>11, <2>12, CcKept, QpKept
  <2> QED BY <1>0, <2>5, <2>6, <2>11, <2>13, SmpTakeOk
<1>13. CASE ~(x.refcount > 0)
  <2>1. PICK y, M1 : y = Tell(x) /\ M1 = [mad EXCEPT ![m] = y]
    OBVIOUS
  <2>2. x.refcount = 0 /\ ~x.resp
    BY <1>4, <1>5, <1>13, MadFields DEF One
  <2>3. /\ y \in MadType /\ y.place = "gone" /\ y.told = 1 /\ y.hw = "none" /\ ~y.resp
        /\ y.refcount \in 0..2
    <3>1. /\ y \in MadType /\ y.place = "gone" /\ y.told = 1 /\ y.hw = x.hw
          /\ y.resp = x.resp /\ y.refcount = x.refcount
      BY <1>4, <2>1, TellFields
    <3> QED BY <1>4, <1>5, <2>2, <3>1
  <2>4. Good(class[m], y)
    BY <2>3 DEF Good, One
  <2>5. M1 \in [Mads -> MadType] /\ M1[m] = y /\ \A j \in Mads : j # m => M1[j] = mad[j]
    BY <1>0, <2>1, <2>3
  <2>6. Goods(M1)
    BY <1>0, <2>4, <2>5 DEF Goods
  <2>7. S = smp_mad_done([M |-> M1, w |-> w])
    BY <1>13, <2>1
  <2>8. \A j \in Mads : Sm(class[j], M1[j]) <=> Sm(class[j], mad[j])
    BY <1>11, <2>3, <2>5 DEF Sm
  <2>9. SmpHold(M1) = SmpHold(mad)
    BY <2>8 DEF SmpHold
  <2>10. Span(Cardinality(SmpHold(M1)) + 1, w)
    BY <1>6, <1>7, <1>8, <1>9, <2>9 DEF Span
  <2>11. \A j \in Elems(w.overflow) : M1[j].hw = "smpover"
    BY <1>8, <1>9, <1>10, <2>5
  <2>12. SmpInv(M1, w, 1)
    BY <1>8, <1>9, <2>10, <2>11 DEF SmpInv
  <2>13. \A j \in Mads : KeepsCc(class[j], mad[j], M1[j]) /\ KeepsQp(mad[j], M1[j])
    BY <1>1, <2>3, <2>5 DEF KeepsCc, KeepsQp, Sa
  <2>14. CcInv(M1, cc, 0) /\ QpInv(M1, over)
    BY <1>0, <1>11, <2>13, CcKept, QpKept
  <2>15. Goods(S.M) /\ Queues(S.M, cc, S.w, over)
    BY <1>0, <2>6, <2>7, <2>12, <2>14, SmpDone
  <2> QED BY <1>0, <2>15, SmpTakeOk DEF Queues
<1> QED BY <1>12, <1>13

(* smp_mad_done() posts what it took from the overflow list. *)
LEMMA StepSmpPost ==
    ASSUME Inv, NEW m \in Mads, SmpPost(m)
    PROVE  Goods(mad') /\ Queues(mad', cc', smp', over')
<1>0. /\ Goods(mad) /\ Queues(mad, cc, smp, over) /\ AgentInv /\ TimerInv
      /\ mad[m] \in MadType /\ Good(class[m], mad[m]) /\ mad \in [Mads -> MadType]
      /\ mad[m].hw = "smpout" /\ cc' = cc
      /\ cc \in CcType /\ Elems(cc.fifo) \subseteq Elems(cc.to)
  BY DEF Inv, Goods, SmpPost, TimerInv
<1>1. CASE /\ mad' = [mad EXCEPT ![m] = Posted(@, HwOf(m))] /\ over' = OverWith(m)
           /\ smp' = [smp EXCEPT !.outstanding = @ + 1]
  <2>0. class[m] = "smp" /\ mad[m].place = "list" /\ class[m] \in QpOf
    BY <1>0 DEF Good, QpOf
  <2>1. /\ smp \in SmpType /\ smp.outstanding \in Nat /\ smp.overflow \in Seq(Mads)
        /\ smp.leaked \in Nat /\ smp.extra \in Nat
        /\ Once(smp.overflow) /\ \A j \in Elems(smp.overflow) : mad[j].hw = "smpover"
        /\ Span(Cardinality(SmpHold(mad)) + 0, smp)
    BY <1>0 DEF Queues, SmpInv, SmpType
  <2>2. Elems(smp.overflow) \subseteq Mads
    BY <2>1, EmptyElems
  <2>3. Cardinality(SmpHold(mad)) \in Nat
    <3>1. SmpHold(mad) \in SUBSET Mads
      BY DEF SmpHold
    <3> QED BY <3>1, Counting
  <2>4. PICK h, y, n : h = HwOf(m) /\ y = Posted(mad[m], h) /\ n = smp.outstanding + 1
    OBVIOUS
  <2>5. h \in {"qp", "qover"} /\ h \in Hws /\ n \in Nat
    BY <2>1, <2>4 DEF HwOf, Hws
  <2>6. /\ y \in MadType /\ y.hw = h /\ y.place = mad[m].place /\ y.refcount = mad[m].refcount
        /\ y.live = mad[m].live /\ y.status = mad[m].status /\ y.canceled = mad[m].canceled
        /\ y.resp = mad[m].resp /\ y.told = mad[m].told
    BY <1>0, <2>4, <2>5, PostedFields
  <2>7. Good(class[m], y)
    BY <1>0, <2>0, <2>5, <2>6 DEF Good, One
  <2>8. mad' = [mad EXCEPT ![m] = y] /\ smp' = [smp EXCEPT !.outstanding = n]
    BY <1>1, <2>4
  <2>9. mad' \in [Mads -> MadType] /\ mad'[m] = y /\ \A j \in Mads : j # m => mad'[j] = mad[j]
    BY <1>0, <2>6, <2>8
  <2>10. Goods(mad')
    BY <1>0, <2>7, <2>9 DEF Goods
  <2>11. /\ smp' \in SmpType /\ smp'.outstanding = n /\ smp'.overflow = smp.overflow
         /\ smp'.leaked = smp.leaked /\ smp'.extra = smp.extra
    BY <2>1, <2>5, <2>8 DEF SmpType
  <2>12. ~Sm(class[m], mad[m]) /\ Sm(class[m], mad'[m])
    BY <1>0, <2>0, <2>5, <2>6, <2>9 DEF Sm
  <2>13. Cardinality(SmpHold(mad')) = Cardinality(SmpHold(mad)) + 1
    BY <2>9, <2>12, SmLoses
  <2>14. Span(Cardinality(SmpHold(mad')) + 0, smp')
    <3>1. PICK a : a = Cardinality(SmpHold(mad))
      OBVIOUS
    <3>2. a \in Nat /\ smp.outstanding <= a + 0 + smp.leaked
          /\ a + 0 + smp.leaked <= smp.outstanding + smp.extra
      BY <2>1, <2>3, <3>1 DEF Span
    <3>3. /\ n <= a + 1 + 0 + smp.leaked /\ a + 1 + 0 + smp.leaked <= n + smp.extra
      BY <2>1, <2>4, <3>2
    <3> QED BY <2>11, <2>13, <3>1, <3>3 DEF Span
  <2>15. \A j \in Elems(smp.overflow) : mad'[j].hw = "smpover"
    BY <1>0, <2>1, <2>2, <2>9
  <2>16. SmpInv(mad', smp', 0)
    BY <2>1, <2>11, <2>14, <2>15 DEF SmpInv
  <2>17. SmpMoves(mad', smp')
    <3>1. m \in SmpHold(mad')
      BY <2>12 DEF SmpHold
    <3> QED BY <3>1 DEF SmpMoves
  <2>18. \A j \in Mads : KeepsCc(class[j], mad[j], mad'[j]) /\ KeepsQp(mad[j], mad'[j])
    BY <1>0, <2>0, <2>5, <2>6, <2>9 DEF KeepsCc, KeepsQp, Sa
  <2>19. CcInv(mad', cc, 0)
    BY <1>0, <2>18, CcKept DEF Queues
  <2>20. QpInv(mad', OverWith(m))
    BY <1>0, <2>0, <2>4, <2>6, <2>9, <2>18, QpAdd DEF Queues
  <2> QED BY <1>0, <1>1, <2>10, <2>16, <2>17, <2>19, <2>20 DEF Queues
<1>2. CASE /\ LET x == PutSend([mad[m] EXCEPT !.hw = "none"], "error")
                  w == [smp EXCEPT !.extra = @ + 1]
                  S == IF x.refcount > 0
                       THEN [M |-> [mad EXCEPT ![m] = x], w |-> w]
                       ELSE smp_mad_done([M |-> [mad EXCEPT ![m] = Tell(x)], w |-> w])
              IN  mad' = SmpTake(S).M /\ smp' = SmpTake(S).w
           /\ over' = over
  <2>1. PICK x, w : /\ x = PutSend([mad[m] EXCEPT !.hw = "none"], "error")
                    /\ w = [smp EXCEPT !.extra = @ + 1]
    OBVIOUS
  <2>2. PICK S : S = IF x.refcount > 0
                     THEN [M |-> [mad EXCEPT ![m] = x], w |-> w]
                     ELSE smp_mad_done([M |-> [mad EXCEPT ![m] = Tell(x)], w |-> w])
    OBVIOUS
  <2>3. PICK T : T = SmpTake(S)
    OBVIOUS
  <2>4. mad' = T.M /\ smp' = T.w
    BY <1>2, <2>1, <2>2, <2>3
  <2>5. Goods(T.M) /\ Queues(T.M, cc, T.w, over)
    BY <1>0, <2>1, <2>2, <2>3, SmpPostFails
  <2> QED BY <1>0, <1>2, <2>4, <2>5
<1> QED BY <1>1, <1>2 DEF SmpPost

(* ib_mad_send_done(). *)
LEMMA StepSendDone ==
    ASSUME Inv, NEW m \in Mads, SendDone(m)
    PROVE  Goods(mad') /\ Queues(mad', cc', smp', over')
<1>0. /\ Goods(mad) /\ Queues(mad, cc, smp, over) /\ AgentInv /\ TimerInv
      /\ mad[m] \in MadType /\ Good(class[m], mad[m]) /\ mad \in [Mads -> MadType]
      /\ mad[m].hw = "qp" /\ class[m] \in QpOf
      /\ cc \in CcType /\ Elems(cc.fifo) \subseteq Elems(cc.to)
  BY DEF Inv, Goods, SendDone, TimerInv, AgentInv, QpOf
<1>1. PICK c, q, y, M : /\ c = class[m] /\ q = over[c] /\ y = [mad[m] EXCEPT !.hw = "none"]
                        /\ M = [mad EXCEPT ![m].hw = "none"]
  OBVIOUS
<1>2. /\ y \in MadType /\ y.hw = "none" /\ y.place = mad[m].place
      /\ y.refcount = mad[m].refcount /\ y.live = mad[m].live /\ y.status = mad[m].status
      /\ y.canceled = mad[m].canceled /\ y.resp = mad[m].resp /\ y.told = mad[m].told
  BY <1>0, <1>1 DEF MadType, Hws
<1>3. M \in [Mads -> MadType] /\ M[m] = y /\ \A j \in Mads : j # m => M[j] = mad[j]
  BY <1>0, <1>1, <1>2
<1>4. Owed(class[m], y)
  <2>1. mad[m].place = "list" /\ mad[m].told = 0 /\ (mad[m].resp => ~mad[m].live)
    BY <1>0 DEF Good, One
  <2>2. mad[m].refcount = 1 + One(mad[m].live /\ mad[m].status = "ok") + One(mad[m].resp)
    BY <1>0, <2>1 DEF Good, One
  <2>3. y.refcount = 0 + One(y.live /\ y.status = "ok") + One(y.resp) + 1
    BY <1>2, <2>2 DEF One
  <2> QED BY <1>2, <2>1, <2>3 DEF Owed, One
<1>5. Keeps(class[m], mad[m], M[m])
  BY <1>0, <1>2, <1>3 DEF Keeps, KeepsCc, KeepsSmp, KeepsOut, KeepsQp, Sa, Sm
<1>6. \A j \in Mads : Keeps(class[j], mad[j], M[j])
  BY <1>3, <1>5 DEF Keeps, KeepsCc, KeepsSmp, KeepsOut, KeepsQp
<1>7. Queues(M, cc, smp, over)
  BY <1>0, <1>6, QueuesKept
<1>8. \A j \in Mads : j # m => Good(class[j], M[j])
  BY <1>0, <1>3 DEF Goods
<1>9. CASE q = <<>>
  <2>1. ib_mad_complete_send_wr(M, m, "ok") /\ over' = over
    BY <1>1, <1>9 DEF SendDone
  <2>2. Goods(mad') /\ Queues(mad', cc', smp', over)
    BY <1>0, <1>3, <1>4, <1>7, <1>8, <2>1, PutOk
  <2> QED BY <2>1, <2>2
<1>10. CASE q # <<>>
  <2>1. PICK h, r, M1, ov : /\ h = Head(q) /\ r = Tail(q) /\ ov = [over EXCEPT ![c] = r]
                            /\ M1 = [M EXCEPT ![h] = Posted(@, "qp")]
    OBVIOUS
  <2>2. ib_mad_complete_send_wr(M1, m, "ok") /\ over' = ov
    BY <1>1, <1>10, <2>1 DEF SendDone
  <2>3. /\ over \in [QpOf -> Seq(Mads)] /\ \A d \in QpOf : Once(over[d])
        /\ \A d \in QpOf : \A j \in Elems(over[d]) : class[j] = d /\ mad[j].hw = "qover"
    BY <1>0 DEF Queues, QpInv
  <2>4. c \in QpOf /\ q \in Seq(Mads) /\ Once(q)
    BY <1>0, <1>1, <2>3
  <2>5. /\ h \in Mads /\ h \in Elems(q) /\ r \in Seq(Mads) /\ Once(r)
        /\ Elems(r) = Elems(q) \ {h}
    BY <1>10, <2>1, <2>4, TailElems
  <2>6. mad[h].hw = "qover" /\ h # m /\ M[h] = mad[h] /\ Good(class[h], mad[h]) /\ mad[h] \in MadType
    BY <1>0, <1>1, <1>3, <2>3, <2>4, <2>5 DEF Goods
  <2>7. PICK z : z = Posted(mad[h], "qp")
    OBVIOUS
  <2>8. /\ z \in MadType /\ z.hw = "qp" /\ z.place = mad[h].place
        /\ z.refcount = mad[h].refcount /\ z.live = mad[h].live /\ z.status = mad[h].status
        /\ z.canceled = mad[h].canceled /\ z.resp = mad[h].resp /\ z.told = mad[h].told
    <3>1. "qp" \in Hws
      BY DEF Hws
    <3> QED BY <2>6, <2>7, <3>1, PostedFields
  <2>9. Good(class[h], z)
    BY <2>6, <2>8 DEF Good, One
  <2>10. /\ M1 \in [Mads -> MadType] /\ M1[h] = z
         /\ \A j \in Mads : j # h => M1[j] = M[j]
    BY <1>3, <2>1, <2>5, <2>6, <2>7, <2>8
  <2>11. \A j \in Mads : j # m => Good(class[j], M1[j])
    BY <1>8, <2>9, <2>10
  <2>12. M1[m] = y
    BY <1>3, <2>6, <2>10
  <2>13. \A j \in Mads : /\ KeepsCc(class[j], M[j], M1[j]) /\ KeepsSmp(class[j], M[j], M1[j])
                         /\ KeepsOut(M[j], M1[j])
    BY <2>6, <2>8, <2>10 DEF KeepsCc, KeepsSmp, KeepsOut, Sa, Sm
  <2>14. CcInv(M1, cc, 0) /\ SmpInv(M1, smp, 0)
    BY <1>0, <1>7, <2>13, CcKept, SmpKept DEF Queues
  <2>15. SmpMoves(M1, smp)
    BY <1>7, <2>13, MovesKept DEF Queues
  <2>16. ov \in [QpOf -> Seq(Mads)] /\ ov[c] = r /\ \A d \in QpOf : d # c => ov[d] = over[d]
    BY <2>1, <2>3, <2>4, <2>5
  <2>17. ASSUME NEW d \in QpOf, NEW j \in Elems(ov[d]) PROVE class[j] = d /\ M1[j].hw = "qover"
    <3>1. j \in Elems(over[d]) /\ (d = c => j # h)
      BY <1>1, <2>5, <2>16, <2>17
    <3>2. class[j] = d /\ mad[j].hw = "qover" /\ (j = h => d = c)
      BY <1>1, <2>3, <2>4, <2>5, <3>1
    <3>3. j \in Mads
      <4>1. over[d] \in Seq(Mads)
        BY <2>3
      <4> QED BY <3>1, <4>1, EmptyElems
    <3> QED BY <1>0, <1>3, <2>10, <3>1, <3>2, <3>3
  <2>18. \A d \in QpOf : Once(ov[d])
    BY <2>3, <2>5, <2>16
  <2>19. QpInv(M1, ov)
    BY <2>16, <2>17, <2>18 DEF QpInv
  <2>20. Queues(M1, cc, smp, ov)
    BY <2>14, <2>15, <2>19 DEF Queues
  <2>21. Goods(mad') /\ Queues(mad', cc', smp', ov)
    BY <1>0, <1>4, <2>2, <2>10, <2>11, <2>12, <2>20, PutOk
  <2> QED BY <2>2, <2>21
<1> QED BY <1>9, <1>10

(* ib_mad_complete_recv() finds the request of a response. *)
LEMMA StepResponse ==
    ASSUME Inv, NEW m \in Mads, Response(m)
    PROVE  Goods(mad') /\ Queues(mad', cc', smp', over')
<1>0. /\ Goods(mad) /\ mad[m] \in MadType /\ Good(class[m], mad[m]) /\ mad \in [Mads -> MadType]
      /\ cc' = cc /\ smp' = smp /\ over' = over
  BY DEF Inv, Goods, Response
<1>1. PICK x, p, y : /\ x = mad[m] /\ p = (IF x.refcount = 1 THEN "done" ELSE x.place)
                     /\ y = [x EXCEPT !.live = FALSE, !.resp = TRUE, !.place = p]
  OBVIOUS
<1>2. /\ x.status = "ok" /\ ~x.resp
      /\ x.place = "wait" \/ (x.place = "list" /\ x.live)
      /\ x \in MadType /\ Good(class[m], x)
  BY <1>0, <1>1 DEF Response
<1>3. mad' = [mad EXCEPT ![m] = y]
  BY <1>0, <1>1 DEF Response
<1>4. p \in Places
  BY <1>1, <1>2 DEF Places, MadType
<1>5. /\ y \in MadType /\ y.place = p /\ y.live = FALSE /\ y.resp = TRUE
      /\ y.refcount = x.refcount /\ y.hw = x.hw /\ y.status = x.status
      /\ y.canceled = x.canceled /\ y.told = x.told
  BY <1>1, <1>2, <1>4 DEF MadType
<1>6. \/ x.place = "wait" /\ x.hw = "none" /\ x.refcount = 1 /\ p = "done"
      \/ x.place = "list" /\ x.hw # "none" /\ x.refcount = 2 /\ p = "list"
  <2>1. CASE x.place = "wait"
    <3>1. x.refcount = 1 /\ x.hw = "none"
      BY <1>2, <2>1 DEF Good, One
    <3> QED BY <1>1, <2>1, <3>1
  <2>2. CASE x.place = "list" /\ x.live
    <3>1. x.refcount = 2 /\ x.hw # "none"
      BY <1>2, <2>2 DEF Good, One
    <3> QED BY <1>1, <2>2, <3>1
  <2> QED BY <1>2, <2>1, <2>2
<1>7. Good(class[m], y)
  BY <1>2, <1>5, <1>6 DEF Good, One
<1>8. Keeps(class[m], x, y)
  BY <1>5, <1>6 DEF Keeps, KeepsCc, KeepsSmp, KeepsOut, KeepsQp, Sa, Sm
<1> QED BY <1>0, <1>1, <1>3, <1>7, <1>8, QuietStep

(* ib_mad_complete_recv() completes the request. *)
LEMMA StepComplete ==
    ASSUME Inv, NEW m \in Mads, Complete(m)
    PROVE  Goods(mad') /\ Queues(mad', cc', smp', over')
<1>0. /\ Goods(mad) /\ Queues(mad, cc, smp, over) /\ AgentInv /\ TimerInv
      /\ mad[m] \in MadType /\ Good(class[m], mad[m]) /\ mad \in [Mads -> MadType]
      /\ mad[m].resp /\ over' = over
      /\ cc \in CcType /\ Elems(cc.fifo) \subseteq Elems(cc.to)
  BY DEF Inv, Goods, Complete, TimerInv
<1>1. PICK y, M : y = [mad[m] EXCEPT !.resp = FALSE] /\ M = [mad EXCEPT ![m].resp = FALSE]
  OBVIOUS
<1>2. /\ y \in MadType /\ y.hw = mad[m].hw /\ y.place = mad[m].place
      /\ y.refcount = mad[m].refcount /\ y.live = mad[m].live /\ y.status = mad[m].status
      /\ y.canceled = mad[m].canceled /\ y.resp = FALSE /\ y.told = mad[m].told
  BY <1>0, <1>1 DEF MadType
<1>3. M \in [Mads -> MadType] /\ M[m] = y /\ \A j \in Mads : j # m => M[j] = mad[j]
  BY <1>0, <1>1, <1>2
<1>4. Owed(class[m], y)
  <2>1. /\ mad[m].place \in {"list", "done"} /\ mad[m].told = 0 /\ ~mad[m].live
        /\ mad[m].hw \in {"smpover", "smpout"} => class[m] = "smp"
        /\ mad[m].place = "done" => mad[m].hw = "none"
    BY <1>0 DEF Good, One
  <2>2. mad[m].refcount = One(mad[m].hw # "none") + 0 + 1
    BY <1>0, <2>1 DEF Good, One
  <2>3. y.refcount = One(y.hw # "none") + 0 + 0 + 1
    BY <1>2, <2>2 DEF One
  <2> QED BY <1>2, <2>1, <2>3 DEF Owed, One
<1>5. Keeps(class[m], mad[m], M[m])
  BY <1>0, <1>2, <1>3 DEF Keeps, KeepsCc, KeepsSmp, KeepsOut, KeepsQp, Sa, Sm
<1>6. \A j \in Mads : Keeps(class[j], mad[j], M[j])
  BY <1>3, <1>5 DEF Keeps, KeepsCc, KeepsSmp, KeepsOut, KeepsQp
<1>7. Queues(M, cc, smp, over)
  BY <1>0, <1>6, QueuesKept
<1>8. \A j \in Mads : j # m => Good(class[j], M[j])
  BY <1>0, <1>3 DEF Goods
<1>9. ib_mad_complete_send_wr(M, m, "ok")
  BY <1>1 DEF Complete
<1>10. Goods(mad') /\ Queues(mad', cc', smp', over)
  BY <1>0, <1>3, <1>4, <1>7, <1>8, <1>9, PutOk
<1> QED BY <1>0, <1>10

(* timeout_sends(). *)
LEMMA StepTimeoutSends ==
    ASSUME Inv, NEW m \in Mads, TimeoutSends(m)
    PROVE  Goods(mad') /\ Queues(mad', cc', smp', over')
<1>0. /\ Goods(mad) /\ Queues(mad, cc, smp, over) /\ AgentInv /\ TimerInv
      /\ mad[m] \in MadType /\ Good(class[m], mad[m]) /\ mad \in [Mads -> MadType]
      /\ mad[m].place = "wait" /\ class[m] \in {"sa", "smp"}
      /\ cc \in CcType /\ Elems(cc.fifo) \subseteq Elems(cc.to)
  BY DEF Inv, Goods, TimeoutSends, TimerInv, AgentInv
<1>01. /\ mad[m].hw = "none" /\ ~mad[m].resp /\ mad[m].told = 0 /\ mad[m].live
       /\ mad[m].refcount \in 0..2 /\ (mad[m].status = "ok" => mad[m].refcount = 1)
  BY <1>0 DEF Good, One
<1>1. PICK x, r, n, a : /\ x = mad[m] /\ r = x.retries_left - 1 /\ n = x.refcount + 1
                        /\ a = [x EXCEPT !.retries_left = r, !.live = TRUE, !.refcount = n,
                                         !.place = "list"]
  OBVIOUS
<1>2. CASE /\ x.status = "ok" /\ x.retries_left > 0 /\ over' = OverSent(m) /\ cc' = cc
           /\ LET S == [M |-> [mad EXCEPT ![m] = SentMad(a, m)], w |-> SmpWith(m)]
                  D == IF class[m] = "smp" THEN smp_mad_done(S) ELSE S
              IN  mad' = D.M /\ smp' = D.w
  <2>1. r \in Nat /\ n \in Int /\ n = 2
    BY <1>0, <1>01, <1>1, <1>2, MadFields
  <2>2. Ready(a)
    BY <1>0, <1>01, <1>1, <1>2, <2>1 DEF Ready, MadType, Places
  <2>3. PICK M : M = [mad EXCEPT ![m] = SentMad(a, m)]
    OBVIOUS
  <2>4. /\ Goods(M) /\ CcInv(M, cc, 0) /\ QpInv(M, OverSent(m))
        /\ class[m] = "sa" => SmpInv(M, SmpWith(m), 0) /\ SmpMoves(M, SmpWith(m))
        /\ class[m] = "smp" => SmpInv(M, SmpWith(m), 1)
    BY <1>0, <2>2, <2>3, SentOk
  <2>5. CASE class[m] = "sa"
    <3>1. mad' = M /\ smp' = SmpWith(m)
      BY <1>2, <2>3, <2>5
    <3> QED BY <1>2, <2>4, <2>5, <3>1 DEF Queues
  <2>6. CASE class[m] = "smp"
    <3>1. PICK w, D : w = SmpWith(m) /\ D = smp_mad_done([M |-> M, w |-> w])
      OBVIOUS
    <3>2. mad' = D.M /\ smp' = D.w
      BY <1>2, <2>3, <2>6, <3>1
    <3>3. Goods(D.M) /\ Queues(D.M, cc, D.w, OverSent(m))
      BY <1>0, <2>4, <2>6, <3>1, SmpDone
    <3> QED BY <1>2, <3>2, <3>3
  <2> QED BY <1>0, <2>5, <2>6
<1>3. ASSUME NEW w, Queues(mad, cc, w, over), over' = over,
             Ended([mad EXCEPT ![m] = [x EXCEPT !.status = IF @ = "ok" THEN "timeout" ELSE @]],
                   m, w)
      PROVE  Goods(mad') /\ Queues(mad', cc', smp', over')
  <2>1. PICK t : t = IF x.status = "ok" THEN "timeout" ELSE x.status
    OBVIOUS
  <2>2. t \in Results
    BY <1>0, <1>1, <2>1, MadFields DEF Results
  <2>3. PICK y, M : y = [x EXCEPT !.status = t] /\ M = [mad EXCEPT ![m] = y]
    OBVIOUS
  <2>4. /\ y \in MadType /\ y.status = t /\ y.place = "wait" /\ y.refcount = x.refcount
        /\ y.hw = "none" /\ y.canceled = x.canceled /\ y.resp = x.resp /\ y.told = 0
    BY <1>0, <1>01, <1>1, <2>2, <2>3, StatusSet
  <2>5. M \in [Mads -> MadType] /\ M[m] = y /\ \A j \in Mads : j # m => M[j] = mad[j]
    BY <1>0, <2>3, <2>4
  <2>6. \A j \in Mads : Keeps(class[j], mad[j], M[j])
    BY <1>0, <1>01, <1>1, <2>4, <2>5 DEF Keeps, KeepsCc, KeepsSmp, KeepsOut, KeepsQp, Sa, Sm
  <2>7. Queues(M, cc, w, over)
    BY <1>0, <1>3, <2>6, QueuesKept
  <2>8. Ending(M[m]) /\ \A j \in Mads : j # m => Good(class[j], M[j])
    BY <1>0, <1>01, <1>1, <2>4, <2>5 DEF Ending, Goods
  <2>9. Ended(M, m, w)
    BY <1>3, <2>1, <2>3
  <2>10. Goods(mad') /\ Queues(mad', cc', smp', over)
    BY <1>0, <2>5, <2>7, <2>8, <2>9, EndedOk
  <2> QED BY <1>3, <2>10
<1>4. CASE \E w : /\ w = smp \/ SendFails(m, w)
                  /\ Ended([mad EXCEPT ![m] = [x EXCEPT !.status = IF @ = "ok" THEN "timeout" ELSE @]],
                           m, w)
                  /\ over' = over
  <2>1. PICK w : /\ w = smp \/ SendFails(m, w)
                 /\ Ended([mad EXCEPT ![m] = [x EXCEPT !.status = IF @ = "ok" THEN "timeout" ELSE @]],
                          m, w)
                 /\ over' = over
    BY <1>4
  <2>2. Queues(mad, cc, w, over)
    BY <1>0, <2>1, FailsOk
  <2> QED BY <1>3, <2>1, <2>2
<1> QED BY <1>1, <1>2, <1>4 DEF TimeoutSends

(* The MADs of E leave the FIFO for good. *)
LEMMA CutStep ==
    ASSUME Inv, NEW E \in SUBSET Mads, \A j \in E : mad[j].place = "cc",
           mad' \in [Mads -> MadType], smp' = smp, over' = over,
           \A j \in Mads : j \notin E => mad'[j] = mad[j],
           \A j \in E : /\ Good(class[j], mad'[j]) /\ mad'[j].hw = mad[j].hw
                        /\ mad'[j].place \in {"exp", "gone"},
           Elems(cc'.fifo) = Elems(cc.fifo) \ E, Elems(cc'.to) = Elems(cc.to) \ E,
           cc'.outstanding = cc.outstanding
    PROVE  Goods(mad') /\ Queues(mad', cc', smp', over')
<1>0. /\ Goods(mad) /\ Queues(mad, cc, smp, over)
      /\ cc \in CcType /\ Elems(cc.fifo) \subseteq Elems(cc.to)
  BY DEF Inv, TimerInv
<1>00. Elems(cc.to) \subseteq Mads
  BY <1>0, CcFields, EmptyElems
<1>01. /\ cc.outstanding = Cardinality(SaHold(mad)) + 0 /\ cc.outstanding <= SaWindow
       /\ \A j \in Elems(cc.to) : mad[j].place = "cc"
       /\ \A j \in Elems(cc.fifo) : mad[j].canceled \/ cc.outstanding = SaWindow
  BY <1>0 DEF Queues, CcInv
<1>1. Goods(mad')
  BY <1>0 DEF Goods
<1>2. \A j \in Mads : /\ Sa(class[j], mad[j]) <=> Sa(class[j], mad'[j])
                      /\ KeepsSmp(class[j], mad[j], mad'[j]) /\ KeepsOut(mad[j], mad'[j])
                      /\ KeepsQp(mad[j], mad'[j])
  BY DEF Sa, Sm, KeepsSmp, KeepsOut, KeepsQp
<1>3. SaHold(mad') = SaHold(mad)
  BY <1>2 DEF SaHold
<1>4. CcInv(mad', cc', 0)
  <2>1. \A j \in Elems(cc'.to) : mad'[j].place = "cc"
    BY <1>00, <1>01
  <2>2. \A j \in Elems(cc'.fifo) : mad'[j].canceled \/ cc'.outstanding = SaWindow
    BY <1>0, <1>00, <1>01
  <2> QED BY <1>01, <1>3, <2>1, <2>2 DEF CcInv
<1>5. SmpInv(mad', smp, 0) /\ QpInv(mad', over)
  BY <1>0, <1>2, SmpKept, QpKept DEF Queues
<1>6. SmpMoves(mad', smp)
  BY <1>0, <1>2, MovesKept DEF Queues
<1> QED BY <1>1, <1>4, <1>5, <1>6 DEF Queues

(* timeout_handler_task() takes what has expired. *)
LEMMA StepExpireCut ==
    ASSUME Inv, NEW k \in 0..Len(cc.to), ExpireCut(k)
    PROVE  Goods(mad') /\ Queues(mad', cc', smp', over')
<1>0. /\ Goods(mad) /\ Queues(mad, cc, smp, over) /\ mad \in [Mads -> MadType]
      /\ cc \in CcType /\ smp' = smp /\ over' = over
  BY DEF Inv, Goods, ExpireCut, TimerInv
<1>00. cc.fifo \in Seq(Mads) /\ cc.to \in Seq(Mads) /\ Len(cc.to) \in Nat
  BY <1>0, CcFields
<1>1. PICK E, f, t, w, r, x :
         /\ E = {cc.to[i] : i \in 1..k} /\ f = Without(cc.fifo, E) /\ t = Without(cc.to, E)
         /\ w = (IF cc.running THEN cc.work ELSE NoMad) /\ r = (k > 0)
         /\ x = IF k = 0 /\ cc.to # <<>> THEN Head(cc.to) ELSE cc.timer
  OBVIOUS
<1>2. Elems(f) = Elems(cc.fifo) \ E /\ Elems(t) = Elems(cc.to) \ E
  BY <1>00, <1>1, WithoutElems
<1>3. cc' = [cc EXCEPT !.fifo = f, !.to = t, !.work = w, !.running = r, !.timer = x]
  BY <1>1 DEF ExpireCut
<1>4. cc'.fifo = f /\ cc'.to = t /\ cc'.outstanding = cc.outstanding
  BY <1>0, <1>3 DEF CcType
<1>5. E \in SUBSET Mads /\ \A j \in E : mad[j].place = "cc"
  <2>1. \A i \in 1..k : i \in 1..Len(cc.to)
    BY <1>00
  <2>2. E \subseteq Elems(cc.to)
    BY <1>1, <2>1 DEF Elems
  <2>3. Elems(cc.to) \subseteq Mads
    BY <1>00, EmptyElems
  <2> QED BY <1>0, <2>2, <2>3 DEF Queues, CcInv
<1>6. mad' = [j \in Mads |-> IF j \in E THEN [mad[j] EXCEPT !.place = "exp"] ELSE mad[j]]
  BY <1>1 DEF ExpireCut
<1>7. ASSUME NEW j \in E
      PROVE  /\ mad'[j] \in MadType /\ Good(class[j], mad'[j]) /\ mad'[j].hw = mad[j].hw
             /\ mad'[j].place \in {"exp", "gone"}
  <2>0. mad[j] \in MadType /\ Good(class[j], mad[j]) /\ mad[j].place = "cc"
    BY <1>0, <1>5 DEF Goods
  <2>1. PICK y : y = [mad[j] EXCEPT !.place = "exp"]
    OBVIOUS
  <2>2. /\ y \in MadType /\ y.place = "exp" /\ y.refcount = mad[j].refcount
        /\ y.live = mad[j].live /\ y.hw = mad[j].hw /\ y.status = mad[j].status
        /\ y.resp = mad[j].resp /\ y.told = mad[j].told
    <3>1. "exp" \in Places
      BY DEF Places
    <3> QED BY <2>0, <2>1, <3>1, PlaceSet
  <2>3. Good(class[j], y)
    BY <2>0, <2>2 DEF Good, One
  <2>4. mad'[j] = y
    BY <1>5, <1>6, <2>1
  <2> QED BY <2>2, <2>3, <2>4
<1>8. \A j \in Mads : j \notin E => mad'[j] = mad[j]
  BY <1>6
<1>9. mad' \in [Mads -> MadType]
  <2>1. mad' = [j \in Mads |-> mad'[j]]
    BY <1>6
  <2> QED BY <1>0, <1>7, <1>8, <2>1
<1> QED BY <1>0, <1>2, <1>4, <1>5, <1>7, <1>8, <1>9, CutStep

(* cancel_mads(): tf_free_agent(). *)
LEMMA StepUnregCc ==
    ASSUME Inv, NEW a \in Agents, UnregCc(a)
    PROVE  Goods(mad') /\ Queues(mad', cc', smp', over')
<1>0. /\ Goods(mad) /\ mad \in [Mads -> MadType]
      /\ cc \in CcType /\ smp' = smp /\ over' = over
  BY DEF Inv, Goods, UnregCc, TimerInv
<1>00. cc.fifo \in Seq(Mads) /\ cc.to \in Seq(Mads)
  BY <1>0, CcFields
<1>1. PICK E, f, t : /\ E = {m \in Mads : AgentOf[m] = a /\ mad[m].place = "cc"}
                     /\ f = Without(cc.fifo, E) /\ t = Without(cc.to, E)
  OBVIOUS
<1>2. Elems(f) = Elems(cc.fifo) \ E /\ Elems(t) = Elems(cc.to) \ E
  BY <1>00, <1>1, WithoutElems
<1>3. /\ cc' = [cc EXCEPT !.fifo = f, !.to = t]
      /\ mad' = [m \in Mads |-> IF m \in E THEN [Tell(mad[m]) EXCEPT !.status = "flush"]
                                ELSE mad[m]]
  BY <1>1 DEF UnregCc
<1>4. cc'.fifo = f /\ cc'.to = t /\ cc'.outstanding = cc.outstanding
  BY <1>0, <1>3 DEF CcType
<1>5. E \in SUBSET Mads /\ \A j \in E : mad[j].place = "cc"
  BY <1>1
<1>7. ASSUME NEW j \in E
      PROVE  /\ mad'[j] \in MadType /\ Good(class[j], mad'[j]) /\ mad'[j].hw = mad[j].hw
             /\ mad'[j].place \in {"exp", "gone"}
  <2>0. mad[j] \in MadType /\ Good(class[j], mad[j]) /\ mad[j].place = "cc"
    BY <1>0, <1>5 DEF Goods
  <2>00. /\ mad[j].told = 0 /\ mad[j].hw = "none" /\ ~mad[j].resp /\ mad[j].refcount \in 0..2
    BY <2>0 DEF Good, One
  <2>1. PICK z, y : z = Tell(mad[j]) /\ y = [z EXCEPT !.status = "flush"]
    OBVIOUS
  <2>2. /\ z \in MadType /\ z.place = "gone" /\ z.told = 1 /\ z.hw = mad[j].hw
        /\ z.resp = mad[j].resp /\ z.refcount = mad[j].refcount
    BY <2>0, <2>00, <2>1, TellFields
  <2>3. /\ y \in MadType /\ y.place = z.place /\ y.told = z.told /\ y.hw = z.hw
        /\ y.resp = z.resp /\ y.refcount = z.refcount
    <3>1. "flush" \in Results
      BY DEF Results
    <3> QED BY <2>1, <2>2, <3>1, StatusSet
  <2>4. Good(class[j], y)
    BY <2>00, <2>2, <2>3 DEF Good, One
  <2>5. mad'[j] = y
    BY <1>3, <1>5, <2>1
  <2> QED BY <2>2, <2>3, <2>4, <2>5
<1>8. \A j \in Mads : j \notin E => mad'[j] = mad[j]
  BY <1>3
<1>9. mad' \in [Mads -> MadType]
  <2>1. mad' = [j \in Mads |-> mad'[j]]
    BY <1>3
  <2> QED BY <1>0, <1>7, <1>8, <2>1
<1> QED BY <1>0, <1>2, <1>4, <1>5, <1>7, <1>8, <1>9, CutStep

(* timeout_handler_task() reports what has expired. *)
LEMMA StepExpireNotify ==
    ASSUME Inv, NEW m \in Mads, ExpireNotify(m)
    PROVE  Goods(mad') /\ Queues(mad', cc', smp', over')
<1>0. /\ mad[m] \in MadType /\ Good(class[m], mad[m]) /\ mad[m].place = "exp"
      /\ cc' = cc /\ smp' = smp /\ over' = over
  BY DEF Inv, Goods, ExpireNotify
<1>00. /\ mad[m].told = 0 /\ mad[m].hw = "none" /\ ~mad[m].resp /\ mad[m].refcount \in 0..2
  BY <1>0 DEF Good, One
<1>1. PICK z, t, y : /\ z = Tell(mad[m]) /\ t = (IF mad[m].canceled THEN "flush" ELSE "timeout")
                     /\ y = [z EXCEPT !.canceled = FALSE, !.status = t]
  OBVIOUS
<1>2. /\ z \in MadType /\ z.place = "gone" /\ z.told = 1 /\ z.hw = mad[m].hw
      /\ z.resp = mad[m].resp /\ z.refcount = mad[m].refcount
  BY <1>0, <1>00, <1>1, TellFields
<1>3. t \in Results
  BY <1>1 DEF Results
<1>4. /\ y \in MadType /\ y.place = z.place /\ y.told = z.told /\ y.hw = z.hw
      /\ y.resp = z.resp /\ y.refcount = z.refcount
  BY <1>1, <1>2, <1>3 DEF MadType
<1>5. Good(class[m], y)
  BY <1>00, <1>2, <1>4 DEF Good, One
<1>6. Keeps(class[m], mad[m], y)
  BY <1>0, <1>00, <1>2, <1>4 DEF Keeps, KeepsCc, KeepsSmp, KeepsOut, KeepsQp, Sa, Sm
<1>7. mad' = [mad EXCEPT ![m] = y]
  BY <1>1 DEF ExpireNotify
<1> QED BY <1>0, <1>5, <1>6, <1>7, QuietStep

(* The FIFO changes only in its timers, or in MADs that were given it. *)
LEMMA FifoStep ==
    ASSUME Inv, Goods(mad'), \A j \in Mads : KeepsSmp(class[j], mad[j], mad'[j]),
           \A j \in Mads : KeepsOut(mad[j], mad'[j]) /\ KeepsQp(mad[j], mad'[j]),
           \A j \in Mads : Sa(class[j], mad[j]) <=> Sa(class[j], mad'[j]),
           \A j \in Elems(cc'.to) : mad'[j].place = "cc",
           \A j \in Elems(cc'.fifo) : mad'[j].canceled \/ cc.outstanding = SaWindow,
           cc'.outstanding = cc.outstanding, smp' = smp, over' = over
    PROVE  Queues(mad', cc', smp', over')
<1>0. Queues(mad, cc, smp, over)
  BY DEF Inv
<1>1. SaHold(mad') = SaHold(mad)
  BY DEF SaHold
<1>2. CcInv(mad', cc', 0)
  BY <1>0, <1>1 DEF Queues, CcInv
<1>3. SmpInv(mad', smp, 0) /\ QpInv(mad', over)
  BY <1>0, SmpKept, QpKept DEF Queues
<1>4. SmpMoves(mad', smp)
  BY <1>0, MovesKept DEF Queues
<1> QED BY <1>2, <1>3, <1>4 DEF Queues

(* activate_timeout_handler_task(). *)
LEMMA StepTimerFire ==
    ASSUME Inv, TimerFire
    PROVE  Goods(mad') /\ Queues(mad', cc', smp', over')
<1>0. /\ Goods(mad) /\ Queues(mad, cc, smp, over) /\ cc \in CcType
      /\ mad' = mad /\ smp' = smp /\ over' = over
  BY DEF Inv, TimerFire, TimerInv
<1>1. PICK x, n : x = cc.timer /\ n = NoMad
  OBVIOUS
<1>2. cc' = [cc EXCEPT !.timer = n, !.work = x]
  BY <1>1 DEF TimerFire
<1>3. cc'.fifo = cc.fifo /\ cc'.to = cc.to /\ cc'.outstanding = cc.outstanding
  BY <1>0, <1>2 DEF CcType
<1>4. CcInv(mad', cc', 0)
  BY <1>0, <1>3 DEF Queues, CcInv
<1> QED BY <1>0, <1>4 DEF Queues

(* An entry of the FIFO is cancelled. *)
LEMMA StepCancelItem ==
    ASSUME Inv, NEW m \in Mads, tf_cancel_item(m), smp' = smp, over' = over
    PROVE  Goods(mad') /\ Queues(mad', cc', smp', over')
<1>0. /\ Goods(mad) /\ Queues(mad, cc, smp, over) /\ mad \in [Mads -> MadType]
      /\ mad[m] \in MadType /\ Good(class[m], mad[m]) /\ mad[m].place = "cc"
      /\ cc \in CcType /\ Elems(cc.fifo) \subseteq Elems(cc.to)
  BY DEF Inv, Goods, tf_cancel_item, TimerInv
<1>1. cc.fifo \in Seq(Mads) /\ cc.to \in Seq(Mads)
  BY <1>0, CcFields
<1>2. PICK p, g, l : /\ p = Without(cc.to, {m}) /\ g = Without(cc.fifo, {m})
                     /\ l = IF cc.late = m THEN NoMad ELSE cc.late
  OBVIOUS
<1>3. /\ p \in Seq(Mads) /\ Elems(p) = Elems(cc.to) \ {m}
      /\ g \in Seq(Mads) /\ Elems(g) = Elems(cc.fifo) \ {m}
  BY <1>1, <1>2, WithoutElems
<1>4. PICK f, t : t = <<m>> \o p /\ f = Append(g, m)
  OBVIOUS
<1>5. Elems(t) = Elems(p) \cup {m} /\ Elems(f) = Elems(g) \cup {m}
  BY <1>3, <1>4, ConsElems, AppendElems
<1>6. cc' = [cc EXCEPT !.to = t, !.fifo = f, !.timer = m, !.late = l]
  BY <1>2, <1>4 DEF tf_cancel_item
<1>7. cc'.fifo = f /\ cc'.to = t /\ cc'.outstanding = cc.outstanding
  BY <1>0, <1>6 DEF CcType
<1>8. PICK y : y = [mad[m] EXCEPT !.canceled = TRUE]
  OBVIOUS
<1>9. /\ y \in MadType /\ y.place = mad[m].place /\ y.refcount = mad[m].refcount
      /\ y.live = mad[m].live /\ y.hw = mad[m].hw /\ y.status = mad[m].status
      /\ y.canceled = TRUE /\ y.resp = mad[m].resp /\ y.told = mad[m].told
  BY <1>0, <1>8 DEF MadType
<1>10. mad' \in [Mads -> MadType] /\ mad'[m] = y /\ \A j \in Mads : j # m => mad'[j] = mad[j]
  <2>1. mad' = [mad EXCEPT ![m] = y]
    BY <1>8 DEF tf_cancel_item
  <2> QED BY <1>0, <1>9, <2>1
<1>11. Good(class[m], y)
  BY <1>0, <1>9 DEF Good
<1>12. Goods(mad')
  BY <1>0, <1>10, <1>11 DEF Goods
<1>13. \A j \in Mads : /\ Sa(class[j], mad[j]) <=> Sa(class[j], mad'[j])
                       /\ KeepsSmp(class[j], mad[j], mad'[j]) /\ KeepsOut(mad[j], mad'[j])
                       /\ KeepsQp(mad[j], mad'[j])
  BY <1>9, <1>10 DEF Sa, Sm, KeepsSmp, KeepsOut, KeepsQp
<1>14. Elems(cc.to) \subseteq Mads
  BY <1>1, EmptyElems
<1>15. \A j \in Elems(t) : mad'[j].place = "cc"
  BY <1>0, <1>3, <1>5, <1>9, <1>10, <1>14 DEF Queues, CcInv
<1>16. \A j \in Elems(f) : mad'[j].canceled \/ cc.outstanding = SaWindow
  BY <1>0, <1>3, <1>5, <1>9, <1>10, <1>14 DEF Queues, CcInv
<1>17. Queues(mad', cc', smp', over')
  BY <1>7, <1>12, <1>13, <1>15, <1>16, FifoStep
<1> QED BY <1>12, <1>17

(* ib_cancel_mad(). *)
LEMMA StepCancelMad ==
    ASSUME Inv, NEW m \in Mads, CancelMad(m)
    PROVE  Goods(mad') /\ Queues(mad', cc', smp', over')
<1>0. /\ Goods(mad) /\ Queues(mad, cc, smp, over) /\ mad \in [Mads -> MadType]
      /\ mad[m] \in MadType /\ Good(class[m], mad[m])
      /\ cc \in CcType /\ Elems(cc.fifo) \subseteq Elems(cc.to)
      /\ smp' = smp /\ over' = over
  BY DEF Inv, Goods, CancelMad, TimerInv
<1>1. PICK x : x = mad[m]
  OBVIOUS
<1>2. CASE /\ x.place \in {"list", "wait"} /\ x.status = "ok" /\ cc' = cc
           /\ LET y == [x EXCEPT !.status = "flush", !.refcount = @ - Held(x)]
              IN  mad' = [mad EXCEPT ![m] = IF ~x.live \/ x.refcount > 1
                                            THEN [y EXCEPT !.live = FALSE]
                                            ELSE wait_for_response(y)]
  <2>0. /\ x \in MadType /\ Good(class[m], x) /\ x.refcount \in 0..2 /\ x.told = 0
        /\ x.live \in BOOLEAN
    BY <1>0, <1>1, <1>2, MadFields DEF Good, One
  <2>1. PICK n, y, z : /\ n = x.refcount - Held(x)
                       /\ y = [x EXCEPT !.status = "flush", !.refcount = n]
                       /\ z = IF ~x.live \/ x.refcount > 1 THEN [y EXCEPT !.live = FALSE]
                              ELSE wait_for_response(y)
    OBVIOUS
  <2>2. mad' = [mad EXCEPT ![m] = z]
    BY <1>2, <2>1
  <2>3. n \in Int /\ (x.live => n = x.refcount - 1) /\ (~x.live => n = x.refcount)
    BY <2>0, <2>1 DEF Held
  <2>4. /\ y \in MadType /\ y.status = "flush" /\ y.refcount = n /\ y.place = x.place
        /\ y.live = x.live /\ y.hw = x.hw /\ y.canceled = x.canceled
        /\ y.resp = x.resp /\ y.told = x.told
    BY <2>0, <2>1, <2>3 DEF MadType, Results
  <2>5. CASE ~x.live \/ x.refcount > 1
    <3>1. /\ z \in MadType /\ z.status = "flush" /\ z.refcount = n /\ z.place = x.place
          /\ z.live = FALSE /\ z.hw = x.hw /\ z.canceled = x.canceled
          /\ z.resp = x.resp /\ z.told = x.told
      BY <2>1, <2>4, <2>5 DEF MadType
    <3>2. x.place = "list" /\ n = One(x.hw # "none") + 0 + One(x.resp) /\ n \in 0..2
      <4>1. x.place = "list"
        BY <1>2, <2>0, <2>5 DEF Good, One
      <4>2. x.refcount = One(x.hw # "none") + One(x.live /\ x.status = "ok") + One(x.resp)
        BY <2>0, <4>1 DEF Good
      <4>3. n = One(x.hw # "none") + 0 + One(x.resp)
        BY <1>2, <2>0, <2>3, <4>2 DEF One
      <4>4. n \in {0, 1, 2}
        BY <4>3 DEF One
      <4> QED BY <4>1, <4>3, <4>4
    <3>3. Good(class[m], z)
      BY <1>2, <2>0, <3>1, <3>2 DEF Good, One
    <3>4. Keeps(class[m], x, z)
      BY <3>1 DEF Keeps, KeepsCc, KeepsSmp, KeepsOut, KeepsQp, Sa, Sm
    <3> QED BY <1>0, <1>1, <1>2, <2>2, <3>3, <3>4, QuietStep
  <2>6. CASE x.live /\ ~(x.refcount > 1)
    <3>1. /\ z \in MadType /\ z.status = "flush" /\ z.refcount = n /\ z.place = "wait"
          /\ z.live = TRUE /\ z.hw = x.hw /\ z.canceled = x.canceled
          /\ z.resp = x.resp /\ z.told = x.told
      BY <2>1, <2>4, <2>6 DEF MadType, wait_for_response, Places
    <3>2. x.place = "wait" /\ x.hw = "none" /\ ~x.resp /\ n = 0
      <4>1. x.place = "wait" /\ x.refcount = 1
        BY <1>2, <2>0, <2>6 DEF Good, One
      <4> QED BY <1>2, <2>0, <2>3, <2>6, <4>1 DEF Good
    <3>3. Good(class[m], z)
      BY <2>0, <3>1, <3>2 DEF Good, One
    <3>4. Keeps(class[m], x, z)
      BY <3>1, <3>2 DEF Keeps, KeepsCc, KeepsSmp, KeepsOut, KeepsQp, Sa, Sm
    <3> QED BY <1>0, <1>1, <1>2, <2>2, <3>3, <3>4, QuietStep
  <2> QED BY <2>0, <2>5, <2>6
<1> QED BY <1>1, <1>2, StepCancelItem DEF CancelMad

(* ib_modify_mad() with another timeout. *)
LEMMA StepModifyMad ==
    ASSUME Inv, NEW m \in Mads, ModifyMad(m)
    PROVE  Goods(mad') /\ Queues(mad', cc', smp', over')
<1>0. /\ Goods(mad) /\ Queues(mad, cc, smp, over) /\ cc \in CcType
      /\ smp' = smp /\ over' = over
  BY DEF Inv, ModifyMad, TimerInv
<1>00. cc.to \in Seq(Mads)
  BY <1>0, CcFields
<1>1. PICK p, b : p = Without(cc.to, {m}) /\ b = TRUE
  OBVIOUS
<1>2. p \in Seq(Mads) /\ Elems(p) = Elems(cc.to) \ {m}
  BY <1>00, <1>1, WithoutElems
<1>3. CASE cc' = [cc EXCEPT !.modified = TRUE] /\ mad' = mad
  <2>1. cc' = [cc EXCEPT !.modified = b]
    BY <1>1, <1>3
  <2>2. cc'.fifo = cc.fifo /\ cc'.to = cc.to /\ cc'.outstanding = cc.outstanding
    BY <1>0, <2>1 DEF CcType
  <2>3. CcInv(mad', cc', 0)
    BY <1>0, <1>3, <2>2 DEF Queues, CcInv
  <2> QED BY <1>0, <1>3, <2>3 DEF Queues
<1>4. ASSUME NEW i \in 0..Len(p), mad[m].place = "cc", mad' = mad,
             cc' = [cc EXCEPT !.to = InsertAt(p, i, m), !.timer = IF i = 0 THEN m ELSE @,
                              !.late = IF mad[m].canceled THEN m ELSE @, !.modified = TRUE]
      PROVE  Goods(mad') /\ Queues(mad', cc', smp', over')
  <2>1. PICK t, x, l : /\ t = InsertAt(p, i, m) /\ x = (IF i = 0 THEN m ELSE cc.timer)
                       /\ l = IF mad[m].canceled THEN m ELSE cc.late
    OBVIOUS
  <2>2. Elems(t) = Elems(p) \cup {m}
    BY <1>2, <2>1, InsertElems
  <2>3. cc' = [cc EXCEPT !.to = t, !.timer = x, !.late = l, !.modified = b]
    BY <1>1, <1>4, <2>1
  <2>4. cc'.fifo = cc.fifo /\ cc'.to = t /\ cc'.outstanding = cc.outstanding
    BY <1>0, <2>3 DEF CcType
  <2>5. CcInv(mad', cc', 0)
    BY <1>0, <1>2, <1>4, <2>2, <2>4 DEF Queues, CcInv
  <2> QED BY <1>0, <1>4, <2>5 DEF Queues
<1>5. CASE tf_cancel_item(m)
  BY <1>0, <1>5, StepCancelItem
<1> QED BY <1>1, <1>3, <1>4, <1>5 DEF ModifyMad

(* cancel_mads() under the agent's lock. *)
LEMMA StepUnregClose ==
    ASSUME Inv, NEW a \in Agents, UnregClose(a)
    PROVE  Goods(mad') /\ Queues(mad', cc', smp', over')
<1>0. /\ Goods(mad) /\ Queues(mad, cc, smp, over) /\ mad \in [Mads -> MadType] /\ AgentInv
      /\ cc \in CcType /\ Elems(cc.fifo) \subseteq Elems(cc.to)
      /\ cc' = cc /\ smp' = smp /\ over' = over
  BY DEF Inv, Goods, UnregClose, TimerInv
<1>1. ASSUME NEW j \in Mads
      PROVE  /\ mad'[j] \in MadType /\ Good(class[j], mad'[j])
             /\ Keeps(class[j], mad[j], mad'[j])
  <2>0. PICK x : x = mad[j]
    OBVIOUS
  <2>00. x \in MadType /\ Good(class[j], x) /\ x.refcount \in 0..2 /\ x.live \in BOOLEAN
    BY <1>0, <2>0, MadFields DEF Goods, Good
  <2>1. CASE mad'[j] = x
    BY <2>0, <2>00, <2>1 DEF Keeps, KeepsCc, KeepsSmp, KeepsOut, KeepsQp
  <2>2. CASE AgentOf[j] = a /\ x.place = "wait" /\ mad'[j] = [x EXCEPT !.place = "cancel"]
    <3>1. PICK y : y = [x EXCEPT !.place = "cancel"]
      OBVIOUS
    <3>2. /\ y \in MadType /\ y.place = "cancel" /\ y.refcount = x.refcount
          /\ y.live = x.live /\ y.hw = x.hw /\ y.status = x.status
          /\ y.resp = x.resp /\ y.told = x.told
      <4>1. "cancel" \in Places
        BY DEF Places
      <4> QED BY <2>00, <3>1, <4>1, PlaceSet
    <3>3. class[j] = "sa"
      BY <1>0, <2>2 DEF UnregClose, AgentInv
    <3>4. Good(class[j], y)
      BY <2>00, <2>2, <3>2, <3>3 DEF Good, One
    <3>5. Keeps(class[j], x, y)
      BY <2>2, <3>2 DEF Keeps, KeepsCc, KeepsSmp, KeepsOut, KeepsQp, Sa, Sm
    <3> QED BY <2>0, <2>2, <3>1, <3>2, <3>4, <3>5
  <2>3. CASE /\ x.place = "list" /\ x.status = "ok"
             /\ mad'[j] = [x EXCEPT !.status = "flush", !.refcount = @ - Held(x)]
    <3>1. PICK n, y : n = x.refcount - Held(x) /\ y = [x EXCEPT !.status = "flush", !.refcount = n]
      OBVIOUS
    <3>2. n \in Int /\ (x.live => n = x.refcount - 1) /\ (~x.live => n = x.refcount)
      BY <2>00, <3>1 DEF Held
    <3>3. /\ y \in MadType /\ y.status = "flush" /\ y.refcount = n /\ y.place = x.place
          /\ y.live = x.live /\ y.hw = x.hw /\ y.resp = x.resp /\ y.told = x.told
      BY <2>00, <3>1, <3>2 DEF MadType, Results
    <3>4. n = One(x.hw # "none") + 0 + One(x.resp) /\ n \in 0..2
      <4>1. x.refcount = One(x.hw # "none") + One(x.live /\ x.status = "ok") + One(x.resp)
        BY <2>00, <2>3 DEF Good
      <4>2. n = One(x.hw # "none") + 0 + One(x.resp)
        BY <2>00, <2>3, <3>2, <4>1 DEF One
      <4>3. n \in {0, 1, 2}
        BY <4>2 DEF One
      <4> QED BY <4>2, <4>3
    <3>5. Good(class[j], y)
      BY <2>00, <2>3, <3>3, <3>4 DEF Good, One
    <3>6. Keeps(class[j], x, y)
      BY <2>3, <3>3 DEF Keeps, KeepsCc, KeepsSmp, KeepsOut, KeepsQp, Sa, Sm
    <3> QED BY <2>0, <2>3, <3>1, <3>3, <3>5, <3>6
  <2> QED BY <2>0, <2>1, <2>2, <2>3 DEF UnregClose
<1>2. mad' \in [Mads -> MadType]
  <2>1. mad' = [j \in Mads |-> mad'[j]]
    BY DEF UnregClose
  <2> QED BY <1>1, <2>1
<1>3. Goods(mad')
  BY <1>1, <1>2 DEF Goods
<1>4. Queues(mad', cc, smp, over)
  BY <1>0, <1>1, QueuesKept
<1> QED BY <1>0, <1>3, <1>4

(* cancel_mads() reports a MAD. *)
LEMMA StepUnregReport ==
    ASSUME Inv, NEW m \in Mads, UnregReport(m)
    PROVE  Goods(mad') /\ Queues(mad', cc', smp', over')
<1>0. /\ Goods(mad) /\ Queues(mad, cc, smp, over) /\ AgentInv /\ TimerInv
      /\ mad[m] \in MadType /\ Good(class[m], mad[m]) /\ mad \in [Mads -> MadType]
      /\ mad[m].place = "cancel" /\ over' = over
      /\ cc \in CcType /\ Elems(cc.fifo) \subseteq Elems(cc.to)
  BY DEF Inv, Goods, UnregReport, TimerInv
<1>1. /\ class[m] = "sa" /\ mad[m].hw = "none" /\ ~mad[m].resp /\ mad[m].told = 0
      /\ mad[m].refcount \in 0..2
  BY <1>0 DEF Good, One
<1>2. PICK y, M : y = [mad[m] EXCEPT !.status = "flush"] /\ M = [mad EXCEPT ![m].status = "flush"]
  OBVIOUS
<1>3. /\ y \in MadType /\ y.place = "cancel" /\ y.refcount = mad[m].refcount
      /\ y.hw = "none" /\ y.canceled = mad[m].canceled /\ y.resp = mad[m].resp /\ y.told = 0
  <2>1. "flush" \in Results
    BY DEF Results
  <2> QED BY <1>0, <1>1, <1>2, <2>1, StatusSet
<1>4. M \in [Mads -> MadType] /\ M[m] = y /\ \A j \in Mads : j # m => M[j] = mad[j]
  BY <1>0, <1>2, <1>3
<1>5. \A j \in Mads : Keeps(class[j], mad[j], M[j])
  BY <1>0, <1>1, <1>3, <1>4 DEF Keeps, KeepsCc, KeepsSmp, KeepsOut, KeepsQp, Sa, Sm
<1>6. Queues(M, cc, smp, over)
  BY <1>0, <1>5, QueuesKept
<1>7. Ended(M, m, smp) /\ Ending(M[m]) /\ \A j \in Mads : j # m => Good(class[j], M[j])
  BY <1>0, <1>1, <1>2, <1>3, <1>4 DEF UnregReport, Ending, Goods
<1>8. Goods(mad') /\ Queues(mad', cc', smp', over)
  BY <1>0, <1>4, <1>6, <1>7, EndedOk
<1> QED BY <1>0, <1>8

(* cancel_mads(), at last: none of the agent's MADs is in the SMP window. *)
LEMMA StepUnregOverflow ==
    ASSUME Inv, NEW a \in Agents, UnregOverflow(a)
    PROVE  Goods(mad') /\ Queues(mad', cc', smp', over')
<1>0. /\ Goods(mad) /\ Queues(mad, cc, smp, over) /\ AgentInv /\ mad \in [Mads -> MadType]
      /\ agent[a] = "closed" /\ over' = over /\ cc' = cc
  BY DEF Inv, Goods, UnregOverflow
<1>1. PICK E : E = {m \in Mads : AgentOf[m] = a /\ mad[m].hw = "smpover"}
  OBVIOUS
<1>2. E = {}
  <2>1. SUFFICES ASSUME NEW m \in Mads, AgentOf[m] = a, mad[m].hw = "smpover" PROVE FALSE
    BY <1>1
  <2>2. class[m] = "sa"
    BY <1>0, <2>1 DEF AgentInv
  <2>3. Good(class[m], mad[m])
    BY <1>0 DEF Goods
  <2> QED BY <2>1, <2>2, <2>3 DEF Good
<1>3. mad' = mad
  <2>1. mad' = [m \in Mads |-> IF m \in E THEN [Tell(mad[m]) EXCEPT !.hw = "none"] ELSE mad[m]]
    BY <1>1 DEF UnregOverflow
  <2> QED BY <1>0, <1>2, <2>1
<1>4. PICK r : r = Without(smp.overflow, E)
  OBVIOUS
<1>5. smp' = [smp EXCEPT !.overflow = r]
  BY <1>1, <1>4 DEF UnregOverflow
<1>6. smp \in SmpType /\ smp.overflow \in Seq(Mads) /\ Once(smp.overflow)
  BY <1>0 DEF Queues, SmpInv, SmpType
<1>7. r \in Seq(Mads) /\ Elems(r) = Elems(smp.overflow) /\ Once(r)
  <2>1. r \in Seq(Mads) /\ Elems(r) = Elems(smp.overflow) \ E /\ Once(r)
    BY <1>4, <1>6, WithoutElems
  <2> QED BY <1>2, <2>1
<1>8. /\ smp' \in SmpType /\ smp'.overflow = r /\ smp'.outstanding = smp.outstanding
      /\ smp'.leaked = smp.leaked /\ smp'.extra = smp.extra
  BY <1>5, <1>6, <1>7 DEF SmpType
<1>9. r = <<>> <=> smp.overflow = <<>>
  BY <1>6, <1>7, EmptyElems
<1>10. SmpInv(mad, smp', 0)
  <2>1. SmpInv(mad, smp, 0)
    BY <1>0 DEF Queues
  <2>2. Span(Cardinality(SmpHold(mad)) + 0, smp')
    BY <1>8, <2>1 DEF SmpInv, Span
  <2> QED BY <1>7, <1>8, <2>1, <2>2 DEF SmpInv
<1>11. SmpMoves(mad, smp')
  BY <1>0, <1>8, <1>9 DEF Queues, SmpMoves
<1> QED BY <1>0, <1>3, <1>10, <1>11 DEF Queues

(* The invariant of the next state, with the MADs of the classes they were. *)
LEMMA Primed ==
    ASSUME class' = class, Goods(mad') /\ Queues(mad', cc', smp', over')
    PROVE  Goods(mad)' /\ Queues(mad, cc, smp, over)'
<1>1. SaHold(mad)' = SaHold(mad') /\ SmpHold(mad)' = SmpHold(mad')
  BY DEF SaHold, SmpHold
<1>2. CcInv(mad, cc, 0)'
  BY <1>1 DEF Queues, CcInv
<1>3. SmpInv(mad, smp, 0)' /\ SmpMoves(mad, smp)'
  BY <1>1 DEF Queues, SmpInv, SmpMoves, Span
<1>4. QpInv(mad, over)'
  BY DEF Queues, QpInv
<1>5. Goods(mad)'
  BY DEF Goods
<1> QED BY <1>2, <1>3, <1>4, <1>5 DEF Queues

(* The classes and the agents after a step. *)
LEMMA AgentStep ==
    ASSUME SmpSafe, AgentInv, [Next]_vars
    PROVE  AgentInv' /\ class' = class
<1>1. class' = class
  BY Zenon DEF Next, Client, Timer, Expire, MadStep, Cancel, vars, PostSa, PostSmp, CancelMad, ModifyMad,
         TimerFire, ExpireCut, SendHanded, SmpPost, SendDone, Complete, TimeoutSends,
         ExpireNotify, UnregReport, Response, UnregCc, UnregClose, UnregOverflow
<1>2. CASE agent' = agent
  BY <1>1, <1>2 DEF AgentInv
<1>3. ASSUME NEW a \in Agents, Cancel(a) PROVE AgentInv'
  <2>1. PICK v \in {"freed_cc", "closed", "drained"} : agent' = [agent EXCEPT ![a] = v]
    BY <1>3 DEF Cancel, UnregCc, UnregClose, UnregOverflow
  <2>2. agent' \in [Agents -> {"open", "freed_cc", "closed", "drained"}]
    BY <2>1 DEF AgentInv
  <2>3. ASSUME NEW m \in Mads, AgentOf[m] = a PROVE class[m] = "sa"
    <3>1. CASE UnregCc(a)
      <4>1. <<a, class[m]>> \in Unreg
        BY <2>3, <3>1 DEF UnregCc
      <4> QED BY <4>1 DEF SmpSafe, AgentInv
    <3>2. CASE UnregClose(a) \/ UnregOverflow(a)
      <4>1. agent[a] # "open"
        BY <3>2 DEF UnregClose, UnregOverflow
      <4> QED BY <2>3, <4>1 DEF AgentInv
    <3> QED BY <1>3, <3>1, <3>2 DEF Cancel
  <2>4. ASSUME NEW m \in Mads, agent'[AgentOf[m]] # "open" PROVE class[m] = "sa"
    <3>1. AgentOf[m] \in Agents
      BY MadSendAssumption DEF MadSendAssumption
    <3> QED BY <2>1, <2>3, <2>4, <3>1 DEF AgentInv
  <2> QED BY <1>1, <2>2, <2>4 DEF AgentInv
<1>4. UNCHANGED vars => agent' = agent
  BY Zenon DEF vars
<1>5. Client \/ Timer \/ Expire \/ (\E m \in Mads : MadStep(m)) => agent' = agent
  BY Zenon DEF Client, Timer, Expire, MadStep, PostSa, PostSmp, CancelMad, ModifyMad,
         TimerFire, ExpireCut, SendHanded, SmpPost, SendDone, Complete, TimeoutSends,
         ExpireNotify, UnregReport, Response
<1>6. agent' = agent \/ \E a \in Agents : Cancel(a)
  BY <1>4, <1>5, Zenon DEF Next
<1> QED BY <1>1, <1>2, <1>3, <1>6, Zenon
-----------------------------------------------------------------------------
(* THE THEOREMS *)

(* Nothing is sent at first. *)
LEMMA InvInit == ASSUME Init PROVE Inv
<1>0. class \in Classes /\ class \in [Mads -> {"sa", "smp"}]
  BY MadSendAssumption DEF Init, MadSendAssumption
<1>1. AgentInv
  BY <1>0, MadSendAssumption DEF AgentInv, Init, MadSendAssumption
<1>2. ASSUME NEW m \in Mads
      PROVE  /\ mad[m] \in MadType /\ Good(class[m], mad[m]) /\ mad[m].place = "idle"
  <2>1. PICK r : r = MaxRetries[class[m]]
    OBVIOUS
  <2>2. r \in Nat
    BY <1>0, <2>1, MadSendAssumption DEF MadSendAssumption
  <2>3. mad[m] = Fresh(r)
    BY <2>1 DEF Init
  <2>4. /\ mad[m] \in MadType /\ mad[m].place = "idle" /\ mad[m].refcount = 0
        /\ mad[m].hw = "none" /\ mad[m].status = "ok" /\ mad[m].told = 0
        /\ mad[m].resp = FALSE /\ mad[m].live = FALSE
    BY <2>2, <2>3 DEF Fresh, MadType, Places, Hws, Results
  <2>5. Good(class[m], mad[m])
    BY <2>4 DEF Good, One
  <2> QED BY <2>4, <2>5
<1>3. Goods(mad)
  <2>1. mad = [m \in Mads |-> mad[m]]
    BY DEF Init
  <2> QED BY <1>2, <2>1 DEF Goods
<1>4. SaHold(mad) = {} /\ SmpHold(mad) = {}
  BY <1>2 DEF SaHold, SmpHold, Sa, Sm
<1>5. Cardinality(SaHold(mad)) = 0 /\ Cardinality(SmpHold(mad)) = 0
  BY <1>4, FS_EmptySet
<1>6. PICK e : e = <<>>
  OBVIOUS
<1>7. e \in Seq(Mads) /\ Elems(e) = {} /\ Once(e)
  <2>1. e \in Seq(Mads) /\ Len(e) = 0
    BY <1>6
  <2>2. Elems(e) = {}
    BY <1>6, <2>1, EmptyElems
  <2>3. Once(e)
    BY <2>1 DEF Once
  <2> QED BY <2>1, <2>2, <2>3
<1>8. CcInv(mad, cc, 0)
  <2>1. cc.outstanding = 0 /\ cc.fifo = e /\ cc.to = e
    BY <1>6 DEF Init
  <2>2. SaWindow \in Nat
    BY MadSendAssumption DEF MadSendAssumption
  <2> QED BY <1>5, <1>7, <2>1, <2>2 DEF CcInv
<1>9. SmpInv(mad, smp, 0) /\ SmpMoves(mad, smp)
  <2>1. smp = [outstanding |-> 0, overflow |-> e, leaked |-> 0, extra |-> 0]
    BY <1>6 DEF Init
  <2>2. /\ smp \in SmpType /\ smp.outstanding = 0 /\ smp.overflow = e
        /\ smp.leaked = 0 /\ smp.extra = 0
    BY <1>7, <2>1 DEF SmpType
  <2>3. Span(Cardinality(SmpHold(mad)) + 0, smp)
    BY <1>5, <2>2 DEF Span
  <2> QED BY <1>6, <1>7, <2>2, <2>3 DEF SmpInv, SmpMoves
<1>10. QpInv(mad, over)
  <2>1. over = [c \in QpOf |-> e]
    BY <1>6 DEF Init
  <2> QED BY <1>7, <2>1 DEF QpInv
<1> QED BY <1>1, <1>3, <1>8, <1>9, <1>10, TimerInit DEF Inv, Queues

(* Every step keeps the invariant. *)
LEMMA InvStep ==
    ASSUME SmpSafe, Inv, [Next]_vars
    PROVE  Inv'
<1>1. TimerInv' /\ AgentInv' /\ class' = class
  BY TimerStep, AgentStep, MadSendAssumption DEF Inv
<1>2. SUFFICES Goods(mad') /\ Queues(mad', cc', smp', over')
  BY <1>1, Primed DEF Inv
<1>3. CASE UNCHANGED vars
  BY <1>3 DEF vars, Inv
<1>4. CASE Client
  BY <1>4, StepPostSa, StepPostSmp, StepCancelMad, StepModifyMad, StepResponse DEF Client
<1>5. CASE Timer \/ Expire
  BY <1>5, StepTimerFire, StepExpireCut DEF Timer, Expire
<1>6. ASSUME NEW m \in Mads, MadStep(m)
      PROVE  Goods(mad') /\ Queues(mad', cc', smp', over')
  BY <1>6, StepSendHanded, StepSmpPost, StepSendDone, StepComplete, StepTimeoutSends,
     StepExpireNotify, StepUnregReport DEF MadStep
<1>7. ASSUME NEW a \in Agents, Cancel(a)
      PROVE  Goods(mad') /\ Queues(mad', cc', smp', over')
  BY <1>7, StepUnregCc, StepUnregClose, StepUnregOverflow DEF Cancel
<1> QED BY <1>3, <1>4, <1>5, <1>6, <1>7 DEF Next

(* Unless an agent with SMPs is unregistered, Inv holds in every state: the  *)
(* references of each MAD are those of the QP, of the wait and of the        *)
(* response; the entries of each queue are where they say; each counter is   *)
(* that of the MADs under way, and of the failures that the SMP window       *)
(* remembers.                                                                *)
THEOREM Invariance == ASSUME SmpSafe PROVE Spec => []Inv
<1>1. Init => Inv
  BY InvInit
<1>2. Inv /\ [Next]_vars => Inv'
  BY InvStep
<1> QED BY <1>1, <1>2, PTL DEF Spec

(* Every variable keeps its type; cc.outstanding never exceeds the window of *)
(* the SA congestion control, nor a reference count two.                     *)
THEOREM TypeCorrect == ASSUME SmpSafe PROVE Spec => []TypeOK
<1>1. ASSUME Inv PROVE TypeOK
  <2>0. /\ Goods(mad) /\ TimerInv /\ AgentInv /\ Queues(mad, cc, smp, over)
        /\ cc \in CcType /\ smp \in SmpType
    BY <1>1 DEF Inv, TimerInv, Queues, SmpInv
  <2>1. mad \in [Mads -> [place : Places, refcount : 0..2, live : BOOLEAN,
                         hw : {"none", "qp", "qover", "smpover", "smpout"},
                         status : Results, retries_left : Nat,
                         canceled : BOOLEAN, sent : BOOLEAN, resp : BOOLEAN,
                         told : 0..1]]
    <3>1. ASSUME NEW m \in Mads
          PROVE  mad[m] \in [place : Places, refcount : 0..2, live : BOOLEAN,
                         hw : {"none", "qp", "qover", "smpover", "smpout"},
                         status : Results, retries_left : Nat,
                         canceled : BOOLEAN, sent : BOOLEAN, resp : BOOLEAN,
                         told : 0..1]
      <4>1. mad[m] \in MadType /\ mad[m].refcount \in 0..2 /\ mad[m].told \in 0..1
        BY <2>0 DEF Goods, Good, One
      <4> QED BY <4>1 DEF MadType, Hws
    <3>2. mad \in [Mads -> MadType]
      BY <2>0 DEF Goods
    <3> QED BY <3>1, <3>2
  <2>2. {smp.outstanding, smp.leaked, smp.extra} \subseteq Nat /\ smp.overflow \in Seq(Mads)
    BY <2>0 DEF SmpType
  <2>3. cc.outstanding \in 0..SaWindow
    BY <2>0, CcFields DEF Queues, CcInv
  <2>4. /\ cc.fifo \in Seq(Mads) /\ cc.to \in Seq(Mads)
        /\ {cc.timer, cc.work, cc.late} \subseteq Mads \cup {NoMad}
        /\ {cc.running, cc.modified, cc.fault} \subseteq BOOLEAN
    BY <2>0, CcFields
  <2> QED BY <2>0, <2>1, <2>2, <2>3, <2>4 DEF TypeOK, Queues, QpInv, AgentInv
<1> QED BY <1>1, Invariance, PTL

(* Unless an agent with SMPs is unregistered: the permits are exactly those  *)
(* of the SA MADs under way, whatever fails and also in the fault of         *)
(* tf_dequeue(), and the SMP window is that of the SMPs under way, more by   *)
(* each ib_post_send() that failed in ib_send_mad() and less by no more than *)
(* those that failed in smp_mad_done() (sa_cc_mad_done(), smp_mad_done()).   *)
THEOREM CountersExact == ASSUME SmpSafe PROVE Spec => []Counted
<1>1. ASSUME Inv PROVE Counted
  <2>1. cc.outstanding = Cardinality(SaHold(mad)) + 0 /\ Span(Cardinality(SmpHold(mad)) + 0, smp)
    BY <1>1 DEF Inv, Queues, CcInv, SmpInv
  <2>2. SaHold(mad) \in SUBSET Mads /\ SmpHold(mad) \in SUBSET Mads
    BY DEF SaHold, SmpHold
  <2>3. Cardinality(SaHold(mad)) \in Nat /\ Cardinality(SmpHold(mad)) \in Nat
    BY <2>2, Counting
  <2>4. SaHold(mad) = SaHolders /\ SmpHold(mad) = SmpHolders
    BY DEF SaHold, SmpHold, SaHolders, SmpHolders, Sa, Sm
  <2>5. smp.outstanding \in Nat /\ smp.leaked \in Nat /\ smp.extra \in Nat
    BY <1>1 DEF Inv, Queues, SmpInv, SmpType
  <2>6. PICK a, full : a = Cardinality(SmpHold(mad)) /\ full = a + smp.leaked
    OBVIOUS
  <2>7. smp.outstanding \in full - smp.extra .. full
    <3>1. a \in Nat /\ smp.outstanding <= a + 0 + smp.leaked
          /\ a + 0 + smp.leaked <= smp.outstanding + smp.extra
      BY <2>1, <2>3, <2>6 DEF Span
    <3> QED BY <2>5, <2>6, <3>1
  <2>8. cc.outstanding = Cardinality(SaHolders) /\ full = Cardinality(SmpHolders) + smp.leaked
    BY <2>1, <2>3, <2>4, <2>6
  <2> QED BY <2>7, <2>8 DEF Counted
<1> QED BY <1>1, Invariance, PTL

(* Unless an agent with SMPs is unregistered: a MAD waits for a permit or    *)
(* for a place in the SMP window only while another is under way that will   *)
(* pass one on, or behind a window that failing ib_post_send()s have used up *)
(* (sa_cc_mad_done(), smp_mad_done()).                                       *)
THEOREM NobodyStranded == ASSUME SmpSafe PROVE Spec => []NoneStranded
<1>1. ASSUME Inv PROVE NoneStranded
  <2>1. ASSUME Waiting(mad) # {} PROVE SaHolders # {}
    <3>1. PICK i : i \in Waiting(mad)
      BY <2>1
    <3>2. cc.fifo[i] \in Elems(cc.fifo) /\ ~mad[cc.fifo[i]].canceled
      BY <3>1 DEF Waiting, Elems
    <3>3. cc.outstanding = SaWindow /\ cc.outstanding = Cardinality(SaHold(mad)) + 0
      BY <1>1, <3>2 DEF Inv, Queues, CcInv
    <3>4. SaWindow \in Nat \ {0}
      BY MadSendAssumption DEF MadSendAssumption
    <3>5. SaHold(mad) # {}
      <4>1. SaHold(mad) = {} => Cardinality(SaHold(mad)) = 0
        BY FS_EmptySet
      <4> QED BY <3>3, <3>4, <4>1
    <3>6. SaHold(mad) = SaHolders
      BY DEF SaHold, SaHolders, Sa
    <3> QED BY <3>5, <3>6
  <2>2. SmpMoves(mad, smp)
    BY <1>1 DEF Inv, Queues
  <2>3. SmpHold(mad) = SmpHolders
    BY DEF SmpHold, SmpHolders, Sm
  <2>4. smp.overflow # <<>> => \/ SmpHolders # {} \/ smp.leaked >= SmpWindow
                               \/ \E m \in Mads : mad[m].hw = "smpout"
    BY <2>2, <2>3 DEF SmpMoves
  <2> QED BY <2>1, <2>4 DEF NoneStranded
<1> QED BY <1>1, Invariance, PTL

(* Unless an agent with SMPs is unregistered, the client is told of each MAD *)
(* once, and when neither the QP nor a queue nor a thread has it any more    *)
(* (ib_mad_complete_send_wr(), ib_mad_complete_recv(), cancel_mads()).       *)
THEOREM ClientToldOnce == ASSUME SmpSafe PROVE Spec => []ToldOnce
<1>1. ASSUME Inv PROVE ToldOnce
  <2>1. SUFFICES ASSUME NEW m \in Mads
                 PROVE  /\ mad[m].told <= 1
                        /\ mad[m].place = "gone" => mad[m].hw = "none" /\ ~mad[m].resp
    BY DEF ToldOnce
  <2>2. Good(class[m], mad[m])
    BY <1>1 DEF Inv, Goods
  <2> QED BY <2>2 DEF Good, One
<1> QED BY <1>1, Invariance, PTL
=============================================================================
