----------------------------- MODULE IbCmProofs -----------------------------
(***************************************************************************)
(* Proofs about IbCm, for any sets of IDs, any QP numbers, whatever the    *)
(* clients call and whichever faults occur: the tables stay clean, an ID   *)
(* is freed only when nobody uses it, and the connection manager keeps the *)
(* promises of CmConnection.                                               *)
(***************************************************************************)
EXTENDS IbCm, FiniteSetTheorems, TLAPS

Lives == {"none", "live", "dying", "freed", "lost"}
Remotes == Ids \cup {NoId}
InfoType == [on : BOOLEAN, remote : Remotes, inId : BOOLEAN, inQp : BOOLEAN]
IdType ==
    [life : Lives, state : States, remote : Remotes, info : InfoType,
     wait : SUBSET Remotes, est : BOOLEAN, msg : Sends \cup {"none"},
     sends : SUBSET Sends, refcount : Int, work : Nat, err : BOOLEAN]

(* What may follow a REQ that came, a REQ that was sent, a REP that came and *)
(* a REP that was sent, until the next message of the handshake.             *)
Called == {"REQ_RCVD", "MRA_REQ_SENT"}
Calling == {"REQ_SENT", "MRA_REQ_RCVD"}
Answered == {"REP_RCVD", "MRA_REP_SENT"}
Answering == {"REP_SENT", "MRA_REP_RCVD"}

(* Who holds references: the client, the MAD layer for each message, and the *)
(* thread that runs the callbacks.                                           *)
Held(x) == (IF x.life = "live" THEN 1 ELSE 0) + Cardinality(x.sends)
           + (IF x.work > 0 THEN 1 ELSE 0)

(* The references are counted; an ID that its client has given up is idle,   *)
(* and one that has none left holds nothing; a message is not sent a second  *)
(* time while the MAD layer has it; and the tables name an ID only in the    *)
(* states between the REQ or REP that came and the end of the connection.    *)
Good(x) ==
    /\ x \in IdType
    /\ x.refcount = Held(x)
    /\ x.life # "live" => x.state = "IDLE" /\ x.info = NoInfo
    /\ x.life \in {"none", "freed", "lost"} => x.work = 0 /\ x.sends = {}
    /\ x.err => x.life = "live" \/ Racing
    /\ "REP" \in x.sends => x.state \notin Called
    /\ "DREQ" \in x.sends => x.state \in {"DREQ_SENT", "DREQ_RCVD", "TIMEWAIT", "IDLE"}
    /\ x.state \in Calling => x.info.on
    /\ x.info.inId \/ x.info.inQp =>
          x.info.on /\ x.state \notin {"IDLE", "TIMEWAIT"} \cup Calling

(* No two entries of a table have the same key. *)
Unique ==
    \A i, j \in Ids : j \in Peers(i) =>
       /\ id[i].info.inId /\ id[j].info.inId
             => id[i].info.remote # id[j].info.remote
       /\ id[i].info.inQp /\ id[j].info.inQp
             => Qpn[id[i].info.remote] # Qpn[id[j].info.remote]

(* The two sides of a handshake, and the messages that it rests on. *)
Roles ==
    /\ \A a \in Act :
          /\ id[a].state \notin Called \cup Answering
          /\ id[a].state \in Answered =>
                id[a].remote \in Pas /\ Msg("REP", id[a].remote, a) \in net
          /\ Msg("REQ", a, NoId) \in net => id[a].life # "none"
    /\ \A p \in Pas :
          /\ id[p].state \notin Calling \cup Answered
          /\ id[p].state \in Called \cup Answering =>
                id[p].remote \in Act /\ id[id[p].remote].life # "none"
          /\ id[p].state \in Answering => Msg("REP", p, id[p].remote) \in net

IInv == id \in [Ids -> IdType] /\ (\A i \in Ids : Good(id[i])) /\ Unique /\ Roles

(* The phase of an ID whose struct is x. *)
PhaseOf(x) ==
    CASE x.life = "none" -> "none"
      [] x.life \in {"dying", "freed", "lost"} -> "closed"
      [] x.state \in Called -> "none"
      [] x.state \in Calling \cup Answered \cup Answering -> "asking"
      [] x.state = "ESTABLISHED" -> "up"
      [] OTHER -> "closed"

(* An ID leaves the tables or keeps its key in them. *)
Leaves(x, y) ==
    /\ y.info.inId => x.info.inId /\ y.info.remote = x.info.remote
    /\ y.info.inQp => x.info.inQp /\ y.info.remote = x.info.remote

(* What a step may do to an ID without a part in the handshake: it stays in  *)
(* the phase it is in or ends.                                               *)
Moves(x, y) ==
    /\ Good(y) /\ Leaves(x, y)
    /\ y.life = "none" <=> x.life = "none"
    /\ y.remote = x.remote \/ y.life \in {"freed", "lost"}
    /\ \A G \in {Called, Calling, Answered, Answering} : y.state \in G => x.state \in G
    /\ PhaseOf(y) \in {PhaseOf(x), "closed"}

(* The messages that no handshake rests on. *)
Idle(out) == \A m \in out : m.type \notin {"REQ", "REP", "RTU"}

(* A step that no handshake advances by. *)
Ordinary ==
    /\ id' \in [Ids -> IdType] /\ \A i \in Ids : Moves(id[i], id'[i])
    /\ \E out : net' = net \cup out /\ Idle(out)
-----------------------------------------------------------------------------
(* The messages of an ID are a finite set. *)
LEMMA SendsFinite ==
    ASSUME NEW S \in SUBSET Sends
    PROVE  IsFiniteSet(S) /\ Cardinality(S) \in Nat
<1>1. IsFiniteSet(Sends)
  <2>1. IsFiniteSet({"REQ"}) /\ IsFiniteSet({"REP"}) /\ IsFiniteSet({"DREQ"})
    BY FS_Singleton
  <2>2. IsFiniteSet({"REQ"} \cup {"REP"})
    BY <2>1, FS_Union
  <2>3. IsFiniteSet(({"REQ"} \cup {"REP"}) \cup {"DREQ"})
    BY <2>1, <2>2, FS_Union
  <2>4. Sends = ({"REQ"} \cup {"REP"}) \cup {"DREQ"}
    BY DEF Sends
  <2> QED BY <2>3, <2>4
<1> QED BY <1>1, FS_Subset, FS_CardinalityType

(* One step after another. *)
LEMMA MovesTrans ==
    ASSUME NEW x \in IdType, NEW y \in IdType, NEW z \in IdType, Moves(x, y), Moves(y, z),
           y.life \in {"freed", "lost"} => z.life \in {"freed", "lost"}
    PROVE  Moves(x, z)
BY DEF Moves, Leaves

(* Nothing happens. *)
LEMMA MovesSelf ==
    ASSUME NEW x, Good(x)
    PROVE  Moves(x, x)
BY DEF Moves, Leaves, Good

(* The fields of an ID that enters timewait: cm_enter_timewait(). *)
LEMMA TimewaitFields ==
    ASSUME NEW x \in IdType
    PROVE  LET y == cm_enter_timewait(x)
           IN  /\ y \in IdType
               /\ y.life = x.life /\ y.state = "TIMEWAIT" /\ y.remote = x.remote
               /\ y.info = NoInfo /\ y.sends = x.sends
               /\ y.refcount = x.refcount /\ y.work = x.work /\ y.err = x.err
<1>1. NoInfo \in InfoType
  BY DEF NoInfo, InfoType, Remotes
<1>2. x.info.remote \in Remotes
  BY DEF IdType, InfoType
<1> QED BY <1>1, <1>2 DEF cm_enter_timewait, IdType, States

(* cm_enter_timewait() ends a connection. *)
LEMMA TimewaitMoves ==
    ASSUME NEW x, Good(x), x.life = "live"
    PROVE  LET y == cm_enter_timewait(x)
           IN  Moves(x, y) /\ y.life = "live" /\ y.err = x.err
<1> DEFINE y == cm_enter_timewait(x)
<1>0. x \in IdType
  BY DEF Good
<1>1. /\ y \in IdType
      /\ y.life = x.life /\ y.state = "TIMEWAIT" /\ y.remote = x.remote
      /\ y.info = NoInfo /\ y.sends = x.sends
      /\ y.refcount = x.refcount /\ y.work = x.work /\ y.err = x.err
  BY <1>0, TimewaitFields
<1> HIDE DEF y
<1>2. y.info.inId = FALSE /\ y.info.inQp = FALSE
  BY <1>1 DEF NoInfo
<1>3. Good(y)
  BY <1>1, <1>2 DEF Good, Held, Called, Calling
<1>4. PhaseOf(y) = "closed"
  BY <1>1 DEF PhaseOf, Called, Calling, Answered, Answering
<1>5. \A G \in {Called, Calling, Answered, Answering} : y.state \notin G
  BY <1>1 DEF Called, Calling, Answered, Answering
<1>6. Moves(x, y)
  BY <1>1, <1>2, <1>3, <1>4, <1>5 DEF Moves, Leaves
<1> QED BY <1>1, <1>6 DEF y

(* cm_reset_to_idle() ends an attempt. *)
LEMMA ResetMoves ==
    ASSUME NEW x, Good(x), x.life = "live"
    PROVE  LET y == cm_reset_to_idle(x)
           IN  Moves(x, y) /\ y.life = "live" /\ y.err = x.err
<1> DEFINE y == cm_reset_to_idle(x)
<1>0. x \in IdType /\ NoInfo \in InfoType
  BY DEF Good, NoInfo, InfoType, Remotes
<1>1. /\ y \in IdType
      /\ y.life = x.life /\ y.state = "IDLE" /\ y.remote = x.remote
      /\ y.info = NoInfo /\ y.sends = x.sends
      /\ y.refcount = x.refcount /\ y.work = x.work /\ y.err = x.err
  BY <1>0 DEF cm_reset_to_idle, IdType, States
<1> HIDE DEF y
<1>2. y.info.inId = FALSE /\ y.info.inQp = FALSE
  BY <1>1 DEF NoInfo
<1>3. Good(y)
  BY <1>1, <1>2 DEF Good, Held, Called, Calling
<1>4. PhaseOf(y) = "closed"
  BY <1>1 DEF PhaseOf, Called, Calling, Answered, Answering
<1>5. \A G \in {Called, Calling, Answered, Answering} : y.state \notin G
  BY <1>1 DEF Called, Calling, Answered, Answering
<1>6. Moves(x, y)
  BY <1>1, <1>2, <1>3, <1>4, <1>5 DEF Moves, Leaves
<1> QED BY <1>1, <1>6 DEF y

(* cm_queue_work_unlock() takes a reference for the first event. *)
LEMMA QueueMoves ==
    ASSUME NEW x \in IdType, NEW y, Moves(x, y), y.life = "live"
    PROVE  LET z == Queue(y)
           IN  /\ Moves(x, z) /\ z.life = "live" /\ z.state = y.state
               /\ z.remote = y.remote /\ z.info = y.info
<1> DEFINE n == IF y.work = 0 THEN y.refcount + 1 ELSE y.refcount
           w == y.work + 1
           z == Queue(y)
<1>0. y \in IdType /\ Good(y)
  BY DEF Moves, Good
<1>1. n \in Int /\ w \in Nat /\ w > 0 /\ y.sends \in SUBSET Sends /\ y.work \in Nat
  BY <1>0 DEF IdType
<1>2. n = 1 + Cardinality(y.sends) + 1
  BY <1>0, <1>1, SendsFinite DEF Good, Held
<1>3. z = [y EXCEPT !.work = w, !.refcount = n]
  BY DEF Queue
<1> HIDE DEF n, w, z
<1>4. /\ z \in IdType /\ z.work = w /\ z.refcount = n
      /\ z.life = y.life /\ z.state = y.state /\ z.remote = y.remote
      /\ z.info = y.info /\ z.sends = y.sends /\ z.err = y.err
  BY <1>0, <1>1, <1>3 DEF IdType
<1>5. Held(z) = 1 + Cardinality(y.sends) + 1
  BY <1>1, <1>4 DEF Held
<1>6. Good(z)
  BY <1>0, <1>2, <1>4, <1>5 DEF Good
<1>7. PhaseOf(z) = PhaseOf(y)
  BY <1>4 DEF PhaseOf
<1>8. Moves(x, z)
  BY <1>4, <1>6, <1>7 DEF Moves, Leaves
<1> QED BY <1>4, <1>8 DEF z

(* A send of a kind that the MAD layer does not have takes a reference, and  *)
(* the ID waits in state st.                                                 *)
LEMMA SendFields ==
    ASSUME NEW x, Good(x), x.life = "live", NEW k \in Sends, k \notin x.sends,
           NEW st \in States \ ({"IDLE", "TIMEWAIT"} \cup Calling \cup Called),
           k = "DREQ" \/ "DREQ" \in x.sends => st \in {"DREQ_SENT", "DREQ_RCVD"},
           x.state \notin Calling
    PROVE  LET y == [SendPriv(x, k) EXCEPT !.state = st]
           IN  /\ Good(y) /\ y.state = st
               /\ y.life = x.life /\ y.remote = x.remote /\ y.info = x.info /\ y.err = x.err
<1> DEFINE n == x.refcount + 1
           S == x.sends \cup {k}
           y == [SendPriv(x, k) EXCEPT !.state = st]
<1>0. x \in IdType /\ x.sends \in SUBSET Sends /\ x.work \in Nat
  BY DEF Good, IdType
<1>1. n \in Int /\ S \in SUBSET Sends /\ x.refcount = Held(x) /\ x.refcount \in Int
  BY <1>0 DEF IdType, Good
<1>2. Cardinality(S) = Cardinality(x.sends) + 1
  BY <1>0, SendsFinite, FS_AddElement
<1>3. y = [x EXCEPT !.msg = k, !.sends = S, !.refcount = n, !.state = st]
  <2>1. SendPriv(x, k) = [x EXCEPT !.msg = k, !.sends = S, !.refcount = n]
    BY DEF SendPriv
  <2> HIDE DEF n, S
  <2> QED BY <1>0, <2>1 DEF IdType
<1>4. n = 1 + Cardinality(S) + (IF x.work > 0 THEN 1 ELSE 0)
  BY <1>0, <1>1, <1>2, SendsFinite DEF Held
<1>a. \A j : j \in S <=> j \in x.sends \/ j = k
  OBVIOUS
<1> HIDE DEF n, S, y
<1>5. /\ y \in IdType /\ y.refcount = n /\ y.sends = S
      /\ y.life = x.life /\ y.state = st /\ y.remote = x.remote
      /\ y.info = x.info /\ y.work = x.work /\ y.err = x.err
  BY <1>0, <1>1, <1>3 DEF IdType
<1>6. y.refcount = Held(y)
  BY <1>4, <1>5 DEF Held
<1>7. Good(y)
  BY <1>5, <1>6, <1>a DEF Good, Called
<1> QED BY <1>5, <1>7 DEF y

(* A DREQ goes out, or ends the connection at this side:                     *)
(* cm_send_dreq_locked().                                                    *)
LEMMA DreqMoves ==
    ASSUME NEW i, NEW x, Good(x), x.life = "live", NEW s \in cm_send_dreq(i, x)
    PROVE  Moves(x, s.x) /\ s.x.life = "live" /\ s.x.err = x.err /\ Idle(s.out)
<1>1. CASE x.state # "ESTABLISHED"
  <2>1. s.x = x /\ s.out = {}
    BY <1>1 DEF cm_send_dreq
  <2> QED BY <2>1, MovesSelf DEF Idle
<1>2. CASE x.state = "ESTABLISHED" /\ s = [x |-> cm_enter_timewait(x), out |-> {}]
  BY <1>2, TimewaitMoves DEF Idle
<1>3. CASE /\ x.state = "ESTABLISHED"
           /\ s = [x |-> [SendPriv(x, "DREQ") EXCEPT !.state = "DREQ_SENT"],
                   out |-> {Msg("DREQ", i, x.remote)}]
  <2> DEFINE y == [SendPriv(x, "DREQ") EXCEPT !.state = "DREQ_SENT"]
  <2>0. "DREQ" \notin x.sends /\ "DREQ" \in Sends /\ x.state \notin Calling
        /\ "DREQ_SENT" \in States \ ({"IDLE", "TIMEWAIT"} \cup Calling \cup Called)
    BY <1>3 DEF Good, Sends, Calling, Called, States
  <2>1. /\ Good(y) /\ y.state = "DREQ_SENT"
        /\ y.life = x.life /\ y.remote = x.remote /\ y.info = x.info /\ y.err = x.err
    BY <2>0, SendFields
  <2>2. s.x = y /\ s.out = {Msg("DREQ", i, x.remote)}
    BY <1>3
  <2> HIDE DEF y
  <2>3. PhaseOf(y) = "closed" /\ \A G \in {Called, Calling, Answered, Answering} : y.state \notin G
    BY <2>1 DEF PhaseOf, Called, Calling, Answered, Answering
  <2>4. Moves(x, y)
    BY <2>1, <2>3 DEF Moves, Leaves
  <2>5. Idle(s.out)
    BY <2>2 DEF Idle, Msg
  <2> QED BY <2>1, <2>2, <2>4, <2>5
<1> QED BY <1>1, <1>2, <1>3 DEF cm_send_dreq

(* A REJ resets the ID, or ends the connection: cm_send_rej_locked(). *)
LEMMA RejMoves ==
    ASSUME NEW i, NEW x, Good(x), x.life = "live", NEW why
    PROVE  LET s == cm_send_rej(i, x, why)
           IN  Moves(x, s.x) /\ s.x.life = "live" /\ s.x.err = x.err /\ Idle(s.out)
<1>1. cm_format_rej(i, x, why).type = "REJ"
  BY DEF cm_format_rej, Rej
<1> QED BY <1>1, TimewaitMoves, ResetMoves DEF cm_send_rej, Idle

(* A DREP ends the connection: cm_send_drep_locked(). *)
LEMMA DrepMoves ==
    ASSUME NEW i, NEW x, Good(x), x.life = "live"
    PROVE  LET s == cm_send_drep(i, x)
           IN  Moves(x, s.x) /\ s.x.life = "live" /\ s.x.err = x.err /\ Idle(s.out)
BY TimewaitMoves DEF cm_send_drep, Idle, Msg

(* The messages of cm_destroy_id() and what they leave of the ID. *)
LEMMA FarewellMoves ==
    ASSUME NEW i, NEW x, Good(x), x.life = "live", NEW s \in Farewells(i, x)
    PROVE  Moves(x, s.x) /\ s.x.life = "live" /\ s.x.err = x.err /\ Idle(s.out)
<1>0. x \in IdType
  BY DEF Good
<1>1. CASE x.state \in Rejecting
  BY <1>1, RejMoves DEF Farewells, Rejecting
<1>2. CASE x.state = "ESTABLISHED"
  <2>1. PICK d \in cm_send_dreq(i, x) :
           s = [x |-> IF d.x.state = "TIMEWAIT" THEN d.x ELSE cm_enter_timewait(d.x),
                out |-> d.out]
    BY <1>2 DEF Farewells, Rejecting
  <2>2. Moves(x, d.x) /\ d.x.life = "live" /\ d.x.err = x.err /\ Idle(d.out)
    BY DreqMoves
  <2> DEFINE y == d.x
             z == cm_enter_timewait(y)
  <2>3. Good(y) /\ y \in IdType
    BY <2>2 DEF Moves, Good
  <2>4. Moves(y, z) /\ z.life = "live" /\ z.err = y.err /\ z \in IdType
    BY <2>2, <2>3, TimewaitMoves DEF Moves, Good
  <2>5. Moves(x, z)
    <3> HIDE DEF y, z
    <3>1. Moves(x, y) /\ y.life = "live"
      BY <2>2 DEF y
    <3> QED BY <1>0, <2>3, <2>4, <3>1, MovesTrans
  <2> QED BY <2>1, <2>2, <2>4, <2>5
<1>3. CASE x.state = "DREQ_SENT"
  BY <1>3, TimewaitMoves DEF Farewells, Rejecting, Idle
<1>4. CASE x.state = "DREQ_RCVD"
  BY <1>4, DrepMoves DEF Farewells, Rejecting
<1>5. CASE x.state \notin Rejecting \cup {"ESTABLISHED", "DREQ_SENT", "DREQ_RCVD"}
  <2>1. s = [x |-> x, out |-> {}]
    BY <1>5 DEF Farewells, Rejecting
  <2> QED BY <2>1, MovesSelf DEF Idle
<1> QED BY <1>1, <1>2, <1>3, <1>4, <1>5

(* cm_destroy_id() gives up the reference of the client. *)
LEMMA DestroyMoves ==
    ASSUME NEW i, NEW x, Good(x), x.life = "live", Racing \/ ~x.err,
           NEW s \in cm_destroy_id(i, x)
    PROVE  Moves(x, s.x) /\ s.x.life = "dying" /\ Idle(s.out)
<1>1. PICK d \in Farewells(i, x) :
         s = [x |-> [d.x EXCEPT !.state = "IDLE", !.info = NoInfo, !.life = "dying",
                                !.wait = {}, !.est = FALSE, !.refcount = @ - 1],
              out |-> d.out]
  BY DEF cm_destroy_id
<1>2. Moves(x, d.x) /\ d.x.life = "live" /\ d.x.err = x.err /\ Idle(d.out)
  BY FarewellMoves
<1>3. PICK y : y = d.x
  OBVIOUS
<1>4. Good(y) /\ y \in IdType /\ NoInfo \in InfoType /\ y.life = "live" /\ x \in IdType
  BY <1>2, <1>3 DEF Moves, Good, NoInfo, InfoType, Remotes
<1>5. PICK n : n = y.refcount - 1
  OBVIOUS
<1>6. n \in Int /\ y.sends \in SUBSET Sends /\ y.refcount \in Int /\ y.work \in Nat
  BY <1>4, <1>5 DEF IdType
<1>7. n = Cardinality(y.sends) + (IF y.work > 0 THEN 1 ELSE 0)
  BY <1>4, <1>5, <1>6, SendsFinite DEF Good, Held
<1>8. PICK z : z = [y EXCEPT !.state = "IDLE", !.info = NoInfo, !.life = "dying",
                             !.wait = {}, !.est = FALSE, !.refcount = n]
  OBVIOUS
<1>9. s.x = z /\ s.out = d.out
  BY <1>1, <1>3, <1>5, <1>8
<1>10. /\ z \in IdType /\ z.state = "IDLE" /\ z.info = NoInfo /\ z.life = "dying"
       /\ z.refcount = n /\ z.remote = y.remote /\ z.sends = y.sends
       /\ z.work = y.work /\ z.err = y.err
  BY <1>4, <1>6, <1>8 DEF IdType, Lives, States
<1>11. z.info.inId = FALSE /\ z.info.inQp = FALSE
  BY <1>10 DEF NoInfo
<1>12. z.refcount = Held(z)
  BY <1>6, <1>7, <1>10, SendsFinite DEF Held
<1>13. z.err => Racing
  BY <1>2, <1>3, <1>10
<1>14. Good(z)
  BY <1>4, <1>10, <1>11, <1>12, <1>13 DEF Good, Called, Calling
<1>15. /\ PhaseOf(z) = "closed"
       /\ \A G \in {Called, Calling, Answered, Answering} : z.state \notin G
  BY <1>10 DEF PhaseOf, Called, Calling, Answered, Answering
<1>16. Moves(x, z)
  BY <1>2, <1>3, <1>10, <1>11, <1>14, <1>15 DEF Moves, Leaves
<1> QED BY <1>2, <1>9, <1>10, <1>16

(* What the callbacks and the MAD layer finish at once releases its          *)
(* references.                                                               *)
LEMMA PromptMoves ==
    ASSUME NEW i, NEW x \in IdType, NEW y, Moves(x, y)
    PROVE  LET z == Prompt(i, y)
           IN  /\ Moves(x, z) /\ z.life = y.life /\ z.state = y.state
               /\ z.remote = y.remote /\ z.info = y.info
<1>0. Good(y) /\ y \in IdType /\ y.sends \in SUBSET Sends /\ y.work \in Nat /\ y.refcount \in Int
  BY DEF Moves, Good, IdType
<1>1. CASE "slow" \in Calls[i]
  BY <1>0, <1>1 DEF Prompt
<1>2. CASE "slow" \notin Calls[i]
  <2>1. PICK over : over = {k \in y.sends : y.msg # k \/ y.state \notin Waits(k)}
    OBVIOUS
  <2>2. PICK S : S = y.sends \ over
    OBVIOUS
  <2>3. PICK n : n = y.refcount - Cardinality(over) - (IF y.work > 0 THEN 1 ELSE 0)
    OBVIOUS
  <2>4. PICK z : z = [y EXCEPT !.sends = S, !.work = 0, !.err = FALSE, !.refcount = n]
    OBVIOUS
  <2>5. Prompt(i, y) = z
    BY <1>2, <2>1, <2>2, <2>3, <2>4 DEF Prompt
  <2>6. over \in SUBSET Sends /\ S \in SUBSET Sends /\ S \subseteq y.sends
    BY <1>0, <2>1, <2>2
  <2>7. Cardinality(S) = Cardinality(y.sends) - Cardinality(over)
    <3>1. y.sends \cap over = over
      BY <2>1
    <3> QED BY <1>0, <2>2, <3>1, SendsFinite, FS_Difference
  <2>8. n \in Int /\ n = (IF y.life = "live" THEN 1 ELSE 0) + Cardinality(S)
    BY <1>0, <2>3, <2>6, <2>7, SendsFinite DEF Good, Held
  <2>9. /\ z \in IdType /\ z.sends = S /\ z.work = 0 /\ z.err = FALSE /\ z.refcount = n
        /\ z.life = y.life /\ z.state = y.state /\ z.remote = y.remote /\ z.info = y.info
    BY <1>0, <2>4, <2>6, <2>8 DEF IdType
  <2>10. z.refcount = Held(z)
    BY <2>6, <2>8, <2>9, SendsFinite DEF Held
  <2>11. Good(z)
    BY <1>0, <2>6, <2>9, <2>10 DEF Good
  <2>12. PhaseOf(z) = PhaseOf(y)
    BY <2>9 DEF PhaseOf
  <2>13. Moves(x, z)
    BY <2>9, <2>11, <2>12 DEF Moves, Leaves
  <2> QED BY <2>5, <2>9, <2>13
<1> QED BY <1>1, <1>2

(* A change of state alone, while the connection lasts. *)
LEMMA StateFields ==
    ASSUME NEW x, Good(x), x.life = "live", NEW st \in States \ {"IDLE", "TIMEWAIT"},
           "REP" \in x.sends => st \notin Called,
           "DREQ" \in x.sends => st \in {"DREQ_SENT", "DREQ_RCVD"},
           st \in Calling <=> x.state \in Calling
    PROVE  LET y == [x EXCEPT !.state = st]
           IN  /\ Good(y) /\ y.state = st
               /\ y.life = x.life /\ y.remote = x.remote /\ y.info = x.info
<1>1. PICK y : y = [x EXCEPT !.state = st]
  OBVIOUS
<1>2. x \in IdType
  BY DEF Good
<1>3. /\ y \in IdType /\ y.state = st /\ y.life = x.life /\ y.remote = x.remote
      /\ y.info = x.info /\ y.sends = x.sends /\ y.work = x.work
      /\ y.refcount = x.refcount /\ y.err = x.err
  BY <1>1, <1>2 DEF IdType
<1>4. Good(y)
  BY <1>3 DEF Good, Held
<1> QED BY <1>1, <1>3, <1>4

(* cm_establish() and cm_establish_handler() note the work of the former. *)
LEMMA EstMoves ==
    ASSUME NEW x, Good(x), NEW b \in BOOLEAN
    PROVE  LET y == [x EXCEPT !.est = b]
           IN  /\ Moves(x, y) /\ y.state = x.state
               /\ y.life = x.life /\ y.remote = x.remote /\ y.info = x.info
<1>1. PICK y : y = [x EXCEPT !.est = b]
  OBVIOUS
<1>2. x \in IdType
  BY DEF Good
<1>3. /\ y \in IdType /\ y.state = x.state /\ y.life = x.life /\ y.remote = x.remote
      /\ y.info = x.info /\ y.sends = x.sends /\ y.work = x.work
      /\ y.refcount = x.refcount /\ y.err = x.err
  BY <1>1, <1>2 DEF IdType
<1>4. Good(y)
  BY <1>3 DEF Good, Held
<1>5. Moves(x, y)
  BY <1>3, <1>4 DEF Moves, Leaves, PhaseOf
<1> QED BY <1>1, <1>3, <1>5

(* The callback for an event returns: the last one gives the reference of    *)
(* the thread back.                                                          *)
LEMMA ReturnMoves ==
    ASSUME NEW x, Good(x), x.work > 0
    PROVE  /\ LET y == [x EXCEPT !.work = @ - 1,
                                 !.refcount = IF x.work = 1 THEN @ - 1 ELSE @]
              IN  Moves(x, y)
           /\ LET y == [x EXCEPT !.work = 0, !.refcount = @ - 1]
              IN  Moves(x, y) /\ y.life = x.life /\ y.err = x.err
<1>1. x \in IdType /\ x.refcount \in Int /\ x.work \in Nat /\ x.sends \in SUBSET Sends
      /\ x.refcount = Held(x) /\ Cardinality(x.sends) \in Nat
  BY SendsFinite DEF Good, IdType
<1>2. ASSUME NEW w \in Nat, NEW n \in Int, NEW y,
             n = x.refcount - (IF w = 0 THEN 1 ELSE 0),
             y = [x EXCEPT !.work = w, !.refcount = n]
      PROVE  Moves(x, y) /\ y.life = x.life /\ y.err = x.err
  <2>1. /\ y \in IdType /\ y.state = x.state /\ y.life = x.life /\ y.remote = x.remote
        /\ y.info = x.info /\ y.sends = x.sends /\ y.work = w
        /\ y.refcount = n /\ y.err = x.err
    BY <1>1, <1>2 DEF IdType
  <2>2. y.refcount = Held(y)
    BY <1>1, <1>2, <2>1 DEF Held
  <2>3. Good(y)
    BY <2>1, <2>2 DEF Good
  <2>4. PhaseOf(y) = PhaseOf(x)
    BY <2>1 DEF PhaseOf
  <2> QED BY <2>1, <2>3, <2>4 DEF Moves, Leaves
<1>3. PICK w, n : w = x.work - 1 /\ n = IF x.work = 1 THEN x.refcount - 1 ELSE x.refcount
  OBVIOUS
<1>4. w \in Nat /\ n \in Int /\ n = x.refcount - (IF w = 0 THEN 1 ELSE 0)
  BY <1>1, <1>3
<1>5. PICK m : m = x.refcount - 1
  OBVIOUS
<1>6. m \in Int /\ m = x.refcount - (IF 0 = 0 THEN 1 ELSE 0)
  BY <1>1, <1>5
<1> QED BY <1>2, <1>3, <1>4, <1>5, <1>6

(* The MAD layer gives a message back with its reference. *)
LEMMA DoneMoves ==
    ASSUME NEW x, Good(x), NEW k \in x.sends
    PROVE  LET y == [x EXCEPT !.sends = @ \ {k}, !.refcount = @ - 1,
                              !.msg = IF @ = k THEN "none" ELSE @]
           IN  Moves(x, y) /\ y.life = x.life
<1>1. x \in IdType /\ x.refcount \in Int /\ x.work \in Nat /\ x.sends \in SUBSET Sends
      /\ x.refcount = Held(x) /\ Cardinality(x.sends) \in Nat /\ IsFiniteSet(x.sends)
      /\ x.msg \in Sends \cup {"none"}
  BY SendsFinite DEF Good, IdType
<1>2. PICK S, n, g : S = x.sends \ {k} /\ n = x.refcount - 1
                     /\ g = IF x.msg = k THEN "none" ELSE x.msg
  OBVIOUS
<1>3. S \in SUBSET Sends /\ n \in Int /\ g \in Sends \cup {"none"} /\ S \subseteq x.sends
  BY <1>1, <1>2
<1>4. Cardinality(S) = Cardinality(x.sends) - 1
  BY <1>1, <1>2, FS_RemoveElement
<1>5. PICK y : y = [x EXCEPT !.sends = S, !.refcount = n, !.msg = g]
  OBVIOUS
<1>6. /\ y \in IdType /\ y.state = x.state /\ y.life = x.life /\ y.remote = x.remote
      /\ y.info = x.info /\ y.sends = S /\ y.work = x.work
      /\ y.refcount = n /\ y.err = x.err
  BY <1>1, <1>3, <1>5 DEF IdType
<1>7. y.refcount = Held(y)
  BY <1>1, <1>2, <1>4, <1>6 DEF Held
<1>8. Good(y)
  BY <1>3, <1>6, <1>7 DEF Good
<1>9. PhaseOf(y) = PhaseOf(x)
  BY <1>6 DEF PhaseOf
<1>10. Moves(x, y)
  BY <1>6, <1>8, <1>9 DEF Moves, Leaves
<1> QED BY <1>2, <1>5, <1>6, <1>10

(* cm_process_send_error() begins and ends its callback. *)
LEMMA ErrMoves ==
    ASSUME NEW x, Good(x), NEW b \in BOOLEAN, b => x.life = "live"
    PROVE  LET y == [x EXCEPT !.err = b]
           IN  Moves(x, y) /\ y.life = x.life /\ y.err = b
<1>1. PICK y : y = [x EXCEPT !.err = b]
  OBVIOUS
<1>2. x \in IdType
  BY DEF Good
<1>3. /\ y \in IdType /\ y.state = x.state /\ y.life = x.life /\ y.remote = x.remote
      /\ y.info = x.info /\ y.sends = x.sends /\ y.work = x.work
      /\ y.refcount = x.refcount /\ y.err = b
  BY <1>1, <1>2 DEF IdType
<1>4. Good(y)
  BY <1>3 DEF Good, Held
<1>5. Moves(x, y)
  BY <1>3, <1>4 DEF Moves, Leaves, PhaseOf
<1> QED BY <1>1, <1>3, <1>5

(* The work of a timewait goes, and with it the timewait of the ID. *)
LEMMA ExitMoves ==
    ASSUME NEW x, Good(x), NEW r
    PROVE  LET y == [x EXCEPT !.wait = @ \ {r}]
               z == [y EXCEPT !.state = "IDLE"]
           IN  /\ Moves(x, y)
               /\ x.life = "live" /\ x.state = "TIMEWAIT" => Moves(x, z) /\ z.life = "live"
<1>1. PICK W : W = x.wait \ {r}
  OBVIOUS
<1>2. x \in IdType /\ W \in SUBSET Remotes
  BY <1>1 DEF Good, IdType
<1>3. PICK y, z : y = [x EXCEPT !.wait = W] /\ z = [y EXCEPT !.state = "IDLE"]
  OBVIOUS
<1>4. /\ y \in IdType /\ y.state = x.state /\ y.life = x.life /\ y.remote = x.remote
      /\ y.info = x.info /\ y.sends = x.sends /\ y.work = x.work
      /\ y.refcount = x.refcount /\ y.err = x.err
  BY <1>2, <1>3 DEF IdType
<1>5. Moves(x, y)
  BY <1>4 DEF Moves, Leaves, PhaseOf, Good, Held
<1>6. /\ z \in IdType /\ z.state = "IDLE" /\ z.life = x.life /\ z.remote = x.remote
      /\ z.info = x.info /\ z.sends = x.sends /\ z.work = x.work
      /\ z.refcount = x.refcount /\ z.err = x.err
  BY <1>3, <1>4 DEF IdType, States
<1>7. ASSUME x.life = "live", x.state = "TIMEWAIT" PROVE Moves(x, z)
  <2>1. ~x.info.inId /\ ~x.info.inQp
    BY <1>7 DEF Good
  <2>2. Good(z)
    BY <1>6, <1>7, <2>1 DEF Good, Held, Called, Calling
  <2>3. /\ PhaseOf(z) = "closed"
        /\ \A G \in {Called, Calling, Answered, Answering} : z.state \notin G
    BY <1>6, <1>7 DEF PhaseOf, Called, Calling, Answered, Answering
  <2> QED BY <1>6, <1>7, <2>1, <2>2, <2>3 DEF Moves, Leaves
<1> QED BY <1>1, <1>3, <1>5, <1>6, <1>7
-----------------------------------------------------------------------------
(* An ID that moves, with messages that no handshake rests on. *)
LEMMA BecomeOrdinary ==
    ASSUME IInv, NEW i \in Ids, NEW s, Become(i, s), Moves(id[i], s.x), Idle(s.out)
    PROVE  Ordinary
<1>1. \A j \in Ids : Good(id[j]) /\ id[j] \in IdType
  BY DEF IInv, Good
<1>2. PICK z : z = Prompt(i, s.x)
  OBVIOUS
<1>3. Moves(id[i], z) /\ z \in IdType
  <2>1. Moves(id[i], z)
    BY <1>1, <1>2, PromptMoves
  <2> QED BY <2>1 DEF Moves, Good
<1>4. id' = [id EXCEPT ![i] = z] /\ net' = net \cup s.out
  BY <1>2 DEF Become
<1>5. id' \in [Ids -> IdType]
  BY <1>3, <1>4 DEF IInv
<1>6. \A j \in Ids : Moves(id[j], id'[j])
  BY <1>1, <1>3, <1>4, MovesSelf DEF IInv
<1> QED BY <1>4, <1>5, <1>6 DEF Ordinary

(* A step that no handshake advances by keeps the invariant. *)
LEMMA OrdinaryKeeps ==
    ASSUME IInv, Ordinary
    PROVE  IInv'
<1>1. id' \in [Ids -> IdType] /\ \A i \in Ids : Moves(id[i], id'[i])
  BY DEF Ordinary
<1>2. \A i \in Ids : Good(id'[i]) /\ Leaves(id[i], id'[i])
  BY <1>1 DEF Moves
<1>3. Unique'
  <2>1. ASSUME NEW i \in Ids, NEW j \in Ids, j \in Peers(i)
        PROVE  /\ id'[i].info.inId /\ id'[j].info.inId
                     => id'[i].info.remote # id'[j].info.remote
               /\ id'[i].info.inQp /\ id'[j].info.inQp
                     => Qpn[id'[i].info.remote] # Qpn[id'[j].info.remote]
    <3>1. Leaves(id[i], id'[i]) /\ Leaves(id[j], id'[j])
      BY <1>2
    <3>2. /\ id[i].info.inId /\ id[j].info.inId
                => id[i].info.remote # id[j].info.remote
          /\ id[i].info.inQp /\ id[j].info.inQp
                => Qpn[id[i].info.remote] # Qpn[id[j].info.remote]
      BY <2>1 DEF IInv, Unique
    <3> QED BY <3>1, <3>2 DEF Leaves
  <2> QED BY <2>1 DEF Unique, Peers
<1>4. /\ net \subseteq net'
      /\ \A a \in Act : Msg("REQ", a, NoId) \in net' => Msg("REQ", a, NoId) \in net
  BY DEF Ordinary, Idle, Msg
<1>5. \A i \in Ids :
         /\ id'[i].life = "none" <=> id[i].life = "none"
         /\ id'[i].state \in Called => id[i].state \in Called
         /\ id'[i].state \in Calling => id[i].state \in Calling
         /\ id'[i].state \in Answered => id[i].state \in Answered
         /\ id'[i].state \in Answering => id[i].state \in Answering
  BY <1>1 DEF Moves
<1>6. \A i \in Ids : id'[i].state \in Called \cup Answering \cup Answered
                         => id'[i].remote = id[i].remote
  BY <1>1, <1>2 DEF Moves, Good, Called, Answering, Answered
<1>7. ASSUME NEW a \in Act
      PROVE  /\ id'[a].state \notin Called \cup Answering
             /\ id'[a].state \in Answered =>
                   id'[a].remote \in Pas /\ Msg("REP", id'[a].remote, a) \in net'
             /\ Msg("REQ", a, NoId) \in net' => id'[a].life # "none"
  BY <1>4, <1>5, <1>6 DEF IInv, Roles, Ids
<1>8. ASSUME NEW p \in Pas
      PROVE  /\ id'[p].state \notin Calling \cup Answered
             /\ id'[p].state \in Called \cup Answering =>
                   id'[p].remote \in Act /\ id'[id'[p].remote].life # "none"
             /\ id'[p].state \in Answering => Msg("REP", p, id'[p].remote) \in net'
  BY <1>4, <1>5, <1>6 DEF IInv, Roles, Ids
<1>9. Roles'
  BY <1>7, <1>8 DEF Roles
<1> QED BY <1>1, <1>2, <1>3, <1>9 DEF IInv

(* What the client of an ID does besides the handshake. *)
LEMMA ClientOrdinary ==
    ASSUME IInv, NEW i \in Ids,
           SendDreq(i) \/ SendDrep(i) \/ SendRej(i) \/ SendMra(i) \/ Destroy(i)
    PROVE  Ordinary
<1>0. Good(id[i]) /\ id[i] \in IdType
  BY DEF IInv, Good
<1>1. CASE SendDreq(i)
  BY <1>0, <1>1, DreqMoves, BecomeOrdinary DEF SendDreq, Open
<1>2. CASE SendDrep(i)
  BY <1>0, <1>2, DrepMoves, BecomeOrdinary DEF SendDrep, Open
<1>3. CASE SendRej(i)
  BY <1>0, <1>3, RejMoves, BecomeOrdinary DEF SendRej, Open
<1>4. CASE SendMra(i)
  <2>1. PICK st, m : /\ st = (IF id[i].state = "REQ_RCVD" THEN "MRA_REQ_SENT" ELSE "MRA_REP_SENT")
                     /\ m = [Msg("MRA", i, id[i].remote) EXCEPT
                                 !.of = IF id[i].state = "REQ_RCVD" THEN "REQ" ELSE "REP"]
    OBVIOUS
  <2>2. PICK y : y = [id[i] EXCEPT !.state = st]
    OBVIOUS
  <2>3. Become(i, [x |-> y, out |-> {m}]) /\ id[i].life = "live" /\ id[i].state \in {"REQ_RCVD", "REP_RCVD"}
    BY <1>4, <2>1, <2>2 DEF SendMra, Open
  <2>4. Idle({m})
    BY <2>1 DEF Idle, Msg
  <2>5. /\ Good(y) /\ y.state = st
        /\ y.life = id[i].life /\ y.remote = id[i].remote /\ y.info = id[i].info
    <3>1. /\ st \in States \ {"IDLE", "TIMEWAIT"} /\ "DREQ" \notin id[i].sends
          /\ "REP" \in id[i].sends => st \notin Called
          /\ st \in Calling <=> id[i].state \in Calling
      BY <1>0, <2>1, <2>3 DEF States, Good, Called, Calling
    <3> QED BY <1>0, <2>2, <2>3, <3>1, StateFields
  <2>6. Moves(id[i], y)
    BY <2>1, <2>3, <2>5 DEF Moves, Leaves, PhaseOf, Called, Calling, Answered, Answering
  <2>7. PICK s : s = [x |-> y, out |-> {m}]
    OBVIOUS
  <2>8. s.x = y /\ s.out = {m}
    BY <2>7
  <2> QED BY <2>3, <2>4, <2>6, <2>7, <2>8, BecomeOrdinary
<1>5. CASE Destroy(i)
  <2>1. PICK s \in cm_destroy_id(i, id[i]) : Become(i, s)
    BY <1>5 DEF Destroy
  <2> QED BY <1>0, <1>5, <2>1, DestroyMoves, BecomeOrdinary DEF Destroy
<1> QED BY <1>1, <1>2, <1>3, <1>4, <1>5

(* What the works, the callbacks and the MAD layer do. *)
LEMMA StepOrdinary ==
    ASSUME IInv, NEW i \in Ids, Step(i)
    PROVE  Ordinary
<1>0. Good(id[i]) /\ id[i] \in IdType
  BY DEF IInv, Good
<1>a. ASSUME NEW y, Become(i, [x |-> y, out |-> {}]), Moves(id[i], y) PROVE Ordinary
  <2>1. PICK s : s = [x |-> y, out |-> {}]
    OBVIOUS
  <2>2. s.x = y /\ s.out = {}
    BY <2>1
  <2> QED BY <1>a, <2>1, <2>2, BecomeOrdinary DEF Idle
<1>b. ASSUME NEW y, Moves(id[i], y), y.life = "live", Racing \/ ~y.err,
             NEW s \in cm_destroy_id(i, y), Become(i, s) PROVE Ordinary
  <2>1. Good(y) /\ y \in IdType
    BY <1>b DEF Moves, Good
  <2>2. Moves(y, s.x) /\ s.x.life = "dying" /\ Idle(s.out) /\ s.x \in IdType
    BY <1>b, <2>1, DestroyMoves DEF Moves, Good
  <2>3. Moves(id[i], s.x)
    BY <1>0, <1>b, <2>1, <2>2, MovesTrans
  <2> QED BY <1>b, <2>2, <2>3, BecomeOrdinary
<1>1. CASE Return(i)
  <2> DEFINE x == [id[i] EXCEPT !.work = @ - 1,
                              !.refcount = IF id[i].work = 1 THEN @ - 1 ELSE @]
             last == [id[i] EXCEPT !.work = 0, !.refcount = @ - 1]
  <2>1. id[i].work > 0
    BY <1>1 DEF Return
  <2>2. Moves(id[i], x) /\ Moves(id[i], last) /\ last.life = id[i].life /\ last.err = id[i].err
    BY <1>0, <2>1, ReturnMoves
  <2>3. \/ Become(i, [x |-> x, out |-> {}])
        \/ /\ id[i].life = "live" /\ (Racing \/ ~id[i].err)
           /\ \E s \in cm_destroy_id(i, last) : Become(i, s)
    BY <1>1 DEF Return
  <2> HIDE DEF x, last
  <2> QED BY <1>a, <1>b, <2>2, <2>3
<1>2. CASE Free(i)
  <2>1. PICK y : y = [id[i] EXCEPT !.life = "freed", !.remote = NoId]
    OBVIOUS
  <2>2. Become(i, [x |-> y, out |-> {}]) /\ id[i].life = "dying" /\ id[i].refcount = 0
    BY <1>2, <2>1 DEF Free
  <2>3. /\ y \in IdType /\ y.state = id[i].state /\ y.life = "freed" /\ y.remote = NoId
        /\ y.info = id[i].info /\ y.sends = id[i].sends /\ y.work = id[i].work
        /\ y.refcount = id[i].refcount /\ y.err = id[i].err
    BY <1>0, <2>1 DEF IdType, Lives, Remotes
  <2>4. id[i].work = 0 /\ id[i].sends = {}
    <3>1. Cardinality(id[i].sends) = 0 /\ IsFiniteSet(id[i].sends) /\ id[i].work = 0
      BY <1>0, <2>2, SendsFinite DEF Good, Held, IdType
    <3> QED BY <3>1, FS_EmptySet
  <2>5. Good(y)
    BY <1>0, <2>2, <2>3, <2>4 DEF Good, Held
  <2>6. Moves(id[i], y)
    BY <2>2, <2>3, <2>5 DEF Moves, Leaves, PhaseOf
  <2> QED BY <1>a, <2>2, <2>6
<1>3. CASE EstablishWork(i)
  <2> DEFINE x == [id[i] EXCEPT !.est = FALSE]
  <2>1. Moves(id[i], x) /\ x.life = id[i].life
    BY <1>0, EstMoves
  <2>2. Become(i, [x |-> IF id[i].life = "live" /\ id[i].state = "ESTABLISHED"
                         THEN Queue(x) ELSE x, out |-> {}])
    BY <1>3 DEF EstablishWork
  <2> HIDE DEF x
  <2>3. id[i].life = "live" => Moves(id[i], Queue(x))
    BY <1>0, <2>1, QueueMoves
  <2> QED BY <1>a, <2>1, <2>2, <2>3
<1>4. ASSUME NEW r \in id[i].wait, TimewaitExit(i, r) PROVE Ordinary
  <2> DEFINE x == [id[i] EXCEPT !.wait = @ \ {r}]
             z == [x EXCEPT !.state = "IDLE"]
  <2>1. /\ Moves(id[i], x)
        /\ id[i].life = "live" /\ id[i].state = "TIMEWAIT" => Moves(id[i], z) /\ z.life = "live"
    BY <1>0, ExitMoves
  <2>2. Become(i, [x |-> IF Acquired(i, r) /\ id[i].state = "TIMEWAIT"
                         THEN Queue(z) ELSE x, out |-> {}])
    BY <1>4 DEF TimewaitExit
  <2> HIDE DEF x, z
  <2>3. id[i].life = "live" /\ id[i].state = "TIMEWAIT" => Moves(id[i], Queue(z))
    BY <1>0, <2>1, QueueMoves
  <2> QED BY <1>a, <2>1, <2>2, <2>3 DEF Acquired
<1>5. ASSUME NEW k \in id[i].sends, SendDone(i, k) PROVE Ordinary
  <2> DEFINE x == [id[i] EXCEPT !.sends = @ \ {k}, !.refcount = @ - 1,
                              !.msg = IF @ = k THEN "none" ELSE @]
             y == IF k = "DREQ" THEN cm_enter_timewait(x) ELSE cm_reset_to_idle(x)
             z == [y EXCEPT !.err = TRUE]
             failed == id[i].msg = k /\ id[i].state \in Waits(k)
  <2>1. Moves(id[i], x) /\ x.life = id[i].life
    BY <1>0, DoneMoves
  <2>2. Become(i, [x |-> IF ~failed THEN x ELSE z, out |-> {}])
    BY <1>5 DEF SendDone
  <2>3. ASSUME failed PROVE Moves(id[i], z)
    <3>1. id[i].life = "live"
      <4>1. id[i].state # "IDLE"
        BY <1>0, <2>3 DEF Waits, IdType, Sends
      <4> QED BY <1>0, <4>1 DEF Good
    <3>2. Good(x) /\ x \in IdType
      BY <2>1 DEF Moves, Good
    <3>3. Moves(x, y) /\ y.life = "live"
      <4> HIDE DEF x
      <4> QED BY <2>1, <3>1, <3>2, TimewaitMoves, ResetMoves
    <3> HIDE DEF x, y
    <3>4. Good(y) /\ y \in IdType
      BY <3>3 DEF Moves, Good
    <3>5. Moves(y, z) /\ z.life = "live"
      BY <3>3, <3>4, ErrMoves
    <3> HIDE DEF z
    <3>6. z \in IdType
      BY <3>5 DEF Moves, Good
    <3>7. Moves(id[i], y)
      BY <1>0, <2>1, <3>1, <3>2, <3>3, <3>4, MovesTrans
    <3> QED BY <1>0, <3>3, <3>4, <3>5, <3>6, <3>7, MovesTrans
  <2> HIDE DEF x, y, z, failed
  <2> QED BY <1>a, <2>1, <2>2, <2>3
<1>6. CASE ErrorReturn(i)
  <2> DEFINE x == [id[i] EXCEPT !.err = FALSE]
  <2>1. Moves(id[i], x) /\ x.life = id[i].life /\ x.err = FALSE
    BY <1>0, ErrMoves
  <2>2. \/ Become(i, [x |-> x, out |-> {}])
        \/ /\ id[i].life = "live"
           /\ \E s \in cm_destroy_id(i, x) : Become(i, s)
    BY <1>6 DEF ErrorReturn
  <2> HIDE DEF x
  <2> QED BY <1>a, <1>b, <2>1, <2>2
<1> QED BY <1>1, <1>2, <1>3, <1>4, <1>5, <1>6 DEF Step

(* The info of an ID that waits for a REP gets the remote ID: it is not in   *)
(* the tables yet.                                                           *)
LEMMA NamedMoves ==
    ASSUME NEW x, Good(x), x.life = "live", x.state \in Calling, NEW p \in Ids
    PROVE  LET y == [x EXCEPT !.info.remote = p]
           IN  /\ Moves(x, y) /\ y.life = "live" /\ y.state = x.state
               /\ y.info = [x.info EXCEPT !.remote = p]
<1>1. PICK f : f = [x.info EXCEPT !.remote = p]
  OBVIOUS
<1>2. PICK y : y = [x EXCEPT !.info = f]
  OBVIOUS
<1>3. x \in IdType /\ x.info \in InfoType
  BY DEF Good, IdType
<1>4. y = [x EXCEPT !.info.remote = p]
  BY <1>1, <1>2
<1>5. f \in InfoType /\ f.on = x.info.on /\ f.inId = x.info.inId /\ f.inQp = x.info.inQp
  BY <1>1, <1>3 DEF InfoType, Remotes
<1>6. ~f.inId /\ ~f.inQp
  BY <1>5 DEF Good
<1>7. /\ y \in IdType /\ y.state = x.state /\ y.life = x.life /\ y.remote = x.remote
      /\ y.info = f /\ y.sends = x.sends /\ y.work = x.work
      /\ y.refcount = x.refcount /\ y.err = x.err
  BY <1>2, <1>3, <1>5 DEF IdType
<1>8. Good(y)
  BY <1>5, <1>6, <1>7 DEF Good, Held
<1>9. PhaseOf(y) = PhaseOf(x)
  BY <1>7 DEF PhaseOf
<1>10. Moves(x, y)
  BY <1>6, <1>7, <1>8, <1>9 DEF Moves, Leaves
<1> QED BY <1>1, <1>4, <1>7, <1>10

(* The answers that end a connection or put it off: a DREQ, a DREP, a REJ,   *)
(* an MRA.                                                                   *)
LEMMA ReceiveOrdinary ==
    ASSUME IInv, NEW i \in Ids, NEW j \in Ids, NEW m,
           RecvDreq(i, j) \/ RecvDrep(i, j) \/ RecvRej(m, j) \/ RecvMra(m, j)
    PROVE  Ordinary
<1>0. Good(id[j]) /\ id[j] \in IdType
  BY DEF IInv, Good
<1>a. ASSUME NEW y, Become(j, [x |-> Queue(y), out |-> {}]), Moves(id[j], y), y.life = "live"
      PROVE  Ordinary
  <2>1. PICK s : s = [x |-> Queue(y), out |-> {}]
    OBVIOUS
  <2>2. s.x = Queue(y) /\ s.out = {}
    BY <2>1
  <2>3. Moves(id[j], Queue(y))
    BY <1>0, <1>a, QueueMoves
  <2> QED BY <1>a, <2>1, <2>2, <2>3, BecomeOrdinary DEF Idle
<1>1. CASE RecvDreq(i, j)
  <2>1. CASE net' = net \cup {Msg("DREP", j, i)} /\ UNCHANGED id
    <3>1. Idle({Msg("DREP", j, i)})
      BY DEF Idle, Msg
    <3>2. \A k \in Ids : Moves(id[k], id'[k])
      BY <2>1, MovesSelf DEF IInv
    <3> QED BY <2>1, <3>1, <3>2 DEF Ordinary, IInv
  <2>2. CASE /\ Acquired(j, i)
             /\ id[j].state \in {"REP_SENT", "DREQ_SENT", "MRA_REP_RCVD", "ESTABLISHED"}
             /\ Become(j, [x |-> Queue([id[j] EXCEPT !.state = "DREQ_RCVD"]), out |-> {}])
    <3>1. PICK y : y = [id[j] EXCEPT !.state = "DREQ_RCVD"]
      OBVIOUS
    <3>2. id[j].life = "live"
      BY <2>2 DEF Acquired
    <3>3. /\ Good(y) /\ y.state = "DREQ_RCVD"
          /\ y.life = id[j].life /\ y.remote = id[j].remote /\ y.info = id[j].info
      <4>1. /\ "DREQ_RCVD" \in States \ {"IDLE", "TIMEWAIT"} /\ "DREQ_RCVD" \notin Called
            /\ "DREQ_RCVD" \notin Calling /\ id[j].state \notin Calling
        BY <2>2 DEF States, Called, Calling
      <4> QED BY <1>0, <3>1, <3>2, <4>1, StateFields
    <3>4. Moves(id[j], y)
      BY <3>2, <3>3 DEF Moves, Leaves, PhaseOf, Called, Calling, Answered, Answering
    <3> QED BY <1>a, <2>2, <3>1, <3>2, <3>3, <3>4
  <2> QED BY <1>1, <2>1, <2>2 DEF RecvDreq
<1>2. CASE RecvDrep(i, j)
  BY <1>0, <1>a, <1>2, TimewaitMoves DEF RecvDrep, Acquired
<1>3. CASE RecvRej(m, j)
  <2>1. id[j].life = "live"
    BY <1>3 DEF RecvRej, Rejected, Acquired
  <2>2. \/ Become(j, [x |-> Queue(cm_enter_timewait(id[j])), out |-> {}])
        \/ Become(j, [x |-> Queue(cm_reset_to_idle(id[j])), out |-> {}])
    BY <1>3 DEF RecvRej
  <2> QED BY <1>0, <1>a, <2>1, <2>2, TimewaitMoves, ResetMoves
<1>4. CASE RecvMra(m, j)
  <2>1. PICK st : st = IF m.of = "REQ" THEN "MRA_REQ_RCVD" ELSE "MRA_REP_RCVD"
    OBVIOUS
  <2>2. PICK y : y = [id[j] EXCEPT !.state = st]
    OBVIOUS
  <2>3. /\ Become(j, [x |-> Queue(y), out |-> {}]) /\ id[j].life = "live"
        /\ id[j].state = (IF m.of = "REQ" THEN "REQ_SENT" ELSE "REP_SENT")
    BY <1>4, <2>1, <2>2 DEF RecvMra, Acquired
  <2>4. /\ Good(y) /\ y.state = st
        /\ y.life = id[j].life /\ y.remote = id[j].remote /\ y.info = id[j].info
    <3>1. /\ st \in States \ {"IDLE", "TIMEWAIT"} /\ st \notin Called /\ "DREQ" \notin id[j].sends
          /\ st \in Calling <=> id[j].state \in Calling
      BY <1>0, <2>1, <2>3 DEF States, Called, Calling, Good
    <3> QED BY <1>0, <2>2, <2>3, <3>1, StateFields
  <2>5. Moves(id[j], y)
    BY <2>1, <2>3, <2>4 DEF Moves, Leaves, PhaseOf, Called, Calling, Answered, Answering
  <2> QED BY <1>a, <2>3, <2>4, <2>5
<1> QED BY <1>1, <1>2, <1>3, <1>4

(* An ID that was not made yet. *)
LEMMA NewFields ==
    /\ NewId \in IdType
    /\ NewId.life = "none" /\ NewId.state = "IDLE" /\ NewId.remote = NoId
    /\ NewId.info = NoInfo /\ NewId.sends = {} /\ NewId.work = 0
    /\ NewId.refcount = 0 /\ NewId.err = FALSE
<1>1. NoInfo \in InfoType
  BY DEF NoInfo, InfoType, Remotes
<1>2. /\ "none" \in Lives /\ "IDLE" \in States /\ NoId \in Remotes /\ {} \in SUBSET Remotes
      /\ "none" \in Sends \cup {"none"} /\ {} \in SUBSET Sends /\ 0 \in Int /\ 0 \in Nat
  BY DEF Lives, States, Remotes
<1>3. NewId \in IdType
  BY <1>1, <1>2 DEF NewId, IdType
<1> QED BY <1>3 DEF NewId

(* The connecting host forgets its IDs. *)
LEMMA CrashOrdinary ==
    ASSUME IInv, Crash
    PROVE  Ordinary
<1>1. PICK y : y = [NewId EXCEPT !.life = "lost"]
  OBVIOUS
<1>2. /\ y \in IdType /\ y.life = "lost" /\ y.state = "IDLE" /\ y.info = NoInfo /\ y.sends = {}
      /\ y.work = 0 /\ y.refcount = 0 /\ y.err = FALSE
  BY <1>1, NewFields DEF IdType, Lives
<1>3. Good(y)
  <2>1. Held(y) = 0
    BY <1>2, FS_EmptySet DEF Held
  <2>2. y.info.inId = FALSE /\ y.info.inQp = FALSE
    BY <1>2 DEF NoInfo
  <2> QED BY <1>2, <2>1, <2>2 DEF Good, Called, Calling
<1>4. ASSUME NEW i \in Ids, id[i].life # "none" PROVE Moves(id[i], y)
  <2>1. y.info.inId = FALSE /\ y.info.inQp = FALSE
    BY <1>2 DEF NoInfo
  <2> QED BY <1>2, <1>3, <1>4, <2>1
             DEF Moves, Leaves, PhaseOf, Called, Calling, Answered, Answering
<1>5. /\ id' = [i \in Ids |-> IF i \in Act /\ id[i].life # "none" THEN y ELSE id[i]]
      /\ net' = net
  BY <1>1 DEF Crash
<1>6. id' \in [Ids -> IdType]
  BY <1>2, <1>5 DEF IInv
<1>7. \A i \in Ids : Moves(id[i], id'[i])
  BY <1>4, <1>5, MovesSelf DEF IInv
<1>8. net' = net \cup {} /\ Idle({})
  BY <1>5 DEF Idle
<1> QED BY <1>6, <1>7, <1>8 DEF Ordinary

(* A REQ that comes for the QP of another ID, which turns out to be stale. *)
LEMMA StaleOrdinary ==
    ASSUME IInv, NEW S \in SUBSET Ids, NEW out, Idle(out), Stale(S, out)
    PROVE  Ordinary
<1>1. PICK j \in S :
         IF Acquired(j, id[j].info.remote)
         THEN \E s \in cm_send_dreq(j, id[j]) : Become(j, [s EXCEPT !.out = @ \cup out])
         ELSE net' = net \cup out /\ UNCHANGED id
  BY DEF Stale
<1>2. CASE net' = net \cup out /\ UNCHANGED id
  <2>1. \A k \in Ids : Moves(id[k], id'[k])
    BY <1>2, MovesSelf DEF IInv
  <2> QED BY <1>2, <2>1 DEF Ordinary, IInv
<1>3. ASSUME id[j].life = "live", NEW s \in cm_send_dreq(j, id[j]),
             Become(j, [s EXCEPT !.out = @ \cup out])
      PROVE  Ordinary
  <2>1. Moves(id[j], s.x) /\ Idle(s.out)
    BY <1>3, DreqMoves DEF IInv
  <2>2. PICK t : t = [s EXCEPT !.out = @ \cup out]
    OBVIOUS
  <2>3. t.x = s.x /\ t.out = s.out \cup out
    <3>1. s = [x |-> s.x, out |-> s.out]
      BY DEF cm_send_dreq
    <3> QED BY <2>2, <3>1
  <2>4. Idle(t.out)
    BY <2>1, <2>3 DEF Idle
  <2> QED BY <1>3, <2>1, <2>2, <2>3, <2>4, BecomeOrdinary
<1> QED BY <1>1, <1>2, <1>3 DEF Acquired
-----------------------------------------------------------------------------
(* The ID i becomes z by a step of the handshake, which sends out. *)
Joins(i, z, out) ==
    /\ id' = [id EXCEPT ![i] = z] /\ net' = net \cup out
    /\ Good(z) /\ z.life = "live"

(* The last part of a step of the handshake. *)
LEMMA BecomeJoins ==
    ASSUME IInv, NEW i \in Ids, NEW s, Become(i, s), Good(s.x), s.x.life = "live"
    PROVE  \E z : /\ Joins(i, z, s.out) /\ z.state = s.x.state
                  /\ z.remote = s.x.remote /\ z.info = s.x.info
<1>1. PICK y : y = s.x
  OBVIOUS
<1>2. PICK z : z = Prompt(i, y)
  OBVIOUS
<1>3. y \in IdType /\ Good(y) /\ y.life = "live"
  BY <1>1 DEF Good
<1>4. /\ Moves(y, z) /\ z.life = y.life /\ z.state = y.state
      /\ z.remote = y.remote /\ z.info = y.info
  BY <1>2, <1>3, MovesSelf, PromptMoves
<1>5. Good(z)
  BY <1>4 DEF Moves
<1> QED BY <1>1, <1>2, <1>3, <1>4, <1>5 DEF Become, Joins

(* ib_create_cm_id() and ib_send_cm_req(). *)
LEMMA ReqSent ==
    ASSUME IInv, NEW a \in Act, SendReq(a)
    PROVE  \E z : /\ Joins(a, z, {Msg("REQ", a, NoId)})
                  /\ z.state = "REQ_SENT" /\ ~z.info.inId /\ ~z.info.inQp
<1>1. PICK f : f = Info(NoId)
  OBVIOUS
<1>2. f \in InfoType /\ f.on = TRUE /\ f.inId = FALSE /\ f.inQp = FALSE
  BY <1>1 DEF Info, InfoType, Remotes
<1>a. PICK one : one = 1
  OBVIOUS
<1>b. one \in Int /\ "live" \in Lives /\ "REQ_SENT" \in States
  BY <1>a DEF Lives, States
<1>3. PICK x : x = [NewId EXCEPT !.life = "live", !.state = "REQ_SENT", !.info = f,
                                 !.refcount = one]
  OBVIOUS
<1>4. /\ x \in IdType /\ x.life = "live" /\ x.state = "REQ_SENT" /\ x.info = f
      /\ x.refcount = one /\ x.sends = {} /\ x.work = 0 /\ x.err = FALSE
  BY <1>2, <1>b, <1>3, NewFields DEF IdType
<1>5. PICK S, n : S = {"REQ"} /\ n = 2
  OBVIOUS
<1>6. PICK y : y = [x EXCEPT !.msg = "REQ", !.sends = S, !.refcount = n]
  OBVIOUS
<1>7. y = SendPriv(x, "REQ")
  <2>1. S = x.sends \cup {"REQ"} /\ n = x.refcount + 1
    BY <1>a, <1>4, <1>5
  <2> QED BY <1>6, <2>1 DEF SendPriv
<1>8. S \in SUBSET Sends /\ n \in Int /\ "REQ" \in Sends
  BY <1>5 DEF Sends
<1>9. /\ y \in IdType /\ y.life = "live" /\ y.state = "REQ_SENT" /\ y.info = f
      /\ y.refcount = n /\ y.sends = S /\ y.work = 0 /\ y.err = FALSE
  BY <1>4, <1>6, <1>8 DEF IdType
<1>10. Held(y) = 2
  <2>1. Cardinality(y.sends) = 1
    BY <1>5, <1>9, FS_Singleton
  <2> QED BY <1>9, <2>1 DEF Held
<1>11. Good(y)
  BY <1>2, <1>5, <1>9, <1>10 DEF Good, Called, Calling
<1>12. PICK s : s = [x |-> y, out |-> {Msg("REQ", a, NoId)}]
  OBVIOUS
<1>13. s.x = y /\ s.out = {Msg("REQ", a, NoId)} /\ Become(a, s)
  BY <1>1, <1>a, <1>3, <1>7, <1>12 DEF SendReq
<1>14. \E z : /\ Joins(a, z, s.out) /\ z.state = s.x.state
              /\ z.remote = s.x.remote /\ z.info = s.x.info
  BY <1>9, <1>11, <1>13, BecomeJoins DEF Ids
<1> QED BY <1>2, <1>9, <1>13, <1>14

(* cm_req_handler() makes an ID for a new request. *)
LEMMA ReqCame ==
    ASSUME IInv, NEW a \in Act, NEW p \in Pas, RecvReq(a, p)
    PROVE  \/ Ordinary
           \/ /\ id[p].life = "none" /\ SameRemote(p, a) = {} /\ SameQp(p, a) = {}
              /\ id[a].life # "none"
              /\ \E z : /\ Joins(p, z, {})
                        /\ z.state = "REQ_RCVD" /\ z.remote = a /\ z.info.remote = a
<1>1. CASE Stale(SameQp(p, a), {Rej(NoId, a, "REQ", "stale")})
  <2>1. Idle({Rej(NoId, a, "REQ", "stale")})
    BY DEF Idle, Rej
  <2>2. SameQp(p, a) \in SUBSET Ids
    BY DEF SameQp, Peers, Ids
  <2> QED BY <1>1, <2>1, <2>2, StaleOrdinary
<1>2. CASE ~Stale(SameQp(p, a), {Rej(NoId, a, "REQ", "stale")})
  <2>1. PICK f, h : f = Info(a) /\ h = [f EXCEPT !.inId = TRUE, !.inQp = TRUE]
    OBVIOUS
  <2>2. /\ f \in InfoType
        /\ h \in InfoType /\ h.on = TRUE /\ h.inId = TRUE /\ h.inQp = TRUE /\ h.remote = a
    BY <2>1 DEF Info, InfoType, Remotes, Ids
  <2>a. PICK one : one = 1
    OBVIOUS
  <2>b. one \in Int /\ "live" \in Lives /\ "REQ_RCVD" \in States /\ a \in Remotes
    BY <2>a DEF Lives, States, Remotes, Ids
  <2>3. PICK x : x = [NewId EXCEPT !.life = "live", !.state = "REQ_RCVD", !.remote = a,
                                   !.refcount = one, !.info = f]
    OBVIOUS
  <2>4. /\ x \in IdType /\ x.life = "live" /\ x.state = "REQ_RCVD" /\ x.info = f /\ x.remote = a
        /\ x.refcount = one /\ x.sends = {} /\ x.work = 0 /\ x.err = FALSE
    BY <2>2, <2>b, <2>3, NewFields DEF IdType
  <2>5. PICK y : y = [x EXCEPT !.info = h]
    OBVIOUS
  <2>6. y = Inserted(x)
    BY <2>1, <2>4, <2>5 DEF Inserted, IdType
  <2>7. /\ y \in IdType /\ y.life = "live" /\ y.state = "REQ_RCVD" /\ y.info = h /\ y.remote = a
        /\ y.refcount = one /\ y.sends = {} /\ y.work = 0 /\ y.err = FALSE
    BY <2>2, <2>4, <2>5 DEF IdType
  <2>8. Held(y) = 1
    BY <2>7, FS_EmptySet DEF Held
  <2>9. Good(y)
    BY <2>a, <2>2, <2>7, <2>8 DEF Good, Called, Calling
  <2>10. PICK w : w = Queue(y)
    OBVIOUS
  <2>11. /\ Moves(y, w) /\ w.life = "live" /\ w.state = "REQ_RCVD" /\ w.remote = a
         /\ w.info.remote = a
    BY <2>2, <2>7, <2>9, <2>10, MovesSelf, QueueMoves
  <2>12. PICK s : s = [x |-> w, out |-> {}]
    OBVIOUS
  <2>13. s.x = w /\ s.out = {} /\ Become(p, s) /\ Good(w)
    BY <1>2, <2>1, <2>a, <2>3, <2>6, <2>10, <2>11, <2>12 DEF RecvReq, Moves
  <2>14. \E z : /\ Joins(p, z, s.out) /\ z.state = s.x.state
                /\ z.remote = s.x.remote /\ z.info = s.x.info
    BY <2>11, <2>13, BecomeJoins DEF Ids
  <2>15. /\ id[p].life = "none" /\ SameRemote(p, a) = {} /\ SameQp(p, a) = {}
         /\ id[a].life # "none"
    BY <1>2 DEF RecvReq, IInv, Roles
  <2> QED BY <2>11, <2>13, <2>14, <2>15
<1> QED BY <1>1, <1>2

(* ib_send_cm_rep(). *)
LEMMA RepSent ==
    ASSUME IInv, NEW p \in Pas, SendRep(p)
    PROVE  /\ id[p].life = "live" /\ id[p].state \in Called
           /\ \E z : /\ Joins(p, z, {Msg("REP", p, id[p].remote)})
                     /\ z.state = "REP_SENT" /\ z.remote = id[p].remote /\ z.info = id[p].info
<1>1. id[p].life = "live" /\ id[p].state \in Called
  BY DEF SendRep, Open, Called
<1>2. PICK y : y = [SendPriv(id[p], "REP") EXCEPT !.state = "REP_SENT"]
  OBVIOUS
<1>3. /\ Good(y) /\ y.state = "REP_SENT"
      /\ y.life = id[p].life /\ y.remote = id[p].remote /\ y.info = id[p].info
  <2>1. Good(id[p])
    BY DEF IInv, Ids
  <2>2. /\ "REP" \notin id[p].sends /\ "DREQ" \notin id[p].sends /\ "REP" \in Sends
        /\ "REP_SENT" \in States \ ({"IDLE", "TIMEWAIT"} \cup Calling \cup Called)
        /\ id[p].state \notin Calling
    BY <1>1, <2>1 DEF Good, Sends, States, Calling, Called
  <2> QED BY <1>1, <1>2, <2>1, <2>2, SendFields
<1>4. PICK s : s = [x |-> y, out |-> {Msg("REP", p, id[p].remote)}]
  OBVIOUS
<1>5. s.x = y /\ s.out = {Msg("REP", p, id[p].remote)} /\ Become(p, s)
  BY <1>2, <1>4 DEF SendRep
<1>6. \E z : /\ Joins(p, z, s.out) /\ z.state = s.x.state
             /\ z.remote = s.x.remote /\ z.info = s.x.info
  BY <1>1, <1>3, <1>5, BecomeJoins DEF Ids
<1> QED BY <1>1, <1>3, <1>5, <1>6

(* cm_rep_handler(): the answer is taken, or it names an ID or a QP that is  *)
(* in use.                                                                   *)
LEMMA RepCame ==
    ASSUME IInv, NEW a \in Act, NEW p \in Pas, RecvRep(p, a)
    PROVE  \/ Ordinary
           \/ /\ id[a].life = "live" /\ id[a].state \in Calling
              /\ SameRemote(a, p) = {} /\ SameQp(a, p) = {} /\ Msg("REP", p, a) \in net
              /\ \E z : /\ Joins(a, z, {})
                        /\ z.state = "REP_RCVD" /\ z.remote = p /\ z.info.remote = p
<1>0. /\ Good(id[a]) /\ id[a] \in IdType /\ id[a].life = "live" /\ id[a].state \in Calling
      /\ Msg("REP", p, a) \in net /\ a \in Ids /\ p \in Ids
  BY DEF IInv, Good, RecvRep, Acquired, Calling, Ids
<1>1. PICK x : x = [id[a] EXCEPT !.info.remote = p]
  OBVIOUS
<1>2. /\ Moves(id[a], x) /\ x.life = "live" /\ x.state = id[a].state
      /\ x.info = [id[a].info EXCEPT !.remote = p]
  BY <1>0, <1>1, NamedMoves
<1>3. Good(x) /\ x \in IdType
  BY <1>2 DEF Moves, Good
<1>4. PICK y : y = [Inserted(x) EXCEPT !.state = "REP_RCVD", !.remote = p]
  OBVIOUS
<1>5. CASE SameRemote(a, p) # {}
  <2>1. PICK s : s = [x |-> x, out |-> {}]
    OBVIOUS
  <2>2. s.x = x /\ s.out = {} /\ Become(a, s)
    BY <1>1, <1>5, <2>1 DEF RecvRep
  <2> QED BY <1>0, <1>2, <2>2, BecomeOrdinary DEF Idle
<1>6. CASE SameRemote(a, p) = {} /\ SameQp(a, p) = {}
  <2>1. PICK h : h = [x.info EXCEPT !.inId = TRUE, !.inQp = TRUE]
    OBVIOUS
  <2>2. /\ h \in InfoType /\ h.on = TRUE /\ h.remote = p /\ x.info \in InfoType
    <3>1. id[a].info \in InfoType /\ id[a].info.on = TRUE
      BY <1>0 DEF Good, IdType, InfoType
    <3> QED BY <1>2, <2>1, <3>1 DEF InfoType, Remotes, Ids
  <2>3. y = [x EXCEPT !.info = h, !.state = "REP_RCVD", !.remote = p]
    <3>1. Inserted(x) = [x EXCEPT !.info = h]
      BY <1>3, <2>1 DEF Inserted, IdType
    <3> QED BY <1>3, <1>4, <2>2, <3>1 DEF IdType
  <2>4. /\ y \in IdType /\ y.state = "REP_RCVD" /\ y.life = x.life /\ y.remote = p
        /\ y.info = h /\ y.sends = x.sends /\ y.work = x.work
        /\ y.refcount = x.refcount /\ y.err = x.err
    BY <1>3, <2>2, <2>3 DEF IdType, States, Remotes, Ids
  <2>5. "DREQ" \notin x.sends
    BY <1>0, <1>2, <1>3 DEF Good, Calling
  <2>6. Good(y)
    BY <1>2, <1>3, <2>2, <2>4, <2>5 DEF Good, Held, Called, Calling
  <2>7. PICK w : w = Queue(y)
    OBVIOUS
  <2>8. /\ Moves(y, w) /\ w.life = "live" /\ w.state = "REP_RCVD" /\ w.remote = p
        /\ w.info.remote = p
    BY <1>2, <2>2, <2>4, <2>6, <2>7, MovesSelf, QueueMoves
  <2>9. PICK s : s = [x |-> w, out |-> {}]
    OBVIOUS
  <2>10. s.x = w /\ s.out = {} /\ Become(a, s) /\ Good(w)
    BY <1>1, <1>4, <1>6, <2>7, <2>8, <2>9 DEF RecvRep, Moves
  <2>11. \E z : /\ Joins(a, z, s.out) /\ z.state = s.x.state
                /\ z.remote = s.x.remote /\ z.info = s.x.info
    BY <1>0, <2>8, <2>10, BecomeJoins
  <2> QED BY <1>0, <1>6, <2>8, <2>10, <2>11
<1>7. CASE SameRemote(a, p) = {} /\ SameQp(a, p) # {}
  <2>0. PICK j \in SameQp(a, p) : \E s :
           /\ s \in (IF Acquired(j, id[j].info.remote) THEN cm_send_dreq(j, id[j])
                     ELSE {[x |-> id[j], out |-> {}]})
           /\ id' = [id EXCEPT ![a] = x, ![j] = Prompt(j, s.x)]
           /\ net' = net \cup s.out \cup {Rej(a, p, "REP", "stale")}
    BY <1>1, <1>7 DEF RecvRep
  <2>1. PICK s :
           /\ s \in (IF Acquired(j, id[j].info.remote) THEN cm_send_dreq(j, id[j])
                     ELSE {[x |-> id[j], out |-> {}]})
           /\ id' = [id EXCEPT ![a] = x, ![j] = Prompt(j, s.x)]
           /\ net' = net \cup s.out \cup {Rej(a, p, "REP", "stale")}
    BY <2>0
  <2>2. j \in Ids /\ j # a /\ Good(id[j]) /\ id[j] \in IdType
    BY <2>1 DEF SameQp, Peers, Ids, IInv, Good
  <2>3. Moves(id[j], s.x) /\ Idle(s.out)
    BY <2>1, <2>2, DreqMoves, MovesSelf DEF Acquired, Idle
  <2>4. PICK z : z = Prompt(j, s.x)
    OBVIOUS
  <2>5. Moves(id[j], z) /\ z \in IdType
    <3>1. Moves(id[j], z)
      BY <2>2, <2>3, <2>4, PromptMoves
    <3> QED BY <3>1 DEF Moves, Good
  <2>6. id' = [id EXCEPT ![a] = x, ![j] = z]
    BY <2>1, <2>4
  <2>7. id' \in [Ids -> IdType]
    BY <1>0, <1>3, <2>2, <2>5, <2>6 DEF IInv
  <2>8. \A i \in Ids : Moves(id[i], id'[i])
    BY <1>0, <1>2, <2>2, <2>5, <2>6, MovesSelf DEF IInv
  <2>9. /\ net' = net \cup (s.out \cup {Rej(a, p, "REP", "stale")})
        /\ Idle(s.out \cup {Rej(a, p, "REP", "stale")})
    BY <2>1, <2>3 DEF Idle, Rej
  <2> QED BY <2>7, <2>8, <2>9 DEF Ordinary
<1> QED BY <1>5, <1>6, <1>7

(* ib_send_cm_rtu(). *)
LEMMA RtuSent ==
    ASSUME IInv, NEW a \in Act, SendRtu(a)
    PROVE  /\ id[a].life = "live" /\ id[a].state \in Answered
           /\ \E z : /\ Joins(a, z, {Msg("RTU", a, id[a].remote)})
                     /\ z.state = "ESTABLISHED" /\ z.info = id[a].info
<1>1. id[a].life = "live" /\ id[a].state \in Answered
  BY DEF SendRtu, Open, Answered
<1>2. PICK y : y = [id[a] EXCEPT !.state = "ESTABLISHED"]
  OBVIOUS
<1>3. /\ Good(y) /\ y.state = "ESTABLISHED" /\ y.life = id[a].life /\ y.info = id[a].info
  <2>1. Good(id[a])
    BY DEF IInv, Ids
  <2>2. /\ "DREQ" \notin id[a].sends /\ "ESTABLISHED" \in States \ {"IDLE", "TIMEWAIT"}
        /\ "ESTABLISHED" \notin Calling \cup Called /\ id[a].state \notin Calling
    BY <1>1, <2>1 DEF Good, States, Calling, Called, Answered
  <2> QED BY <1>1, <1>2, <2>1, <2>2, StateFields
<1>4. PICK s : s = [x |-> y, out |-> {Msg("RTU", a, id[a].remote)}]
  OBVIOUS
<1>5. s.x = y /\ s.out = {Msg("RTU", a, id[a].remote)} /\ Become(a, s)
  BY <1>2, <1>4 DEF SendRtu
<1>6. \E z : /\ Joins(a, z, s.out) /\ z.state = s.x.state
             /\ z.remote = s.x.remote /\ z.info = s.x.info
  BY <1>1, <1>3, <1>5, BecomeJoins DEF Ids
<1> QED BY <1>1, <1>3, <1>5, <1>6

(* cm_rtu_handler(), and cm_establish() before the RTU comes. *)
LEMMA RtuCame ==
    ASSUME IInv, NEW p \in Pas, Establish(p) \/ \E a \in Act : RecvRtu(a, p)
    PROVE  /\ id[p].life = "live" /\ id[p].state \in Answering
           /\ Msg("RTU", id[p].remote, p) \in net
           /\ \E z : /\ Joins(p, z, {})
                     /\ z.state = "ESTABLISHED" /\ z.info = id[p].info
<1>0. Good(id[p]) /\ id[p] \in IdType
  BY DEF IInv, Ids, Good
<1>1. /\ id[p].life = "live" /\ id[p].state \in Answering
      /\ Msg("RTU", id[p].remote, p) \in net
  BY DEF Establish, RecvRtu, Acquired, Open, Answering
<1>2. PICK y : y = [id[p] EXCEPT !.state = "ESTABLISHED"]
  OBVIOUS
<1>3. /\ Good(y) /\ y.state = "ESTABLISHED" /\ y.life = "live" /\ y.info = id[p].info /\ y \in IdType
  <2>1. /\ "DREQ" \notin id[p].sends /\ "ESTABLISHED" \in States \ {"IDLE", "TIMEWAIT"}
        /\ "ESTABLISHED" \notin Calling \cup Called /\ id[p].state \notin Calling
    BY <1>0, <1>1 DEF Good, States, Calling, Called, Answering
  <2>2. Good(y) /\ y.state = "ESTABLISHED" /\ y.life = "live" /\ y.info = id[p].info
    BY <1>0, <1>1, <1>2, <2>1, StateFields
  <2> QED BY <2>2 DEF Good
<1>4. \E w : /\ Become(p, [x |-> w, out |-> {}])
             /\ Good(w) /\ w.state = "ESTABLISHED" /\ w.life = "live" /\ w.info = id[p].info
  <2>1. CASE Establish(p)
    <3>1. PICK w : w = [y EXCEPT !.est = TRUE]
      OBVIOUS
    <3>2. w = [id[p] EXCEPT !.state = "ESTABLISHED", !.est = TRUE]
      BY <1>0, <1>2, <3>1 DEF IdType
    <3>3. Moves(y, w) /\ w.state = y.state /\ w.life = y.life /\ w.info = y.info
      BY <1>3, <3>1, EstMoves
    <3> QED BY <1>3, <2>1, <3>2, <3>3 DEF Establish, Moves
  <2>2. ASSUME NEW a \in Act, RecvRtu(a, p)
        PROVE  \E w : /\ Become(p, [x |-> w, out |-> {}])
                      /\ Good(w) /\ w.state = "ESTABLISHED" /\ w.life = "live"
                      /\ w.info = id[p].info
    <3>1. Moves(y, Queue(y)) /\ Queue(y).state = y.state /\ Queue(y).life = "live"
          /\ Queue(y).info = y.info
      BY <1>3, MovesSelf, QueueMoves
    <3>2. Become(p, [x |-> Queue(y), out |-> {}])
      BY <1>2, <2>2 DEF RecvRtu
    <3> QED BY <1>3, <3>1, <3>2 DEF Moves
  <2> QED BY <2>1, <2>2
<1>5. PICK w : /\ Become(p, [x |-> w, out |-> {}])
               /\ Good(w) /\ w.state = "ESTABLISHED" /\ w.life = "live" /\ w.info = id[p].info
  BY <1>4
<1>6. PICK s : s = [x |-> w, out |-> {}]
  OBVIOUS
<1>7. s.x = w /\ s.out = {} /\ Become(p, s)
  BY <1>5, <1>6
<1>8. \E z : /\ Joins(p, z, s.out) /\ z.state = s.x.state
             /\ z.remote = s.x.remote /\ z.info = s.x.info
  BY <1>5, <1>7, BecomeJoins DEF Ids
<1> QED BY <1>1, <1>5, <1>7, <1>8

(* A step of the handshake keeps every ID good, and the tables, if what it   *)
(* enters is new to them.                                                    *)
LEMMA JoinsKeep ==
    ASSUME IInv, NEW i \in Ids, NEW z, NEW out, Joins(i, z, out),
           \A j \in Peers(i) :
              /\ z.info.inId /\ id[j].info.inId => z.info.remote # id[j].info.remote
              /\ z.info.inQp /\ id[j].info.inQp
                    => Qpn[z.info.remote] # Qpn[id[j].info.remote]
    PROVE  /\ id' \in [Ids -> IdType] /\ \A j \in Ids : Good(id'[j])
           /\ Unique'
           /\ id'[i] = z /\ \A j \in Ids \ {i} : id'[j] = id[j]
           /\ net' = net \cup out /\ z.life = "live"
<1>1. /\ id' \in [Ids -> IdType] /\ id'[i] = z /\ \A j \in Ids \ {i} : id'[j] = id[j]
      /\ Good(z) /\ net' = net \cup out /\ z.life = "live"
  BY DEF Joins, IInv, Good
<1>2. \A j \in Ids : Good(id'[j])
  BY <1>1 DEF IInv
<1>3. ASSUME NEW j \in Ids, NEW k \in Ids, k \in Peers(j)
      PROVE  /\ id'[j].info.inId /\ id'[k].info.inId
                   => id'[j].info.remote # id'[k].info.remote
             /\ id'[j].info.inQp /\ id'[k].info.inQp
                   => Qpn[id'[j].info.remote] # Qpn[id'[k].info.remote]
  <2>1. k # j /\ j \in Peers(k)
    BY <1>3, IbCmAssumption DEF Peers, Ids
  <2>2. CASE i = j
    <3>1. id'[j] = z /\ id'[k] = id[k] /\ k \in Peers(i)
      BY <1>1, <1>3, <2>1, <2>2
    <3> QED BY <3>1
  <2>3. CASE i = k
    <3>1. id'[k] = z /\ id'[j] = id[j] /\ j \in Peers(i)
      BY <1>1, <2>1, <2>3
    <3> QED BY <3>1
  <2>4. CASE i # j /\ i # k
    <3>1. id'[j] = id[j] /\ id'[k] = id[k]
      BY <1>1, <2>4
    <3>2. /\ id[j].info.inId /\ id[k].info.inId
                => id[j].info.remote # id[k].info.remote
          /\ id[j].info.inQp /\ id[k].info.inQp
                => Qpn[id[j].info.remote] # Qpn[id[k].info.remote]
      BY <1>3 DEF IInv, Unique
    <3> QED BY <3>1, <3>2
  <2> QED BY <2>2, <2>3, <2>4
<1>4. Unique'
  BY <1>3 DEF Unique, Peers
<1> QED BY <1>1, <1>2, <1>4

(* An ID whose entries do not change, or whose remote ID and QP no other     *)
(* entry has, does not disturb the tables.                                   *)
LEMMA NewToTables ==
    ASSUME IInv, NEW i \in Ids, NEW z,
           \/ z.info = id[i].info
           \/ ~z.info.inId /\ ~z.info.inQp
           \/ SameRemote(i, z.info.remote) = {} /\ SameQp(i, z.info.remote) = {}
    PROVE  \A j \in Peers(i) :
              /\ z.info.inId /\ id[j].info.inId => z.info.remote # id[j].info.remote
              /\ z.info.inQp /\ id[j].info.inQp
                    => Qpn[z.info.remote] # Qpn[id[j].info.remote]
<1>0. Peers(i) \subseteq Ids
  BY DEF Peers, Ids
<1>1. CASE z.info = id[i].info
  BY <1>0, <1>1 DEF IInv, Unique
<1>2. CASE ~z.info.inId /\ ~z.info.inQp
  BY <1>2
<1>3. CASE SameRemote(i, z.info.remote) = {} /\ SameQp(i, z.info.remote) = {}
  BY <1>3 DEF SameRemote, SameQp
<1> QED BY <1>1, <1>2, <1>3

(* The steps of the handshake keep the invariant. *)
LEMMA HandshakeKeeps ==
    ASSUME IInv,
           \/ \E a \in Act : SendReq(a) \/ SendRtu(a)
           \/ \E p \in Pas : SendRep(p) \/ Establish(p)
           \/ \E a \in Act, p \in Pas : RecvReq(a, p) \/ RecvRep(p, a) \/ RecvRtu(a, p)
    PROVE  IInv'
<1>0. Act \subseteq Ids /\ Pas \subseteq Ids
  BY DEF Ids
<1>a. ASSUME NEW out, net' = net \cup out, NEW k \in Ids, NEW z, z.life = "live",
             id'[k] = z, \A j \in Ids \ {k} : id'[j] = id[j],
             k \in Act =>
                /\ z.state \notin Called \cup Answering
                /\ z.state \in Answered => z.remote \in Pas /\ Msg("REP", z.remote, k) \in net',
             k \in Pas =>
                /\ z.state \notin Calling \cup Answered
                /\ z.state \in Called \cup Answering =>
                      z.remote \in Act /\ id[z.remote].life # "none"
                /\ z.state \in Answering => Msg("REP", k, z.remote) \in net',
             \A b \in Act : Msg("REQ", b, NoId) \in out => b = k
      PROVE  Roles'
  <2>1. \A j \in Ids : id[j].life # "none" => id'[j].life # "none"
    BY <1>a
  <2>2. ASSUME NEW b \in Act
        PROVE  /\ id'[b].state \notin Called \cup Answering
               /\ id'[b].state \in Answered =>
                     id'[b].remote \in Pas /\ Msg("REP", id'[b].remote, b) \in net'
               /\ Msg("REQ", b, NoId) \in net' => id'[b].life # "none"
    <3>1. CASE b = k
      BY <1>a, <3>1
    <3>2. CASE b # k
      <4>1. id'[b] = id[b]
        BY <1>0, <1>a, <3>2
      <4> QED BY <1>a, <3>2, <4>1 DEF IInv, Roles
    <3> QED BY <3>1, <3>2
  <2>3. ASSUME NEW q \in Pas
        PROVE  /\ id'[q].state \notin Calling \cup Answered
               /\ id'[q].state \in Called \cup Answering =>
                     id'[q].remote \in Act /\ id'[id'[q].remote].life # "none"
               /\ id'[q].state \in Answering => Msg("REP", q, id'[q].remote) \in net'
    <3>1. CASE q = k
      BY <1>0, <1>a, <2>1, <3>1
    <3>2. CASE q # k
      <4>1. id'[q] = id[q]
        BY <1>0, <1>a, <3>2
      <4> QED BY <1>0, <1>a, <2>1, <4>1 DEF IInv, Roles
    <3> QED BY <3>1, <3>2
  <2> QED BY <2>2, <2>3 DEF Roles
<1>b. ASSUME NEW k \in Ids, NEW z, NEW out, Joins(k, z, out),
             \/ z.info = id[k].info
             \/ ~z.info.inId /\ ~z.info.inQp
             \/ SameRemote(k, z.info.remote) = {} /\ SameQp(k, z.info.remote) = {}
      PROVE  /\ Roles' => IInv'
             /\ id'[k] = z /\ \A j \in Ids \ {k} : id'[j] = id[j]
             /\ net' = net \cup out /\ z.life = "live"
  BY <1>b, NewToTables, JoinsKeep DEF IInv
<1>c. Act \cap Pas = {}
  BY IbCmAssumption
<1>1. ASSUME NEW a \in Act, SendReq(a) PROVE IInv'
  <2>1. PICK z : /\ Joins(a, z, {Msg("REQ", a, NoId)})
                 /\ z.state = "REQ_SENT" /\ ~z.info.inId /\ ~z.info.inQp
    BY <1>1, ReqSent
  <2>2. /\ Roles' => IInv'
        /\ id'[a] = z /\ \A j \in Ids \ {a} : id'[j] = id[j]
        /\ net' = net \cup {Msg("REQ", a, NoId)} /\ z.life = "live"
    BY <1>0, <1>b, <2>1
  <2>3. z.state \notin Called \cup Answering \cup Answered
    BY <2>1 DEF Called, Answering, Answered
  <2>4. \A b \in Act : Msg("REQ", b, NoId) \in {Msg("REQ", a, NoId)} => b = a
    BY DEF Msg
  <2> QED BY <1>0, <1>a, <1>c, <2>2, <2>3, <2>4
<1>2. ASSUME NEW a \in Act, SendRtu(a) PROVE IInv'
  <2>1. PICK z : /\ Joins(a, z, {Msg("RTU", a, id[a].remote)})
                 /\ z.state = "ESTABLISHED" /\ z.info = id[a].info
    BY <1>2, RtuSent
  <2>2. /\ Roles' => IInv'
        /\ id'[a] = z /\ \A j \in Ids \ {a} : id'[j] = id[j]
        /\ net' = net \cup {Msg("RTU", a, id[a].remote)} /\ z.life = "live"
    BY <1>0, <1>b, <2>1
  <2>3. z.state \notin Called \cup Answering \cup Answered
    BY <2>1 DEF Called, Answering, Answered
  <2>4. \A b \in Act : Msg("REQ", b, NoId) \in {Msg("RTU", a, id[a].remote)} => b = a
    BY DEF Msg
  <2>5. Roles'
    BY <1>0, <1>a, <1>c, <2>2, <2>3, <2>4
  <2> QED BY <2>2, <2>5
<1>3. ASSUME NEW p \in Pas, SendRep(p) PROVE IInv'
  <2>1. PICK z : /\ Joins(p, z, {Msg("REP", p, id[p].remote)})
                 /\ z.state = "REP_SENT" /\ z.remote = id[p].remote /\ z.info = id[p].info
    BY <1>3, RepSent
  <2>2. /\ Roles' => IInv'
        /\ id'[p] = z /\ \A j \in Ids \ {p} : id'[j] = id[j]
        /\ net' = net \cup {Msg("REP", p, id[p].remote)} /\ z.life = "live"
    BY <1>0, <1>b, <2>1
  <2>3. z.state \notin Calling \cup Answered
    BY <2>1 DEF Calling, Answered
  <2>4. id[p].remote \in Act /\ id[id[p].remote].life # "none"
    BY <1>3, RepSent DEF IInv, Roles
  <2>5. \A b \in Act : Msg("REQ", b, NoId) # Msg("REP", p, id[p].remote)
    BY DEF Msg
  <2> QED BY <1>0, <1>a, <1>c, <2>1, <2>2, <2>3, <2>4, <2>5
<1>4. ASSUME NEW p \in Pas, Establish(p) \/ \E a \in Act : RecvRtu(a, p) PROVE IInv'
  <2>1. PICK z : Joins(p, z, {}) /\ z.state = "ESTABLISHED" /\ z.info = id[p].info
    BY <1>4, RtuCame
  <2>2. /\ Roles' => IInv'
        /\ id'[p] = z /\ \A j \in Ids \ {p} : id'[j] = id[j]
        /\ net' = net \cup {} /\ z.life = "live"
    BY <1>0, <1>b, <2>1
  <2>3. z.state \notin Calling \cup Called \cup Answering \cup Answered
    BY <2>1 DEF Calling, Called, Answering, Answered
  <2>4. \A b \in Act : Msg("REQ", b, NoId) \in {} => b = p
    OBVIOUS
  <2>5. Roles'
    BY <1>0, <1>a, <1>c, <2>2, <2>3, <2>4
  <2> QED BY <2>2, <2>5
<1>5. ASSUME NEW a \in Act, NEW p \in Pas, RecvReq(a, p), ~Ordinary PROVE IInv'
  <2>1. PICK z : Joins(p, z, {}) /\ z.state = "REQ_RCVD" /\ z.remote = a /\ z.info.remote = a
    BY <1>5, ReqCame
  <2>2. SameRemote(p, a) = {} /\ SameQp(p, a) = {} /\ id[a].life # "none"
    BY <1>5, ReqCame
  <2>3. /\ Roles' => IInv'
        /\ id'[p] = z /\ \A j \in Ids \ {p} : id'[j] = id[j]
        /\ net' = net \cup {} /\ z.life = "live"
    BY <1>0, <1>b, <2>1, <2>2
  <2>4. z.state \notin Calling \cup Answering \cup Answered
    BY <2>1 DEF Calling, Answering, Answered
  <2> QED BY <1>0, <1>a, <1>c, <2>1, <2>2, <2>3, <2>4
<1>6. ASSUME NEW a \in Act, NEW p \in Pas, RecvRep(p, a), ~Ordinary PROVE IInv'
  <2>1. PICK z : Joins(a, z, {}) /\ z.state = "REP_RCVD" /\ z.remote = p /\ z.info.remote = p
    BY <1>6, RepCame
  <2>2. SameRemote(a, p) = {} /\ SameQp(a, p) = {} /\ Msg("REP", p, a) \in net
    BY <1>6, RepCame
  <2>3. /\ Roles' => IInv'
        /\ id'[a] = z /\ \A j \in Ids \ {a} : id'[j] = id[j]
        /\ net' = net \cup {} /\ z.life = "live"
    BY <1>0, <1>b, <2>1, <2>2
  <2>4. z.state \notin Calling \cup Answering \cup Called
    BY <2>1 DEF Calling, Answering, Called
  <2> QED BY <1>0, <1>a, <1>c, <2>1, <2>2, <2>3, <2>4
<1>7. CASE Ordinary
  BY <1>7, OrdinaryKeeps
<1> QED BY <1>1, <1>2, <1>3, <1>4, <1>5, <1>6, <1>7

(* Every step is ordinary or one of the handshake. *)
LEMMA StepKinds ==
    ASSUME IInv, Next
    PROVE  \/ Ordinary
           \/ \E a \in Act : SendReq(a) \/ SendRtu(a)
           \/ \E p \in Pas : SendRep(p) \/ Establish(p)
           \/ \E a \in Act, p \in Pas : RecvReq(a, p) \/ RecvRep(p, a) \/ RecvRtu(a, p)
<1>1. CASE \E i \in Ids : Client(i)
  BY <1>1, ClientOrdinary DEF Client
<1>2. CASE \E i \in Ids : Step(i)
  BY <1>2, StepOrdinary
<1>3. CASE Receive
  BY <1>3, ReceiveOrdinary DEF Receive
<1>4. CASE Crash
  BY <1>4, CrashOrdinary
<1> QED BY <1>1, <1>2, <1>3, <1>4 DEF Next

(* The IDs are good, the tables have each key once, and each side of a       *)
(* handshake is where its messages allow it to be.                           *)
THEOREM Invariance == Spec => []IInv
<1>1. Init => IInv
  <2> SUFFICES ASSUME Init PROVE IInv
    OBVIOUS
  <2>1. NewId.info.inId = FALSE /\ NewId.info.inQp = FALSE
    BY NewFields DEF NoInfo
  <2>2. Held(NewId) = 0
    BY NewFields, FS_EmptySet DEF Held
  <2>3. Good(NewId)
    BY <2>1, <2>2, NewFields DEF Good, Called, Calling
  <2>4. \A i \in Ids : id[i] = NewId
    BY DEF Init
  <2>5. id \in [Ids -> IdType] /\ \A i \in Ids : Good(id[i])
    BY <2>3, NewFields DEF Init
  <2>6. Unique
    BY <2>1, <2>4 DEF Unique
  <2>7. Roles
    BY <2>4, NewFields DEF Roles, Init, Called, Calling, Answering, Answered, Ids
  <2> QED BY <2>5, <2>6, <2>7 DEF IInv
<1>2. IInv /\ [Next]_vars => IInv'
  <2>1. ASSUME IInv, Next PROVE IInv'
    BY <2>1, StepKinds, OrdinaryKeeps, HandshakeKeeps
  <2>2. ASSUME IInv, UNCHANGED vars PROVE IInv'
    BY <2>2 DEF vars, IInv, Unique, Roles, Peers
  <2> QED BY <2>1, <2>2
<1> QED BY <1>1, <1>2, PTL DEF Spec

(* The tables of remote IDs and QPs name no ID that has ended, and no remote *)
(* ID or QP twice, whatever cm_enter_timewait(), cm_reset_to_idle() and      *)
(* cm_destroy_id() take out and in whatever order messages come.             *)
THEOREM TablesAlwaysClean == Spec => []TablesClean
<1>1. IInv => TablesClean
  BY DEF IInv, Good, Unique, TablesClean, Calling
<1> QED BY <1>1, Invariance, PTL

(* If no client destroys an ID while the callback for its failed send is due *)
(* (see the run cm_error for what happens otherwise), ib_destroy_cm_id()     *)
(* returns when no callback and no message of the ID is left.                *)
THEOREM FreedUnused ==
    ASSUME ~Racing
    PROVE  Spec => []NoUseAfterFree
<1>1. IInv => NoUseAfterFree
  BY DEF IInv, Good, NoUseAfterFree
<1> QED BY <1>1, Invariance, PTL
-----------------------------------------------------------------------------
(* The messages of a type, after a step that sends none of them. *)
LEMMA SentSame ==
    ASSUME NEW out, net' = net \cup out, NEW t, \A m \in out : m.type # t
    PROVE  Sent(t)' = Sent(t)
<1>1. {n \in net' : n.type = t} = {n \in net : n.type = t}
  OBVIOUS
<1> QED BY <1>1 DEF Sent

(* The messages of a type, after a step that sends one of them. *)
LEMMA SentOne ==
    ASSUME NEW t, NEW i, NEW j, net' = net \cup {Msg(t, i, j)}
    PROVE  Sent(t)' = Sent(t) \cup {<<i, j>>}
<1>1. PICK m : m = Msg(t, i, j)
  OBVIOUS
<1>2. m.type = t /\ m.src = i /\ m.dst = j
  BY <1>1 DEF Msg
<1>3. {n \in net' : n.type = t} = {n \in net : n.type = t} \cup {m}
  BY <1>1, <1>2
<1> QED BY <1>2, <1>3 DEF Sent

(* A message that is in net was sent. *)
LEMMA SentHas ==
    ASSUME NEW t, NEW i, NEW j, Msg(t, i, j) \in net
    PROVE  <<i, j>> \in Sent(t)
<1>1. PICK m \in net : m.type = t /\ m.src = i /\ m.dst = j
  BY DEF Msg
<1> QED BY <1>1 DEF Sent

(* The phase of an ID is a matter of its struct. *)
LEMMA PhaseIs == \A i \in Ids : Phase(i) = PhaseOf(id[i]) /\ Phase(i)' = PhaseOf(id'[i])
BY DEF Phase, PhaseOf, Called, Calling, Answered, Answering

(* A step that no handshake advances by ends the connections of some IDs. *)
LEMMA OrdinaryRefines ==
    ASSUME IInv, Ordinary
    PROVE  Service!Next
<1>1. PICK S : S = {i \in Ids : PhaseOf(id'[i]) # PhaseOf(id[i])}
  OBVIOUS
<1>2. S \in SUBSET (Act \cup Pas)
  BY <1>1 DEF Ids
<1>3. \A i \in Ids : Phase(i)' = IF i \in S THEN "closed" ELSE Phase(i)
  BY <1>1, PhaseIs DEF Ordinary, Moves
<1>4. Sent("REP")' = Sent("REP") /\ Sent("RTU")' = Sent("RTU")
  <2>1. PICK out : net' = net \cup out /\ Idle(out)
    BY DEF Ordinary
  <2>2. \A m \in out : m.type # "REP" /\ m.type # "RTU"
    BY <2>1 DEF Idle
  <2> QED BY <2>1, <2>2, SentSame
<1>5. Service!Close(S)
  BY <1>3, <1>4 DEF Service!Close, Ids
<1> QED BY <1>2, <1>5 DEF Service!Next

(* A step of the handshake changes the phase of one ID. *)
LEMMA JoinsPhase ==
    ASSUME IInv, NEW k \in Ids, NEW z, NEW out, Joins(k, z, out)
    PROVE  [i \in Ids |-> Phase(i)]' = [[i \in Ids |-> Phase(i)] EXCEPT ![k] = PhaseOf(z)]
<1>1. \A i \in Ids : Phase(i)' = IF i = k THEN PhaseOf(z) ELSE Phase(i)
  BY PhaseIs DEF Joins, IInv
<1> QED BY <1>1

(* A step of the handshake is a step of a connection. *)
LEMMA HandshakeRefines ==
    ASSUME IInv,
           \/ \E a \in Act : SendReq(a) \/ SendRtu(a)
           \/ \E p \in Pas : SendRep(p) \/ Establish(p)
           \/ \E a \in Act, p \in Pas : RecvReq(a, p) \/ RecvRep(p, a) \/ RecvRtu(a, p)
    PROVE  [Service!Next]_Service!vars
<1>0. Act \subseteq Ids /\ Pas \subseteq Ids
  BY DEF Ids
<1> DEFINE P == [i \in Ids |-> Phase(i)]
<1>a. ASSUME NEW a \in Act, id[a].life = "live", id[a].state \in Calling \cup Answered
      PROVE  P[a] = "asking"
  BY <1>0, <1>a, PhaseIs DEF PhaseOf, Called, Calling, Answered
<1>b. ASSUME NEW z, z.life = "live"
      PROVE  /\ z.state \in {"REQ_SENT", "REP_SENT", "REP_RCVD"} => PhaseOf(z) = "asking"
             /\ z.state = "ESTABLISHED" => PhaseOf(z) = "up"
             /\ z.state = "REQ_RCVD" => PhaseOf(z) = "none"
  BY <1>b DEF PhaseOf, Called, Calling, Answered, Answering
<1>c. ASSUME net' = net PROVE Sent("REP")' = Sent("REP") /\ Sent("RTU")' = Sent("RTU")
  BY <1>c DEF Sent
<1>d. ASSUME NEW k \in Ids, NEW z, NEW out, Joins(k, z, out), NEW ph, PhaseOf(z) = ph
      PROVE  P' = [P EXCEPT ![k] = ph] /\ (P[k] = ph => P' = P)
  <2>1. P' = [P EXCEPT ![k] = ph]
    BY <1>d, JoinsPhase
  <2> QED BY <2>1
<1>f. ASSUME NEW x,
             \/ x.life = "none" /\ x.state = "IDLE"
             \/ x.life = "live" /\ x.state \in Called
      PROVE  PhaseOf(x) = "none"
  <2>1. CASE x.life = "none" /\ x.state = "IDLE"
    BY <2>1 DEF PhaseOf, Called, Calling, Answered, Answering
  <2>2. CASE x.life = "live" /\ x.state \in Called
    BY <2>2 DEF PhaseOf, Called, Calling, Answered, Answering
  <2> QED BY <1>f, <2>1, <2>2
<1>e. \A i \in Ids : P[i] = PhaseOf(id[i])
  BY PhaseIs
<1> HIDE DEF P
<1>1. ASSUME NEW a \in Act, SendReq(a) PROVE Service!Next
  <2>1. PICK z : Joins(a, z, {Msg("REQ", a, NoId)}) /\ z.state = "REQ_SENT"
    BY <1>1, ReqSent
  <2>2. P' = [P EXCEPT ![a] = "asking"]
    <3>1. PhaseOf(z) = "asking"
      BY <1>b, <2>1 DEF Joins
    <3> QED BY <1>0, <1>d, <2>1, <3>1
  <2>3. P[a] = "none"
    <3>1. id[a].life = "none" /\ id[a].state = "IDLE"
      BY <1>0, <1>1 DEF SendReq, IInv, Good
    <3> QED BY <1>0, <1>e, <1>f, <3>1
  <2>4. Sent("REP")' = Sent("REP") /\ Sent("RTU")' = Sent("RTU")
    <3>0. PICK out : out = {Msg("REQ", a, NoId)}
      OBVIOUS
    <3>1. \A m \in out : m.type # "REP" /\ m.type # "RTU"
      BY <3>0 DEF Msg
    <3>2. net' = net \cup out
      BY <2>1, <3>0 DEF Joins
    <3>3. Sent("REP")' = Sent("REP")
      BY <3>1, <3>2, SentSame
    <3>4. Sent("RTU")' = Sent("RTU")
      BY <3>1, <3>2, SentSame
    <3> QED BY <3>3, <3>4
  <2>5. Service!Ask(a)
    BY <2>2, <2>3, <2>4 DEF Service!Ask, P
  <2> QED BY <2>5 DEF Service!Next
<1>2. ASSUME NEW a \in Act, SendRtu(a) PROVE Service!Next
  <2>1. PICK z : Joins(a, z, {Msg("RTU", a, id[a].remote)}) /\ z.state = "ESTABLISHED"
    BY <1>2, RtuSent
  <2>2. P' = [P EXCEPT ![a] = "up"]
    <3>1. PhaseOf(z) = "up"
      BY <1>b, <2>1 DEF Joins
    <3> QED BY <1>0, <1>d, <2>1, <3>1
  <2>3. P[a] = "asking"
    BY <1>2, <1>a, RtuSent
  <2>4. PICK p \in Pas : p = id[a].remote /\ Msg("REP", p, a) \in net
    BY <1>2, RtuSent DEF IInv, Roles
  <2>5. <<p, a>> \in Sent("REP")
    BY <2>4, SentHas
  <2>6. Sent("REP")' = Sent("REP") /\ Sent("RTU")' = Sent("RTU") \cup {<<a, p>>}
    <3>0. PICK out : out = {Msg("RTU", a, p)}
      OBVIOUS
    <3>1. \A m \in out : m.type # "REP"
      BY <3>0 DEF Msg
    <3>2. net' = net \cup out
      BY <2>1, <2>4, <3>0 DEF Joins
    <3>3. Sent("REP")' = Sent("REP")
      BY <3>1, <3>2, SentSame
    <3>4. Sent("RTU")' = Sent("RTU") \cup {<<a, p>>}
      BY <3>0, <3>2, SentOne
    <3> QED BY <3>3, <3>4
  <2>7. Service!Confirm(a, p)
    BY <2>2, <2>3, <2>5, <2>6 DEF Service!Confirm, P
  <2> QED BY <2>7 DEF Service!Next
<1>3. ASSUME NEW p \in Pas, SendRep(p) PROVE Service!Next
  <2>1. PICK z : Joins(p, z, {Msg("REP", p, id[p].remote)}) /\ z.state = "REP_SENT"
    BY <1>3, RepSent
  <2>2. P' = [P EXCEPT ![p] = "asking"]
    <3>1. PhaseOf(z) = "asking"
      BY <1>b, <2>1 DEF Joins
    <3> QED BY <1>0, <1>d, <2>1, <3>1
  <2>3. P[p] = "none"
    <3>1. id[p].life = "live" /\ id[p].state \in Called
      BY <1>3, RepSent
    <3> QED BY <1>0, <1>e, <1>f, <3>1
  <2>4. PICK a \in Act : a = id[p].remote /\ id[a].life # "none"
    BY <1>3, RepSent DEF IInv, Roles
  <2>5. P[a] # "none"
    <3>1. a \in Ids /\ id[a].life \in Lives /\ id[a].state \notin Called
      BY <1>0 DEF IInv, IdType, Roles
    <3>2. PhaseOf(id[a]) # "none"
      BY <2>4, <3>1 DEF PhaseOf
    <3> QED BY <1>e, <3>1, <3>2
  <2>6. Sent("RTU")' = Sent("RTU") /\ Sent("REP")' = Sent("REP") \cup {<<p, a>>}
    <3>0. PICK out : out = {Msg("REP", p, a)}
      OBVIOUS
    <3>1. \A m \in out : m.type # "RTU"
      BY <3>0 DEF Msg
    <3>2. net' = net \cup out
      BY <2>1, <2>4, <3>0 DEF Joins
    <3>3. Sent("RTU")' = Sent("RTU")
      BY <3>1, <3>2, SentSame
    <3>4. Sent("REP")' = Sent("REP") \cup {<<p, a>>}
      BY <3>0, <3>2, SentOne
    <3> QED BY <3>3, <3>4
  <2>7. Service!Accept(p, a)
    BY <2>2, <2>3, <2>5, <2>6 DEF Service!Accept, P
  <2> QED BY <2>7 DEF Service!Next
<1>4. ASSUME NEW p \in Pas, Establish(p) \/ \E a \in Act : RecvRtu(a, p) PROVE Service!Next
  <2>1. PICK z : Joins(p, z, {}) /\ z.state = "ESTABLISHED"
    BY <1>4, RtuCame
  <2>2. P' = [P EXCEPT ![p] = "up"]
    <3>1. PhaseOf(z) = "up"
      BY <1>b, <2>1 DEF Joins
    <3> QED BY <1>0, <1>d, <2>1, <3>1
  <2>3. id[p].life = "live" /\ id[p].state \in Answering /\ Msg("RTU", id[p].remote, p) \in net
    BY <1>4, RtuCame
  <2>4. P[p] = "asking"
    BY <1>0, <1>e, <2>3 DEF PhaseOf, Called, Answering
  <2>5. PICK a \in Act : a = id[p].remote /\ Msg("REP", p, a) \in net
    BY <2>3 DEF IInv, Roles
  <2>6. <<p, a>> \in Sent("REP") /\ <<a, p>> \in Sent("RTU")
    BY <2>3, <2>5, SentHas
  <2>7. Sent("REP")' = Sent("REP") /\ Sent("RTU")' = Sent("RTU")
    BY <1>c, <2>1 DEF Joins
  <2>8. Service!Establish(p, a)
    BY <2>2, <2>4, <2>6, <2>7 DEF Service!Establish, P
  <2> QED BY <2>8 DEF Service!Next
<1>5. ASSUME NEW a \in Act, NEW p \in Pas, RecvReq(a, p), ~Ordinary
      PROVE  UNCHANGED Service!vars
  <2>1. PICK z : Joins(p, z, {}) /\ z.state = "REQ_RCVD"
    BY <1>5, ReqCame
  <2>2. PhaseOf(z) = "none"
    BY <1>b, <2>1 DEF Joins
  <2>3. P[p] = "none"
    <3>1. id[p].life = "none" /\ id[p].state = "IDLE"
      BY <1>0, <1>5, ReqCame DEF IInv, Good
    <3> QED BY <1>0, <1>e, <1>f, <3>1
  <2>4. P' = P
    BY <1>0, <1>d, <2>1, <2>2, <2>3
  <2>5. Sent("REP")' = Sent("REP") /\ Sent("RTU")' = Sent("RTU")
    BY <1>c, <2>1 DEF Joins
  <2> QED BY <2>4, <2>5 DEF Service!vars, P
<1>6. ASSUME NEW a \in Act, NEW p \in Pas, RecvRep(p, a), ~Ordinary
      PROVE  UNCHANGED Service!vars
  <2>1. PICK z : Joins(a, z, {}) /\ z.state = "REP_RCVD"
    BY <1>6, RepCame
  <2>2. PhaseOf(z) = "asking"
    BY <1>b, <2>1 DEF Joins
  <2>3. P[a] = "asking"
    BY <1>6, <1>a, RepCame
  <2>4. P' = P
    BY <1>0, <1>d, <2>1, <2>2, <2>3
  <2>5. Sent("REP")' = Sent("REP") /\ Sent("RTU")' = Sent("RTU")
    BY <1>c, <2>1 DEF Joins
  <2> QED BY <2>4, <2>5 DEF Service!vars, P
<1>7. CASE Ordinary
  BY <1>7, OrdinaryRefines
<1> QED BY <1>1, <1>2, <1>3, <1>4, <1>5, <1>6, <1>7

(* The connection manager keeps the promises of CmConnection for any number  *)
(* of IDs, however messages are lost, repeated and delayed, and even if a    *)
(* host restarts: no ID is connected to two others, none to one that did not *)
(* accept or confirm it, and no late REP or RTU brings a connection back     *)
(* (cm_rep_handler(), cm_rtu_handler()).                                     *)
THEOREM Refinement == Spec => Implements
<1>1. Init => Service!Init
  <2> SUFFICES ASSUME Init PROVE Service!Init
    OBVIOUS
  <2>1. \A i \in Ids : Phase(i) = "none"
    BY NewFields DEF Init, Phase
  <2>2. Sent("REP") = {} /\ Sent("RTU") = {}
    BY DEF Init, Sent
  <2> QED BY <2>1, <2>2 DEF Service!Init, Ids
<1>2. IInv /\ [Next]_vars => [Service!Next]_Service!vars
  <2>1. ASSUME IInv, Next PROVE [Service!Next]_Service!vars
    BY <2>1, StepKinds, OrdinaryRefines, HandshakeRefines
  <2>2. ASSUME UNCHANGED vars PROVE UNCHANGED Service!vars
    BY <2>2 DEF vars, Service!vars, Phase, Sent
  <2> QED BY <2>1, <2>2
<1> QED BY <1>1, <1>2, Invariance, PTL DEF Spec, Service!Spec, Implements
=============================================================================
