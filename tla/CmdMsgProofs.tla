---------------------------- MODULE CmdMsgProofs ----------------------------
(***************************************************************************)
(* Proofs about the messages of the command interface: for any number of   *)
(* commands, caches and writers of num_ent, every message is in one place, *)
(* the counters of the caches balance, a chain always holds the inbox that *)
(* is copied into it, and the firmware takes no foreign bytes before the   *)
(* tokens come round.                                                      *)
(***************************************************************************)
EXTENDS CmdMsg, TLAPS, FiniteSetTheorems, SequenceTheorems

CmdPcs == {"idle", "cache", "miss", "done"} \cup Holding
StorePcs == {"idle", "alloc", "add", "done"}

Types ==
    /\ list \in [Caches -> Seq(Msgs)]  /\ free \in [Caches -> Int]
    /\ num_ent \in [Caches -> Int]     /\ missing \in [Caches -> Int]
    /\ live \subseteq Msgs             /\ parent \in [Msgs -> Caches \cup {0}]
    /\ blk \in [Msgs -> Seq(Cmds \cup {NoCmd})]
    /\ pc \in [Cmds -> CmdPcs]         /\ idx \in [Cmds -> Nat]
    /\ size \in [Cmds -> Nat]          /\ inb \in [Cmds -> Msgs \cup {NoMsg}]
    /\ outb \in [Cmds -> BOOLEAN]      /\ fw \subseteq Cmds
    /\ read \in [Cmds -> {"none", "own", "foreign", "TOK_ERR"}]
    /\ wpc \in [Writers -> StorePcs]   /\ cache \in [Writers -> Nat]
    /\ removed \in [Writers -> SUBSET Msgs]
    /\ add \in [Writers -> Nat]        /\ added \in [Writers -> Seq(Msgs)]
    /\ up \in BOOLEAN

(* The lists of the caches.                                                *)
Lists ==
    \A k \in Caches :
        /\ free[k] = Len(list[k])  /\ IsInjective(list[k])
        /\ \A m \in Range(list[k]) : m \in live /\ parent[m] = k

(* The messages of commands.                                               *)
Holders ==
    \A c \in Cmds : pc[c] \in Holding =>
        /\ inb[c] \in live
        /\ \A k \in Caches : inb[c] \notin Range(list[k])
        /\ \A w \in Writers : inb[c] \notin removed[w] \cup Range(added[w])
        /\ \A d \in Cmds : pc[d] \in Holding /\ inb[d] = inb[c] => d = c

(* The messages in the hands of num_ent_store().                           *)
Stores ==
    \A w \in Writers :
        /\ removed[w] # {} => wpc[w] = "alloc"
        /\ added[w] # << >> => wpc[w] = "add"
        /\ wpc[w] \in {"alloc", "add"} => cache[w] \in Caches
        /\ IsInjective(added[w])
        /\ \A m \in removed[w] :
               /\ m \in live /\ parent[m] = cache[w]
               /\ \A k \in Caches : m \notin Range(list[k])
               /\ \A v \in Writers : m \in removed[v] => v = w
        /\ \A m \in Range(added[w]) :
               /\ m \in live /\ parent[m] = 0
               /\ \A v \in Writers : m \in Range(added[v]) => v = w

(* No message is lost.                                                     *)
Covered ==
    \A m \in live : \/ \E k \in Caches : m \in Range(list[k])
                    \/ \E c \in Cmds : Holds(c, m)
                    \/ \E w \in Writers : m \in removed[w] \cup Range(added[w])

(* The chain of a message is as long as its cache says, or as its command  *)
(* needs.                                                                  *)
Sizes ==
    /\ \A m \in live : parent[m] # 0 =>
           Len(blk[m]) = mlx5_calc_cmd_blocks(max_inbox_size(parent[m]))
    /\ \A w \in Writers : \A m \in Range(added[w]) :
           Len(blk[m]) = mlx5_calc_cmd_blocks(max_inbox_size(cache[w]))
    /\ \A c \in Cmds : pc[c] \in Holding => Fits(c)

(* Tokens are given out in turn: a token comes back after all the others.  *)
Numbered ==
    /\ token \in 0 .. Tokens - 1  /\ calls \in Nat
    /\ tok \in [Cmds -> 0 .. Tokens - 1]  /\ nth \in [Cmds -> Nat]
    /\ \A c \in Cmds :
           /\ nth[c] <= calls
           /\ nth[c] # 0 => tok[c] # 0
           /\ nth[c] # 0 /\ calls - nth[c] < Tokens - 1 =>
                  \/ token = tok[c] + (calls - nth[c])
                  \/ token = tok[c] + (calls - nth[c]) - (Tokens - 1)
           /\ pc[c] \in {"idle", "cache", "miss", "token"} => nth[c] = 0
           /\ pc[c] \in {"copy", "invoke", "wait"} \/ c \in fw => nth[c] # 0
    /\ \A c, d \in Cmds :
           nth[c] # 0 /\ nth[d] > nth[c] /\ tok[d] = tok[c] =>
               nth[d] >= nth[c] + (Tokens - 1)

(* What the firmware will read.                                            *)
Sent ==
    /\ \A c \in Cmds : pc[c] \in {"invoke", "wait"} =>
           \A i \in 1 .. Filled(size[c]) :
               i \in DOMAIN blk[inb[c]] /\ blk[inb[c]][i] = c
    /\ \A c \in fw : /\ pc[c] \in {"wait", "out_out", "out_in", "done"}
                     /\ Timeouts \/ pc[c] = "wait"
                     /\ inb[c] \in Msgs

(* A command's message only goes to commands that take their token later,  *)
(* and only they write to its mailboxes.                                   *)
Overwritten ==
    /\ \A c \in fw, d \in Cmds :
           d # c /\ pc[d] \in Holding \ {"token"} /\ inb[d] = inb[c] => nth[d] > nth[c]
    /\ \A c \in fw : \A i \in 1 .. Filled(size[c]) :
           i \in DOMAIN blk[inb[c]] =>
               blk[inb[c]][i] \in {c, NoCmd} \/ nth[blk[inb[c]][i]] > nth[c]

(* What the firmware has read.                                             *)
Reads ==
    \A c \in Cmds :
        /\ read[c] # "none" => pc[c] \in {"wait", "out_out", "out_in", "done"}
        /\ read[c] \in {"TOK_ERR", "foreign"} => Timeouts
        /\ read[c] = "foreign" => \E d \in Cmds : nth[d] >= nth[c] + (Tokens - 1)

(* After mlx5_cmd_disable() nothing moves.                                 *)
Down ==
    ~up => /\ \A c \in Cmds : pc[c] \in {"done", "lost"}
           /\ \A w \in Writers : wpc[w] = "done"

Inv == /\ Types /\ IsFiniteSet(live) /\ Lists /\ Holders /\ Stores /\ Covered
       /\ Accounts /\ Sizes /\ Numbered /\ Sent /\ Overwritten /\ Reads /\ Down /\ AllFreed

-----------------------------------------------------------------------------
(* Sequences without repetition.                                           *)

(* list_add_tail() of a message that is not in the list.                   *)
LEMMA Appended ==
    ASSUME NEW S, NEW s \in Seq(S), NEW x \in S, IsInjective(s), x \notin Range(s)
    PROVE  /\ Append(s, x) \in Seq(S)  /\ Len(Append(s, x)) = Len(s) + 1
           /\ IsInjective(Append(s, x))
           /\ Range(Append(s, x)) = Range(s) \cup {x}
<1>1. /\ Append(s, x) \in Seq(S)  /\ Len(Append(s, x)) = Len(s) + 1
      /\ DOMAIN s = 1 .. Len(s)  /\ DOMAIN Append(s, x) = 1 .. Len(s) + 1
      /\ \A i \in 1 .. Len(s) : Append(s, x)[i] = s[i]
      /\ Append(s, x)[Len(s) + 1] = x  /\ Len(s) \in Nat
  OBVIOUS
<1>2. IsInjective(Append(s, x))
  BY <1>1 DEF IsInjective, Range
<1>3. Range(Append(s, x)) = Range(s) \cup {x}
  BY <1>1 DEF Range
<1> QED BY <1>1, <1>2, <1>3

(* The first entry is taken off.                                           *)
LEMMA Taken ==
    ASSUME NEW S, NEW s \in Seq(S), IsInjective(s), s # << >>
    PROVE  /\ Tail(s) \in Seq(S)  /\ Len(Tail(s)) = Len(s) - 1
           /\ IsInjective(Tail(s))
           /\ Head(s) \in Range(s) /\ Head(s) \in S
           /\ Range(Tail(s)) = Range(s) \ {Head(s)}
<1>1. /\ Tail(s) \in Seq(S)  /\ Len(Tail(s)) = Len(s) - 1 /\ Len(s) \in Nat
      /\ Len(s) > 0 /\ DOMAIN s = 1 .. Len(s)  /\ DOMAIN Tail(s) = 1 .. Len(s) - 1
      /\ \A i \in 1 .. Len(s) - 1 : Tail(s)[i] = s[i + 1]
      /\ Head(s) = s[1]
  OBVIOUS
<1>2. IsInjective(Tail(s))
  BY <1>1 DEF IsInjective
<1>3. Head(s) \in Range(s) /\ Head(s) \in S
  BY <1>1 DEF Range
<1>4. Range(Tail(s)) = Range(s) \ {Head(s)}
  <2>1. ASSUME NEW x \in Range(Tail(s)) PROVE x \in Range(s) \ {Head(s)}
    BY <1>1, <2>1 DEF Range, IsInjective
  <2>2. ASSUME NEW x \in Range(s) \ {Head(s)} PROVE x \in Range(Tail(s))
    <3>1. PICK i \in 1 .. Len(s) : s[i] = x
      BY <1>1 DEF Range
    <3>2. i - 1 \in 1 .. Len(s) - 1 /\ Tail(s)[i - 1] = x
      BY <1>1, <3>1
    <3> QED BY <1>1, <3>2 DEF Range
  <2> QED BY <2>1, <2>2
<1> QED BY <1>1, <1>2, <1>3, <1>4

(* The first r entries are taken off.                                      *)
LEMMA Cut ==
    ASSUME NEW S, NEW s \in Seq(S), IsInjective(s), NEW r \in 0 .. Len(s)
    PROVE  LET a == SubSeq(s, 1, r)  b == SubSeq(s, r + 1, Len(s))
           IN  /\ a \in Seq(S) /\ b \in Seq(S) /\ Len(a) = r /\ Len(b) = Len(s) - r
               /\ IsInjective(a) /\ IsInjective(b)
               /\ Range(a) \subseteq Range(s) /\ Range(b) = Range(s) \ Range(a)
<1> DEFINE a == SubSeq(s, 1, r)  b == SubSeq(s, r + 1, Len(s))
<1>1. /\ a \in Seq(S) /\ b \in Seq(S) /\ Len(a) = r /\ Len(b) = Len(s) - r
      /\ DOMAIN s = 1 .. Len(s) /\ DOMAIN a = 1 .. r /\ DOMAIN b = 1 .. Len(s) - r
      /\ \A i \in 1 .. r : a[i] = s[i]
      /\ \A i \in 1 .. Len(s) - r : b[i] = s[r + i]
      /\ Len(s) \in Nat /\ r \in Nat /\ r <= Len(s)
  OBVIOUS
<1> HIDE DEF a, b
<1>i. \A i, j \in 1 .. Len(s) : s[i] = s[j] => i = j
  BY <1>1 DEF IsInjective
<1>2. IsInjective(a) /\ IsInjective(b)
  <2>1. IsInjective(a)
    BY <1>1, <1>i DEF IsInjective
  <2>2. ASSUME NEW i \in 1 .. Len(s) - r, NEW j \in 1 .. Len(s) - r, b[i] = b[j]
        PROVE  i = j
    <3>1. r + i \in 1 .. Len(s) /\ r + j \in 1 .. Len(s) /\ s[r + i] = s[r + j]
      BY <1>1, <2>2
    <3>2. r + i = r + j
      BY <1>i, <3>1
    <3> QED BY <1>1, <3>2
  <2> QED BY <1>1, <2>1, <2>2 DEF IsInjective
<1>3. Range(a) \subseteq Range(s)
  BY <1>1 DEF Range
<1>4. Range(b) = Range(s) \ Range(a)
  <2>1. ASSUME NEW x \in Range(b) PROVE x \in Range(s) \ Range(a)
    <3>1. PICK i \in 1 .. Len(s) - r : b[i] = x
      BY <1>1 DEF Range
    <3>2. r + i \in 1 .. Len(s) /\ s[r + i] = x /\ r + i > r
      BY <1>1, <3>1
    <3>3. ASSUME NEW j \in 1 .. r PROVE a[j] # x
      <4>1. j \in 1 .. Len(s) /\ j # r + i /\ a[j] = s[j]
        BY <1>1, <3>2
      <4> QED BY <1>i, <3>2, <4>1
    <3> QED BY <1>1, <3>2, <3>3 DEF Range
  <2>2. ASSUME NEW x \in Range(s) \ Range(a) PROVE x \in Range(b)
    <3>1. PICK i \in 1 .. Len(s) : s[i] = x
      BY <1>1 DEF Range
    <3>2. i > r
      BY <1>1, <3>1 DEF Range
    <3>3. i - r \in 1 .. Len(s) - r /\ b[i - r] = x
      BY <1>1, <3>1, <3>2
    <3> QED BY <1>1, <3>3 DEF Range
  <2> QED BY <2>1, <2>2
<1> QED BY <1>1, <1>2, <1>3, <1>4 DEF a, b

(* Entries are added at the end, the last one first.                       *)
LEMMA Joined ==
    ASSUME NEW S, NEW s \in Seq(S), NEW t \in Seq(S), IsInjective(s), IsInjective(t),
           Range(s) \cap Range(t) = {}
    PROVE  LET u == s \o Reverse(t)
           IN  /\ u \in Seq(S) /\ Len(u) = Len(s) + Len(t) /\ IsInjective(u)
               /\ Range(u) = Range(s) \cup Range(t)
<1> DEFINE v == Reverse(t)  u == s \o v  n == Len(s)  k == Len(t)
<1>0. n \in Nat /\ k \in Nat /\ DOMAIN s = 1 .. n /\ DOMAIN t = 1 .. k
  OBVIOUS
<1>1. /\ v \in Seq(S) /\ Len(v) = k /\ DOMAIN v = 1 .. k
      /\ \A i \in 1 .. k : v[i] = t[k - i + 1]
  <2>1. v = [i \in 1 .. k |-> t[(k - i) + 1]]
    BY DEF Reverse
  <2>2. \A i \in 1 .. k : t[(k - i) + 1] \in S
    BY <1>0
  <2> QED BY <1>0, <2>1, <2>2
<1>2. /\ u \in Seq(S) /\ Len(u) = n + k /\ DOMAIN u = 1 .. n + k
      /\ \A i \in 1 .. n : u[i] = s[i]
      /\ \A i \in 1 .. k : u[n + i] = v[i]
  BY <1>0, <1>1
<1>3. \A i \in n + 1 .. n + k : u[i] = t[n + k - i + 1] /\ n + k - i + 1 \in 1 .. k
  <2> TAKE i \in n + 1 .. n + k
  <2>1. i - n \in 1 .. k /\ n + (i - n) = i
    BY <1>0
  <2>2. u[i] = v[i - n]
    BY <1>2, <2>1
  <2>3. k - (i - n) + 1 = n + k - i + 1
    BY <1>0
  <2> QED BY <1>0, <1>1, <2>1, <2>2, <2>3
<1> HIDE DEF u, v, n, k
<1>4. \A i \in 1 .. n, j \in 1 .. k : s[i] # t[j]
  BY <1>0 DEF Range
<1>5. IsInjective(u)
  <2> SUFFICES ASSUME NEW i \in 1 .. n + k, NEW j \in 1 .. n + k, u[i] = u[j]
               PROVE  i = j
    BY <1>2 DEF IsInjective
  <2>1. CASE i <= n /\ j <= n
    <3>1. i \in 1 .. n /\ j \in 1 .. n
      BY <1>0, <2>1
    <3>2. s[i] = s[j]
      BY <1>2, <3>1
    <3> QED BY <1>0, <3>1, <3>2 DEF IsInjective
  <2>2. CASE i > n /\ j > n
    <3>1. n + k - i + 1 = n + k - j + 1
      BY <1>0, <1>3, <2>2 DEF IsInjective
    <3> QED BY <1>0, <3>1
  <2>3. CASE i <= n /\ j > n
    BY <1>0, <1>2, <1>3, <1>4, <2>3
  <2>4. CASE i > n /\ j <= n
    BY <1>0, <1>2, <1>3, <1>4, <2>4
  <2> QED BY <1>0, <2>1, <2>2, <2>3, <2>4
<1>6. Range(u) = Range(s) \cup Range(t)
  <2>1. ASSUME NEW x \in Range(u) PROVE x \in Range(s) \cup Range(t)
    <3>1. PICK i \in 1 .. n + k : u[i] = x
      BY <1>2 DEF Range
    <3>2. CASE i <= n
      <4>1. i \in DOMAIN s /\ s[i] = x
        BY <1>0, <1>2, <3>1, <3>2
      <4> QED BY <4>1 DEF Range
    <3>3. CASE i > n
      <4>1. n + k - i + 1 \in DOMAIN t /\ t[n + k - i + 1] = x
        BY <1>0, <1>3, <3>1, <3>3
      <4> QED BY <4>1 DEF Range
    <3> QED BY <1>0, <3>2, <3>3
  <2>2. ASSUME NEW x \in Range(s) PROVE x \in Range(u)
    <3>1. PICK i \in 1 .. n : s[i] = x
      BY <1>0 DEF Range
    <3> QED BY <1>0, <1>2, <3>1 DEF Range
  <2>3. ASSUME NEW x \in Range(t) PROVE x \in Range(u)
    <3>1. PICK j \in 1 .. k : t[j] = x
      BY <1>0 DEF Range
    <3>2. n + k - j + 1 \in n + 1 .. n + k /\ n + k - (n + k - j + 1) + 1 = j
      BY <1>0
    <3>3. u[n + k - j + 1] = x
      BY <1>3, <3>1, <3>2
    <3>4. n + k - j + 1 \in 1 .. n + k
      BY <1>0, <3>2
    <3> QED BY <1>2, <3>3, <3>4 DEF Range
  <2> QED BY <2>1, <2>2, <2>3
<1> QED BY <1>2, <1>5, <1>6 DEF u, v, n, k

(* A sequence without repetition has as many elements as entries.          *)
LEMMA Counted ==
    ASSUME NEW S, NEW s \in Seq(S), IsInjective(s)
    PROVE  IsFiniteSet(Range(s)) /\ Cardinality(Range(s)) = Len(s)
<1>1. Len(s) \in Nat /\ DOMAIN s = 1 .. Len(s)
  OBVIOUS
<1>2. IsFiniteSet(1 .. Len(s)) /\ Cardinality(1 .. Len(s)) = Len(s)
  <2>1. Cardinality(1 .. Len(s)) = IF 1 > Len(s) THEN 0 ELSE Len(s) - 1 + 1
    BY <1>1, FS_Interval, SMTT(30)
  <2> QED BY <1>1, <2>1, FS_Interval, SMTT(30)
<1>3. s \in [1 .. Len(s) -> Range(s)]
  BY <1>1 DEF Range
<1>4. s \in Bijection(1 .. Len(s), Range(s))
  BY <1>1, <1>3 DEF Bijection, Injection, Surjection, IsInjective, Range
<1>5. ExistsBijection(1 .. Len(s), Range(s))
  BY <1>4 DEF ExistsBijection
<1> QED BY <1>2, <1>5, FS_Bijection

-----------------------------------------------------------------------------
(* Sizes.                                                                  *)

(* mlx5_calc_cmd_blocks() rounds up.                                       *)
LEMMA BlocksEnough ==
    ASSUME NEW len \in Nat
    PROVE  LET b == mlx5_calc_cmd_blocks(len)
           IN  /\ b \in Nat /\ First + b * Block >= len
               /\ b > 0 => First + (b - 1) * Block < len
               /\ b <= len
<1> DEFINE x == IF len > First THEN len - First ELSE 0
           b == mlx5_calc_cmd_blocks(len)
<1>0. First \in Nat /\ Block \in Nat /\ Block > 0 /\ x \in Nat
  BY SizeAssumption
<1>1. b = (x + Block - 1) \div Block
  BY DEF mlx5_calc_cmd_blocks
<1>2. b \in Int /\ Block * b <= x + Block - 1 /\ x + Block - 1 < Block * b + Block
  BY <1>0, <1>1
<1>3. b >= 0
  <2>1. SUFFICES ASSUME b <= -1 PROVE FALSE
    BY <1>2
  <2>2. Block * b <= Block * (-1)
    BY <1>0, <1>2, <2>1
  <2> QED BY <1>0, <1>2, <2>2
<1> HIDE DEF b
<1>4. b * Block = Block * b /\ (b - 1) * Block = Block * b - Block
  BY <1>0, <1>2
<1>5. First + b * Block >= len
  BY <1>0, <1>2, <1>4
<1>6. ASSUME b > 0 PROVE First + (b - 1) * Block < len
  <2>1. x > 0
    <3>1. SUFFICES ASSUME x = 0 PROVE FALSE
      BY <1>0
    <3>2. Block * b >= Block * 1
      BY <1>0, <1>2, <1>6
    <3> QED BY <1>0, <1>2, <3>1, <3>2
  <2> QED BY <1>0, <1>2, <1>4, <2>1
<1>7. b <= len
  <2>1. SUFFICES ASSUME b > 0 PROVE b <= len
    BY <1>2
  <2>2. (b - 1) * Block >= (b - 1) * 1
    BY <1>0, <1>2, <2>1
  <2> QED BY <1>0, <1>2, <1>6, <2>1, <2>2
<1> QED BY <1>2, <1>3, <1>5, <1>6, <1>7 DEF b

(* A chain that was sized for as many bytes or more is long enough for the *)
(* copying loop.                                                           *)
LEMMA Room ==
    ASSUME NEW len \in Nat, NEW max \in Nat, len <= max
    PROVE  /\ Filled(len) \in Nat
           /\ Filled(len) <= mlx5_calc_cmd_blocks(max)
           /\ mlx5_calc_cmd_blocks(max) \in Nat
<1> DEFINE P(n) == /\ First + n * Block >= len
                   /\ n > 0 => First + (n - 1) * Block < len
           n == Filled(len)  b == mlx5_calc_cmd_blocks(max)
<1>0. First \in Nat /\ Block \in Nat /\ Block > 0
  BY SizeAssumption
<1>1. mlx5_calc_cmd_blocks(len) \in 0 .. len /\ P(mlx5_calc_cmd_blocks(len))
  BY BlocksEnough
<1>2. n \in 0 .. len /\ P(n)
  BY <1>1 DEF Filled
<1>3. b \in Nat /\ First + b * Block >= max
  BY BlocksEnough
<1> HIDE DEF n, b
<1>4. ASSUME n > b PROVE FALSE
  <2>1. (n - 1) * Block >= b * Block
    BY <1>0, <1>2, <1>3, <1>4
  <2> QED BY <1>0, <1>2, <1>3, <1>4, <2>1
<1> QED BY <1>2, <1>3, <1>4 DEF n, b

(* The largest inbox of a cache.                                           *)
LEMMA CacheSize ==
    ASSUME NEW k \in Caches
    PROVE  max_inbox_size(k) \in Nat /\ k # 0 /\ k \in Nat
<1>1. CacheBlocks[k] \in Nat /\ First \in Nat /\ Block \in Nat /\ k \in Nat /\ k # 0
  BY SizeAssumption DEF Caches
<1> QED BY <1>1 DEF max_inbox_size

-----------------------------------------------------------------------------
(* Types.                                                                  *)

(* The bounded sequences that the allocator fills.                         *)
LEMMA SeqOfType ==
    ASSUME NEW S, NEW n \in Nat, NEW q \in SeqOf(S, n)
    PROVE  q \in Seq(S) /\ Len(q) <= n
<1>1. PICK j \in 0 .. n : q \in [1 .. j -> S]
  BY DEF SeqOf
<1> QED BY <1>1

(* A fresh message has its chain and no cache.                             *)
LEMMA FreshTypes ==
    ASSUME Types, NEW M \in SUBSET Msgs, NEW len \in Nat, NEW kept \in SUBSET Msgs,
           Fresh(M, len, kept)
    PROVE  /\ live' \subseteq Msgs /\ parent' \in [Msgs -> Caches \cup {0}]
           /\ blk' \in [Msgs -> Seq(Cmds \cup {NoCmd})]
           /\ \A m \in M : parent'[m] = 0 /\ Len(blk'[m]) = mlx5_calc_cmd_blocks(len)
           /\ \A m \in Msgs \ M : parent'[m] = parent[m] /\ blk'[m] = blk[m]
<1> DEFINE b == mlx5_calc_cmd_blocks(len)
           chain == [i \in 1 .. b |-> NoCmd]
<1>1. b \in Nat
  BY BlocksEnough
<1> HIDE DEF b
<1>2. chain \in Seq(Cmds \cup {NoCmd}) /\ Len(chain) = b
  BY <1>1
<1> HIDE DEF chain
<1>3. blk' = [m \in Msgs |-> IF m \in M THEN chain ELSE blk[m]]
  BY DEF Fresh, chain, b
<1> QED BY <1>2, <1>3 DEF Fresh, Types, b

(* The types are kept by the steps of cmd_exec() and of the firmware.      *)
LEMMA CmdTypes ==
    ASSUME Types, Holders, NEW c \in Cmds,
           \/ AllocStart(c) \/ AllocTry(c) \/ AllocMiss(c) \/ alloc_token(c)
           \/ Copy(c) \/ Invoke(c) \/ Completed(c) \/ TimedOut(c)
           \/ FreeOut(c) \/ FreeIn(c) \/ FwRead(c)
    PROVE  Types'
<1> USE DEF Goto, cacheVars, msgVars, fwVars, storeVars, localVars, tokenVars, CmdPcs, Holding
<1>1. CASE AllocStart(c)
  BY <1>1, SizeAssumption DEF AllocStart, Types
<1>2. CASE AllocTry(c)
  <2>0. idx[c] \in Nat /\ idx[c] \in Caches
    BY <1>2 DEF AllocTry, Types
  <2>1. CASE Suits(c, idx[c])
    <3>1. list[idx[c]] \in Seq(Msgs) /\ list[idx[c]] # << >>
      BY <2>0, <2>1 DEF Suits, Types
    <3>2. Tail(list[idx[c]]) \in Seq(Msgs) /\ Head(list[idx[c]]) \in Msgs
      BY <3>1
    <3>3. free[idx[c]] - 1 \in Int
      BY <2>0 DEF Types
    <3>k. PICK k, h, t, f : /\ k = idx[c] /\ h = Head(list[k]) /\ t = Tail(list[k])
                            /\ f = free[k] - 1
      OBVIOUS
    <3>4. /\ inb' = [inb EXCEPT ![c] = h] /\ list' = [list EXCEPT ![k] = t]
          /\ free' = [free EXCEPT ![k] = f] /\ pc' = [pc EXCEPT ![c] = "token"]
          /\ UNCHANGED <<num_ent, missing, live, parent, blk, idx, size, outb, fw, read,
                         wpc, cache, removed, add, added, up>>
      BY <1>2, <2>1, <3>k DEF AllocTry
    <3>5. /\ inb' \in [Cmds -> Msgs \cup {NoMsg}] /\ list' \in [Caches -> Seq(Msgs)]
          /\ free' \in [Caches -> Int] /\ pc' \in [Cmds -> CmdPcs]
      BY <2>0, <3>k, <3>2, <3>3, <3>4 DEF Types
    <3> QED BY <3>4, <3>5 DEF Types
  <2>2. CASE ~Suits(c, idx[c])
    <3>1. idx[c] + 1 \in Nat
      BY <2>0
    <3>n. PICK n, l : n = idx[c] + 1 /\ l = IF n \in Caches THEN "cache" ELSE "miss"
      OBVIOUS
    <3>2. /\ idx' = [idx EXCEPT ![c] = n] /\ pc' = [pc EXCEPT ![c] = l]
          /\ UNCHANGED <<list, free, inb, num_ent, missing, live, parent, blk, size, outb,
                         fw, read, wpc, cache, removed, add, added, up>>
      BY <1>2, <2>2, <3>n DEF AllocTry
    <3>3. idx' \in [Cmds -> Nat] /\ pc' \in [Cmds -> CmdPcs]
      BY <3>n, <3>1, <3>2 DEF Types
    <3> QED BY <3>2, <3>3 DEF Types
  <2> QED BY <2>1, <2>2
<1>3. CASE AllocMiss(c)
  <2>0. size[c] \in Nat
    BY DEF Types
  <2>1. CASE \E m \in Msgs \ live :
              /\ Fresh({m}, size[c], live)
              /\ inb' = [inb EXCEPT ![c] = m]
              /\ Goto(c, "token")
    <3>1. PICK m \in Msgs \ live : /\ Fresh({m}, size[c], live)
                                   /\ inb' = [inb EXCEPT ![c] = m]
                                   /\ Goto(c, "token")
      BY <2>1
    <3>2. /\ live' \subseteq Msgs /\ parent' \in [Msgs -> Caches \cup {0}]
          /\ blk' \in [Msgs -> Seq(Cmds \cup {NoCmd})]
      BY <2>0, <3>1, FreshTypes DEF Types
    <3> QED BY <1>3, <3>1, <3>2 DEF AllocMiss, Types
  <2>2. CASE Goto(c, "done") /\ UNCHANGED <<msgVars, inb>>
    BY <1>3, <2>2 DEF AllocMiss, Types
  <2> QED BY <1>3, <2>1, <2>2 DEF AllocMiss
<1>4. CASE alloc_token(c)
  BY <1>4 DEF alloc_token, Types
<1>5. CASE Copy(c)
  <2>1. inb[c] \in Msgs
    BY <1>5 DEF Copy, Holders, Types
  <2> DEFINE s == [i \in DOMAIN blk[inb[c]] |->
                     IF i <= Filled(size[c]) THEN c ELSE blk[inb[c]][i]]
  <2>2. s \in Seq(Cmds \cup {NoCmd})
    <3>1. blk[inb[c]] \in Seq(Cmds \cup {NoCmd})
      BY <2>1 DEF Types
    <3>2. DOMAIN blk[inb[c]] = 1 .. Len(blk[inb[c]]) /\ Len(blk[inb[c]]) \in Nat
      BY <3>1
    <3> QED BY <3>1, <3>2
  <2>3. blk' = [blk EXCEPT ![inb[c]] = s]
    BY <1>5 DEF Copy, mlx5_copy_to_msg
  <2> HIDE DEF s
  <2>4. blk' \in [Msgs -> Seq(Cmds \cup {NoCmd})]
    BY <2>1, <2>2, <2>3 DEF Types
  <2> QED BY <1>5, <2>4 DEF Copy, Types
<1>6. CASE Invoke(c)
  BY <1>6 DEF Invoke, Types
<1>7. CASE Completed(c) \/ TimedOut(c) \/ FreeOut(c)
  BY <1>7 DEF Completed, TimedOut, FreeOut, Types
<1>8. CASE FreeIn(c)
  <2>1. inb[c] \in Msgs
    BY <1>8 DEF FreeIn, Holders, Types
  <2>2. CASE parent[inb[c]] # 0
    <3> DEFINE k == parent[inb[c]]
    <3>1. k \in Caches
      BY <2>1, <2>2 DEF Types
    <3>2. Append(list[k], inb[c]) \in Seq(Msgs) /\ free[k] + 1 \in Int
      BY <2>1, <3>1 DEF Types
    <3> HIDE DEF k
    <3>3. list' = [list EXCEPT ![k] = Append(list[k], inb[c])]
          /\ free' = [free EXCEPT ![k] = free[k] + 1] /\ UNCHANGED live
      BY <1>8, <2>2 DEF FreeIn, free_msg, k
    <3> QED BY <1>8, <3>1, <3>2, <3>3 DEF FreeIn, Types
  <2>3. CASE parent[inb[c]] = 0
    BY <1>8, <2>3 DEF FreeIn, free_msg, Types
  <2> QED BY <2>2, <2>3
<1>9. CASE FwRead(c)
  BY <1>9 DEF FwRead, Types
<1> QED BY <1>1, <1>2, <1>3, <1>4, <1>5, <1>6, <1>7, <1>8, <1>9

(* num_ent_store() takes the first r entries off the list of k.            *)
Removes(w, k, r, more) ==
    /\ r <= Len(list[k])
    /\ cache' = [cache EXCEPT ![w] = k]
    /\ removed' = [removed EXCEPT ![w] = Range(SubSeq(list[k], 1, r))]
    /\ list' = [list EXCEPT ![k] = SubSeq(list[k], r + 1, Len(list[k]))]
    /\ free' = [free EXCEPT ![k] = free[k] - r]
    /\ num_ent' = [num_ent EXCEPT ![k] = num_ent[k] - r]
    /\ add' = [add EXCEPT ![w] = more]
    /\ wpc' = [wpc EXCEPT ![w] = "alloc"]

(* Whatever the value written, that is all the locked part of              *)
(* num_ent_store() does.                                                   *)
LEMMA RemoveEffect ==
    ASSUME Types, NEW w \in Writers, StoreRemove(w)
    PROVE  \E k \in Caches, r \in Nat, more \in Nat : Removes(w, k, r, more)
<1>1. PICK k \in Caches, var \in 0 .. MaxEnt :
         LET n == IF var < num_ent[k] THEN num_ent[k] - var ELSE 0
             r == IF n < Len(list[k]) THEN n ELSE Len(list[k])
         IN  /\ cache' = [cache EXCEPT ![w] = k]
             /\ removed' = [removed EXCEPT ![w] = Range(SubSeq(list[k], 1, r))]
             /\ list' = [list EXCEPT ![k] = SubSeq(@, r + 1, Len(@))]
             /\ free' = [free EXCEPT ![k] = @ - r]
             /\ num_ent' = [num_ent EXCEPT ![k] = @ - r]
             /\ add' = [add EXCEPT ![w] = IF var > num_ent[k] THEN var - num_ent[k] ELSE 0]
  BY DEF StoreRemove
<1> DEFINE n == IF var < num_ent[k] THEN num_ent[k] - var ELSE 0
           r == IF n < Len(list[k]) THEN n ELSE Len(list[k])
           more == IF var > num_ent[k] THEN var - num_ent[k] ELSE 0
<1>2. list[k] \in Seq(Msgs) /\ num_ent[k] \in Int /\ var \in Nat
  BY SizeAssumption DEF Types
<1>3. r \in Nat /\ r <= Len(list[k])
  BY <1>2
<1>4. more \in Nat
  BY <1>2
<1>5. Removes(w, k, r, more)
  <2>1. list' = [list EXCEPT ![k] = SubSeq(list[k], r + 1, Len(list[k]))]
        /\ free' = [free EXCEPT ![k] = free[k] - r]
        /\ num_ent' = [num_ent EXCEPT ![k] = num_ent[k] - r]
        /\ cache' = [cache EXCEPT ![w] = k]
        /\ removed' = [removed EXCEPT ![w] = Range(SubSeq(list[k], 1, r))]
        /\ add' = [add EXCEPT ![w] = more]
    BY <1>1
  <2>2. wpc' = [wpc EXCEPT ![w] = "alloc"]
    BY DEF StoreRemove
  <2> HIDE DEF n, r, more
  <2> QED BY <1>3, <2>1, <2>2 DEF Removes
<1> HIDE DEF n, r, more
<1> QED BY <1>3, <1>4, <1>5

(* They are kept by num_ent_store().                                       *)
LEMMA StoreTypes ==
    ASSUME Types, Stores, NEW w \in Writers,
           StoreRemove(w) \/ StoreAlloc(w) \/ StoreAdd(w)
    PROVE  Types'
<1> USE DEF cacheVars, msgVars, fwVars, storeVars, localVars, tokenVars, StorePcs
<1>1. CASE StoreRemove(w)
  <2>1. PICK k \in Caches, r \in Nat, more \in Nat : Removes(w, k, r, more)
    BY <1>1, RemoveEffect
  <2> DEFINE a == SubSeq(list[k], 1, r)  b == SubSeq(list[k], r + 1, Len(list[k]))
             f == free[k] - r  e == num_ent[k] - r
  <2>2. list[k] \in Seq(Msgs) /\ f \in Int /\ e \in Int /\ r \in 0 .. Len(list[k])
    BY <2>1 DEF Types, Removes
  <2>3. /\ cache' = [cache EXCEPT ![w] = k]
        /\ removed' = [removed EXCEPT ![w] = Range(a)]
        /\ list' = [list EXCEPT ![k] = b] /\ free' = [free EXCEPT ![k] = f]
        /\ num_ent' = [num_ent EXCEPT ![k] = e] /\ add' = [add EXCEPT ![w] = more]
        /\ wpc' = [wpc EXCEPT ![w] = "alloc"] /\ k \in Nat
    BY <2>1, CacheSize DEF Removes
  <2>4. a \in Seq(Msgs) /\ b \in Seq(Msgs)
    BY <2>2
  <2> HIDE DEF a, b, f, e
  <2>5. Range(a) \subseteq Msgs
    BY <2>4 DEF Range
  <2> QED BY <1>1, <2>2, <2>3, <2>4, <2>5 DEF StoreRemove, Types
<1>2. CASE StoreAlloc(w)
  <2>1. PICK q \in SeqOf(Msgs \ Kept(w), add[w]) :
           /\ added' = [added EXCEPT ![w] = q]
           /\ Fresh(Range(q), max_inbox_size(cache[w]), Kept(w))
    BY <1>2 DEF StoreAlloc, StoreTakes
  <2>2. q \in Seq(Msgs) /\ Range(q) \subseteq Msgs
    <3>1. q \in Seq(Msgs \ Kept(w))
      BY SeqOfType DEF Types
    <3> QED BY <3>1 DEF Range
  <2>3. /\ live' \subseteq Msgs /\ parent' \in [Msgs -> Caches \cup {0}]
        /\ blk' \in [Msgs -> Seq(Cmds \cup {NoCmd})]
    <3>1. max_inbox_size(cache[w]) \in Nat /\ Kept(w) \in SUBSET Msgs
      BY <1>2, CacheSize DEF StoreAlloc, Stores, Kept, Types
    <3> QED BY <2>1, <2>2, <3>1, FreshTypes
  <2> QED BY <1>2, <2>1, <2>2, <2>3 DEF StoreAlloc, Types
<1>3. CASE StoreAdd(w)
  <2> DEFINE k == cache[w]  n == Len(added[w])  s == list[k] \o Reverse(added[w])
             e == num_ent[k] + n  f == free[k] + n
  <2>1. k \in Caches /\ n \in Int
    BY <1>3 DEF StoreAdd, Stores, Types
  <2>2. e \in Int /\ f \in Int
    BY <2>1 DEF Types
  <2>3. s \in Seq(Msgs)
    <3>1. list[k] \in Seq(Msgs) /\ added[w] \in Seq(Msgs)
      BY <2>1 DEF Types
    <3>2. n \in Nat /\ \A i \in 1 .. n : added[w][(n - i) + 1] \in Msgs
      BY <3>1
    <3>3. Reverse(added[w]) \in Seq(Msgs)
      BY <3>1, <3>2 DEF Reverse
    <3> QED BY <3>1, <3>3
  <2>4. /\ list' = [list EXCEPT ![k] = s] /\ num_ent' = [num_ent EXCEPT ![k] = e]
        /\ free' = [free EXCEPT ![k] = f]
        /\ parent' = [m \in Msgs |-> IF m \in Range(added[w]) THEN k ELSE parent[m]]
        /\ added' = [added EXCEPT ![w] = << >>] /\ wpc' = [wpc EXCEPT ![w] = "done"]
        /\ UNCHANGED <<missing, live, blk, pc, idx, size, inb, outb, fw, read,
                       removed, up>>
        /\ cache' = [cache EXCEPT ![w] = 1] /\ add' = [add EXCEPT ![w] = 0]
    BY <1>3 DEF StoreAdd
  <2> HIDE DEF s, e, f, n, k
  <2>5. /\ list' \in [Caches -> Seq(Msgs)] /\ num_ent' \in [Caches -> Int]
        /\ free' \in [Caches -> Int] /\ parent' \in [Msgs -> Caches \cup {0}]
        /\ added' \in [Writers -> Seq(Msgs)] /\ wpc' \in [Writers -> StorePcs]
    BY <2>1, <2>2, <2>3, <2>4 DEF Types
  <2> QED BY <2>4, <2>5 DEF Types
<1> QED BY <1>1, <1>2, <1>3

(* And by mlx5_cmd_disable().                                              *)
LEMMA DisableTypes ==
    ASSUME Types, Disable
    PROVE  Types'
<1>1. \A k \in Caches : free[k] - Len(list[k]) \in Int
  BY DEF Types
<1>2. \A k \in Caches : << >> \in Seq(Msgs)
  OBVIOUS
<1> QED BY <1>1, <1>2 DEF Disable, Types, fwVars, localVars, tokenVars

-----------------------------------------------------------------------------
(* Every message is in one place, and num_ent counts it.                   *)

Places == /\ IsFiniteSet(live) /\ Lists /\ Holders /\ Stores /\ Covered /\ Accounts

(* The messages that num_ent counts.                                       *)
Mine(k) == {m \in live : parent[m] = k /\ \A w \in Writers : m \notin removed[w]}

(* Accounts in terms of Mine.                                              *)
LEMMA Balance == Accounts <=> (up => \A k \in Caches :
                                    num_ent[k] = missing[k] + Cardinality(Mine(k)))
  BY DEF Accounts, Mine

(* A step that moves no message.                                           *)
LEMMA QuietPlaces ==
    ASSUME Types, Places,
           UNCHANGED <<list, free, num_ent, missing, live, parent, inb, wpc, cache,
                       removed, added, up>>,
           \A c \in Cmds : pc'[c] \in Holding <=> pc[c] \in Holding
    PROVE  Places'
<1>1. IsFiniteSet(live)' /\ Lists' /\ Stores' /\ Accounts'
  BY DEF Places, Lists, Stores, Accounts
<1>2. Holders'
  BY DEF Places, Holders
<1>3. Covered'
  BY DEF Places, Covered, Holds
<1> QED BY <1>1, <1>2, <1>3 DEF Places

(* alloc_msg() takes a message from a cache.                               *)
LEMMA TakePlaces ==
    ASSUME Types, Places, NEW c \in Cmds, AllocTry(c), Suits(c, idx[c])
    PROVE  Places'
<1>k. PICK k : k = idx[c]
  OBVIOUS
<1>m. PICK m : m = Head(list[k])
  OBVIOUS
<1>0. /\ k \in Caches /\ list[k] \in Seq(Msgs) /\ list[k] # << >>
      /\ IsInjective(list[k]) /\ pc[c] \notin Holding
  BY <1>k DEF AllocTry, Suits, Types, Places, Lists, Holding
<1>1. /\ Tail(list[k]) \in Seq(Msgs)  /\ Len(Tail(list[k])) = Len(list[k]) - 1
      /\ IsInjective(Tail(list[k])) /\ m \in Range(list[k]) /\ m \in Msgs
      /\ Range(Tail(list[k])) = Range(list[k]) \ {m}
  BY <1>0, <1>m, Taken
<1>2. /\ list' = [list EXCEPT ![k] = Tail(list[k])]
      /\ free' = [free EXCEPT ![k] = free[k] - 1]
      /\ inb' = [inb EXCEPT ![c] = m] /\ pc' = [pc EXCEPT ![c] = "token"]
      /\ UNCHANGED <<num_ent, missing, live, parent, wpc, cache, removed, added, up>>
  BY <1>k, <1>m DEF AllocTry, Goto, msgVars, storeVars
<1>3. /\ m \in live /\ parent[m] = k
      /\ \A j \in Caches : j # k => m \notin Range(list[j])
      /\ \A d \in Cmds : pc[d] \in Holding => inb[d] # m
      /\ \A w \in Writers : m \notin removed[w] /\ m \notin Range(added[w])
  <2>1. /\ m \in live /\ parent[m] = k
        /\ \A j \in Caches : j # k => m \notin Range(list[j])
    <3>1. \A j \in Caches : m \in Range(list[j]) => m \in live /\ parent[m] = j
      BY DEF Places, Lists
    <3> QED BY <1>0, <1>1, <3>1
  <2>2. \A d \in Cmds : pc[d] \in Holding => inb[d] # m
    BY <1>0, <1>1 DEF Places, Holders
  <2>3. \A w \in Writers : m \notin removed[w] /\ m \notin Range(added[w])
    BY <1>0, <1>1, <2>1, CacheSize DEF Places, Stores
  <2> QED BY <2>1, <2>2, <2>3
<1>p. /\ pc'[c] \in Holding /\ inb'[c] = m
      /\ \A d \in Cmds : d # c => pc'[d] = pc[d] /\ inb'[d] = inb[d]
      /\ UNCHANGED <<live, parent, wpc, cache, removed, added>>
  BY <1>2 DEF Types, Holding
<1>4. \A j \in Caches : Range(list'[j]) = Range(list[j]) \ {m}
  BY <1>0, <1>1, <1>2, <1>3 DEF Types
<1>5. Lists'
  BY <1>0, <1>1, <1>2, <1>4 DEF Places, Lists, Types
<1>6. Holders'
  BY <1>p, <1>3, <1>4 DEF Places, Holders
<1>7. Stores'
  BY <1>p, <1>4 DEF Places, Stores
<1>8. Covered'
  <2>1. ASSUME NEW x \in live
        PROVE  \/ \E j \in Caches : x \in Range(list'[j])
               \/ \E d \in Cmds : Holds(d, x)'
               \/ \E w \in Writers : x \in removed[w] \cup Range(added[w])
    <3>1. CASE x = m
      <4>1. Holds(c, m)'
        BY <1>p DEF Holds
      <4> QED BY <3>1, <4>1
    <3>2. CASE \E j \in Caches : x \in Range(list[j]) /\ x # m
      BY <1>4, <3>2
    <3>3. CASE \E d \in Cmds : Holds(d, x)
      <4>1. PICK d \in Cmds : Holds(d, x)
        BY <3>3
      <4>2. Holds(d, x)'
        BY <1>0, <1>p, <4>1 DEF Holds
      <4> QED BY <4>2
    <3> QED BY <3>1, <3>2, <3>3 DEF Places, Covered
  <2> QED BY <1>2, <2>1 DEF Covered
<1>9. IsFiniteSet(live)' /\ Accounts'
  BY <1>2 DEF Places, Accounts
<1> QED BY <1>5, <1>6, <1>7, <1>8, <1>9 DEF Places

(* alloc_msg() allocates one.                                              *)
LEMMA MissPlaces ==
    ASSUME Types, Places, NEW c \in Cmds, AllocMiss(c), NEW m \in Msgs \ live,
           Fresh({m}, size[c], live), inb' = [inb EXCEPT ![c] = m], Goto(c, "token")
    PROVE  Places'
<1>1. /\ live' = live \cup {m} /\ parent'[m] = 0
      /\ \A x \in Msgs : x # m => parent'[x] = parent[x]
      /\ pc' = [pc EXCEPT ![c] = "token"] /\ pc[c] \notin Holding
      /\ UNCHANGED <<list, free, num_ent, missing, wpc, cache, removed, added, up>>
  BY DEF AllocMiss, Fresh, Goto, cacheVars, storeVars, Holding
<1>2. /\ \A k \in Caches : m \notin Range(list[k])
      /\ \A d \in Cmds : pc[d] \in Holding => inb[d] # m
      /\ \A w \in Writers : m \notin removed[w] /\ m \notin Range(added[w])
  BY DEF Places, Lists, Holders, Stores
<1>3. /\ \A k \in Caches : Range(list[k]) \subseteq Msgs
      /\ \A w \in Writers : removed[w] \subseteq Msgs /\ Range(added[w]) \subseteq Msgs
  BY DEF Types, Range
<1>4. Lists'
  BY <1>1, <1>2, <1>3 DEF Places, Lists
<1>5. Holders'
  BY <1>1, <1>2 DEF Places, Holders, Types
<1>6. Stores'
  BY <1>1, <1>2, <1>3 DEF Places, Stores
<1>7. Covered'
  <2>1. ASSUME NEW x \in live
        PROVE  \/ \E k \in Caches : x \in Range(list[k])
               \/ \E d \in Cmds : Holds(d, x)'
               \/ \E w \in Writers : x \in removed[w] \cup Range(added[w])
    <3>1. ASSUME NEW d \in Cmds, Holds(d, x) PROVE Holds(d, x)'
      BY <1>1, <3>1 DEF Holds, Types
    <3> QED BY <3>1 DEF Places, Covered
  <2>2. Holds(c, m)'
    BY <1>1 DEF Holds, Holding, Types
  <2> QED BY <1>1, <2>1, <2>2 DEF Covered
<1>8. IsFiniteSet(live)'
  BY <1>1, FS_AddElement DEF Places
<1>9. Accounts'
  <2>1. \A k \in Caches : Mine(k)' = Mine(k)
    BY <1>1, CacheSize DEF Mine, Types
  <2>2. Accounts' <=> (up' => \A k \in Caches :
                          num_ent'[k] = missing'[k] + Cardinality(Mine(k)'))
    BY DEF Accounts, Mine
  <2> QED BY <1>1, <2>1, <2>2, Balance DEF Places
<1> QED BY <1>4, <1>5, <1>6, <1>7, <1>8, <1>9 DEF Places

(* free_msg() gives a message back to its cache, or frees it.              *)
LEMMA FreePlaces ==
    ASSUME Types, Places, NEW c \in Cmds, FreeIn(c)
    PROVE  Places'
<1>m. PICK m : m = inb[c]
  OBVIOUS
<1>1. /\ pc[c] \in Holding /\ m \in live /\ m \in Msgs
      /\ \A k \in Caches : m \notin Range(list[k])
      /\ \A w \in Writers : m \notin removed[w] /\ m \notin Range(added[w])
      /\ \A d \in Cmds : d # c /\ pc[d] \in Holding => inb[d] # m
  <2>1. pc[c] \in Holding
    BY DEF FreeIn, Holding
  <2> QED BY <1>m, <2>1 DEF Places, Holders, Types
<1>2. /\ free_msg(m) /\ UNCHANGED <<num_ent, missing, parent, inb, wpc, cache, removed,
                                     added, up>>
      /\ pc'[c] \notin Holding /\ \A d \in Cmds : d # c => pc'[d] = pc[d]
  BY <1>m DEF FreeIn, Goto, storeVars, Types, Holding
<1>3. CASE parent[m] # 0
  <2>k. PICK k : k = parent[m]
    OBVIOUS
  <2>0. k \in Caches /\ list[k] \in Seq(Msgs) /\ IsInjective(list[k])
    BY <1>1, <1>3, <2>k DEF Types, Places, Lists
  <2>1. /\ Append(list[k], m) \in Seq(Msgs)
        /\ Len(Append(list[k], m)) = Len(list[k]) + 1
        /\ IsInjective(Append(list[k], m))
        /\ Range(Append(list[k], m)) = Range(list[k]) \cup {m}
    BY <1>1, <2>0, Appended
  <2>2. /\ list' = [list EXCEPT ![k] = Append(list[k], m)]
        /\ free' = [free EXCEPT ![k] = free[k] + 1] /\ UNCHANGED live
    BY <1>2, <1>3, <2>k DEF free_msg
  <2>3. /\ Range(list'[k]) = Range(list[k]) \cup {m}
        /\ \A j \in Caches : j # k => list'[j] = list[j]
    BY <2>0, <2>1, <2>2 DEF Types
  <2>4. Lists'
    BY <1>1, <1>2, <2>k, <2>0, <2>1, <2>2, <2>3 DEF Places, Lists, Types
  <2>5. Holders'
    BY <1>1, <1>2, <2>2, <2>3 DEF Places, Holders
  <2>6. Stores'
    BY <1>1, <1>2, <2>2, <2>3 DEF Places, Stores
  <2>7. Covered'
    <3>1. ASSUME NEW x \in live, x # m
          PROVE  \/ \E j \in Caches : x \in Range(list'[j])
                 \/ \E d \in Cmds : Holds(d, x)'
                 \/ \E w \in Writers : x \in removed[w] \cup Range(added[w])
      <4>1. CASE \E j \in Caches : x \in Range(list[j])
        BY <2>3, <4>1
      <4>2. CASE \E d \in Cmds : Holds(d, x)
        <5>1. PICK d \in Cmds : Holds(d, x)
          BY <4>2
        <5>2. Holds(d, x)'
          BY <1>m, <1>2, <3>1, <5>1 DEF Holds
        <5> QED BY <5>2
      <4> QED BY <4>1, <4>2 DEF Places, Covered
    <3>2. m \in Range(list'[k])
      BY <2>3
    <3> QED BY <1>2, <2>0, <2>2, <3>1, <3>2 DEF Covered
  <2>8. IsFiniteSet(live)' /\ Accounts'
    BY <1>2, <2>2 DEF Places, Accounts
  <2> QED BY <2>4, <2>5, <2>6, <2>7, <2>8 DEF Places
<1>4. CASE parent[m] = 0
  <2>1. live' = live \ {m} /\ UNCHANGED <<list, free>>
    BY <1>2, <1>4 DEF free_msg
  <2>2. Lists'
    BY <1>1, <1>2, <2>1 DEF Places, Lists
  <2>3. Holders'
    BY <1>1, <1>2, <2>1 DEF Places, Holders
  <2>4. Stores'
    BY <1>1, <1>2, <2>1 DEF Places, Stores
  <2>5. Covered'
    <3>1. ASSUME NEW x \in live, x # m, NEW d \in Cmds, Holds(d, x)
          PROVE  Holds(d, x)'
      BY <1>m, <1>2, <3>1 DEF Holds
    <3> QED BY <1>2, <2>1, <3>1 DEF Places, Covered
  <2>6. IsFiniteSet(live)'
    BY <2>1, FS_RemoveElement DEF Places
  <2>7. Accounts'
    <3>1. \A k \in Caches : Mine(k)' = Mine(k)
      BY <1>2, <1>4, <2>1, CacheSize DEF Mine
    <3>2. Accounts' <=> (up' => \A k \in Caches :
                            num_ent'[k] = missing'[k] + Cardinality(Mine(k)'))
      BY DEF Accounts, Mine
    <3> QED BY <1>2, <3>1, <3>2, Balance DEF Places
  <2> QED BY <2>2, <2>3, <2>4, <2>5, <2>6, <2>7 DEF Places
<1> QED BY <1>3, <1>4

(* num_ent_store() takes messages off a list.                              *)
LEMMA RemovePlaces ==
    ASSUME Types, Places, NEW w \in Writers, StoreRemove(w)
    PROVE  Places'
<1>1. PICK k \in Caches, r \in Nat, more \in Nat : Removes(w, k, r, more)
  BY RemoveEffect
<1>a. PICK a, b : a = SubSeq(list[k], 1, r) /\ b = SubSeq(list[k], r + 1, Len(list[k]))
  OBVIOUS
<1>0. list[k] \in Seq(Msgs) /\ IsInjective(list[k]) /\ r \in 0 .. Len(list[k])
  BY <1>1 DEF Types, Places, Lists, Removes
<1>2. /\ a \in Seq(Msgs) /\ b \in Seq(Msgs) /\ Len(a) = r /\ Len(b) = Len(list[k]) - r
      /\ IsInjective(a) /\ IsInjective(b)
      /\ Range(a) \subseteq Range(list[k]) /\ Range(b) = Range(list[k]) \ Range(a)
  BY <1>0, <1>a, Cut
<1>3. /\ list' = [list EXCEPT ![k] = b] /\ free' = [free EXCEPT ![k] = free[k] - r]
      /\ num_ent' = [num_ent EXCEPT ![k] = num_ent[k] - r]
      /\ removed' = [removed EXCEPT ![w] = Range(a)]
      /\ cache' = [cache EXCEPT ![w] = k] /\ wpc' = [wpc EXCEPT ![w] = "alloc"]
      /\ wpc[w] = "idle" /\ UNCHANGED <<missing, live, parent, pc, inb, added, up>>
  BY <1>1, <1>a DEF Removes, StoreRemove, msgVars, localVars
<1>4. /\ list'[k] = b /\ \A j \in Caches : j # k => list'[j] = list[j]
      /\ free'[k] = free[k] - r /\ \A j \in Caches : j # k => free'[j] = free[j]
      /\ num_ent'[k] = num_ent[k] - r
      /\ \A j \in Caches : j # k => num_ent'[j] = num_ent[j]
  BY <1>3 DEF Types
<1>5. /\ removed'[w] = Range(a) /\ cache'[w] = k /\ wpc'[w] = "alloc"
      /\ \A v \in Writers : v # w => /\ removed'[v] = removed[v] /\ cache'[v] = cache[v]
                                    /\ wpc'[v] = wpc[v]
      /\ UNCHANGED <<live, parent, pc, inb, added>>
  BY <1>3 DEF Types
<1>6. /\ removed[w] = {} /\ added[w] = << >>
      /\ \A m \in Range(a) :
            /\ m \in live /\ parent[m] = k
            /\ \A v \in Writers : m \notin removed[v] /\ m \notin Range(added[v])
            /\ \A d \in Cmds : pc[d] \in Holding => inb[d] # m
            /\ \A j \in Caches : j # k => m \notin Range(list[j])
  <2>1. removed[w] = {} /\ added[w] = << >>
    BY <1>3 DEF Places, Stores
  <2>2. \A m \in Range(a) : m \in live /\ parent[m] = k
    BY <1>2 DEF Places, Lists
  <2>3. \A m \in Range(a), v \in Writers : m \notin removed[v] /\ m \notin Range(added[v])
    BY <1>2, <2>2, CacheSize DEF Places, Stores
  <2>4. \A m \in Range(a), d \in Cmds : pc[d] \in Holding => inb[d] # m
    BY <1>2 DEF Places, Holders
  <2>5. \A m \in Range(a), j \in Caches : j # k => m \notin Range(list[j])
    BY <2>2 DEF Places, Lists
  <2> QED BY <2>1, <2>2, <2>3, <2>4, <2>5
<1>7. \A j \in Caches : Range(list'[j]) = Range(list[j]) \ Range(a)
  BY <1>2, <1>4, <1>6
<1>8. Lists'
  <2>1. \A j \in Caches : free'[j] = Len(list'[j]) /\ IsInjective(list'[j])
    BY <1>0, <1>2, <1>4 DEF Places, Lists, Types
  <2> QED BY <1>5, <1>7, <2>1 DEF Places, Lists
<1>9. Holders'
  BY <1>5, <1>6, <1>7 DEF Places, Holders
<1>10. Stores'
  BY <1>5, <1>6, <1>7 DEF Places, Stores
<1>11. Covered'
  <2>1. ASSUME NEW x \in live
        PROVE  \/ \E j \in Caches : x \in Range(list'[j])
               \/ \E d \in Cmds : Holds(d, x)
               \/ \E v \in Writers : x \in removed'[v] \cup Range(added[v])
    BY <1>5, <1>6, <1>7 DEF Places, Covered
  <2> QED BY <1>5, <2>1 DEF Covered, Holds
<1>12. Accounts'
  <2>1. Mine(k)' = Mine(k) \ Range(a) /\ Mine(k) \cap Range(a) = Range(a)
    BY <1>5, <1>6 DEF Mine
  <2>2. \A j \in Caches : j # k => Mine(j)' = Mine(j)
    BY <1>5, <1>6 DEF Mine
  <2>3. IsFiniteSet(Mine(k)) /\ Cardinality(Mine(k)) \in Nat
    <3>1. Mine(k) \in SUBSET live
      BY DEF Mine
    <3> QED BY <3>1, FS_Subset, FS_CardinalityType DEF Places
  <2>4. Cardinality(Mine(k)') = Cardinality(Mine(k)) - r
    <3>1. Cardinality(Range(a)) = r
      BY <1>2, Counted
    <3>2. Cardinality(Mine(k) \ Range(a))
             = Cardinality(Mine(k)) - Cardinality(Mine(k) \cap Range(a))
      BY <2>3, FS_Difference
    <3> QED BY <2>1, <3>1, <3>2
  <2>5. Accounts' <=> (up' => \A j \in Caches :
                          num_ent'[j] = missing'[j] + Cardinality(Mine(j)'))
    BY DEF Accounts, Mine
  <2>6. SUFFICES ASSUME up PROVE \A j \in Caches :
                                    num_ent'[j] = missing[j] + Cardinality(Mine(j)')
    BY <1>3, <2>5
  <2>7. \A j \in Caches : num_ent[j] = missing[j] + Cardinality(Mine(j))
    BY <2>6, Balance DEF Places
  <2>8. num_ent'[k] = missing[k] + Cardinality(Mine(k)')
    <3>1. missing[k] \in Int /\ num_ent[k] \in Int
      BY DEF Types
    <3> QED BY <1>4, <2>3, <2>4, <2>7, <3>1
  <2> QED BY <1>4, <2>2, <2>7, <2>8
<1> QED BY <1>3, <1>8, <1>9, <1>10, <1>11, <1>12 DEF Places

(* num_ent_store() frees what it removed and allocates what it will add.   *)
LEMMA AllocPlaces ==
    ASSUME Types, Places, NEW w \in Writers, StoreAlloc(w)
    PROVE  Places'
<1>1. PICK q \in SeqOf(Msgs \ Kept(w), add[w]) :
         /\ IsInjective(q) /\ added' = [added EXCEPT ![w] = q]
         /\ Fresh(Range(q), max_inbox_size(cache[w]), Kept(w))
  BY DEF StoreAlloc, StoreTakes
<1>M. PICK M : M = Range(q)
  OBVIOUS
<1>K. PICK K : K = live \ removed[w]
  OBVIOUS
<1>2. q \in Seq(Msgs) /\ M \subseteq Msgs /\ M \cap K = {} /\ K \subseteq live
  <2>1. q \in Seq(Msgs \ Kept(w))
    BY SeqOfType DEF Types
  <2> QED BY <1>M, <1>K, <2>1 DEF Range, Kept
<1>3. /\ wpc[w] = "alloc" /\ live' = K \cup M
      /\ \A m \in M : parent'[m] = 0
      /\ \A m \in Msgs : m \notin M => parent'[m] = parent[m]
      /\ UNCHANGED <<list, free, num_ent, missing, pc, inb, cache, up>>
  BY <1>1, <1>2, <1>M, <1>K DEF StoreAlloc, Fresh, Kept, cacheVars
<1>4. /\ added'[w] = q /\ removed'[w] = {} /\ wpc'[w] = "add" /\ added[w] = << >>
      /\ \A v \in Writers : v # w => /\ removed'[v] = removed[v] /\ added'[v] = added[v]
                                    /\ wpc'[v] = wpc[v]
  BY <1>1 DEF StoreAlloc, Types, Places, Stores
<1>5. /\ \A k \in Caches : \A m \in Range(list[k]) : m \in K
      /\ \A d \in Cmds : pc[d] \in Holding => inb[d] \in K
      /\ \A v \in Writers : v # w => /\ \A m \in removed[v] : m \in K
                                    /\ \A m \in Range(added[v]) : m \in K
      /\ cache[w] \in Caches
  <2>1. \A k \in Caches : \A m \in Range(list[k]) : m \in K
    <3> SUFFICES ASSUME NEW k \in Caches, NEW m \in Range(list[k]) PROVE m \in K
      OBVIOUS
    <3>1. m \in live
      BY DEF Places, Lists
    <3>2. m \notin removed[w]
      BY DEF Places, Stores
    <3> QED BY <1>K, <3>1, <3>2
  <2>2. \A d \in Cmds : pc[d] \in Holding => inb[d] \in K
    BY <1>K DEF Places, Holders
  <2>3. cache[w] \in Caches /\ cache[w] # 0
    BY <1>3, CacheSize DEF Places, Stores
  <2>4. ASSUME NEW v \in Writers, v # w
        PROVE  (\A m \in removed[v] : m \in K) /\ (\A m \in Range(added[v]) : m \in K)
    <3>1. \A m \in removed[v] : m \in live /\ m \notin removed[w]
      BY <2>4 DEF Places, Stores
    <3>2. \A m \in Range(added[v]) : m \in live /\ parent[m] = 0
      BY DEF Places, Stores
    <3>3. \A m \in removed[w] : parent[m] = cache[w]
      BY DEF Places, Stores
    <3> QED BY <1>K, <2>3, <3>1, <3>2, <3>3
  <2> QED BY <2>1, <2>2, <2>3, <2>4
<1>6. /\ \A m \in K : m \in live /\ m \in live' /\ m \notin M /\ parent'[m] = parent[m]
      /\ \A m \in live' : m \notin M => m \in K
  BY <1>2, <1>3 DEF Types
<1>7. Lists'
  BY <1>3, <1>5, <1>6 DEF Places, Lists
<1>8. Holders'
  BY <1>M, <1>3, <1>4, <1>5, <1>6 DEF Places, Holders
<1>9. Stores'
  <2> SUFFICES ASSUME NEW v \in Writers
               PROVE  /\ removed'[v] # {} => wpc'[v] = "alloc"
                      /\ added'[v] # << >> => wpc'[v] = "add"
                      /\ wpc'[v] \in {"alloc", "add"} => cache[v] \in Caches
                      /\ IsInjective(added'[v])
                      /\ \A m \in removed'[v] :
                             /\ m \in live' /\ parent'[m] = cache[v]
                             /\ \A k \in Caches : m \notin Range(list[k])
                             /\ \A u \in Writers : m \in removed'[u] => u = v
                      /\ \A m \in Range(added'[v]) :
                             /\ m \in live' /\ parent'[m] = 0
                             /\ \A u \in Writers : m \in Range(added'[u]) => u = v
    BY <1>3 DEF Stores
  <2>1. CASE v = w
    <3>1. \A m \in M, u \in Writers : u # w => m \notin Range(added'[u])
      BY <1>4, <1>5, <1>6
    <3> QED BY <1>1, <1>M, <1>3, <1>4, <1>5, <2>1, <3>1
  <2>2. CASE v # w
    <3>1. /\ removed'[v] # {} => wpc'[v] = "alloc"
          /\ added'[v] # << >> => wpc'[v] = "add"
          /\ wpc'[v] \in {"alloc", "add"} => cache[v] \in Caches
          /\ IsInjective(added'[v])
      BY <1>4, <2>2 DEF Places, Stores
    <3>2. \A m \in removed'[v] :
              /\ m \in live' /\ parent'[m] = cache[v]
              /\ \A k \in Caches : m \notin Range(list[k])
              /\ \A u \in Writers : m \in removed'[u] => u = v
      BY <1>4, <1>5, <1>6, <2>2 DEF Places, Stores
    <3>3. \A m \in Range(added'[v]) :
              /\ m \in live' /\ parent'[m] = 0
              /\ \A u \in Writers : m \in Range(added'[u]) => u = v
      <4> SUFFICES ASSUME NEW m \in Range(added[v])
                   PROVE  /\ m \in live' /\ parent'[m] = 0
                          /\ \A u \in Writers : m \in Range(added'[u]) => u = v
        BY <1>4, <2>2
      <4>1. m \in K /\ m \in live' /\ m \notin M /\ parent'[m] = 0
        BY <1>5, <1>6, <2>2 DEF Places, Stores
      <4>2. \A u \in Writers : m \in Range(added[u]) => u = v
        BY DEF Places, Stores
      <4> QED BY <1>M, <1>4, <4>1, <4>2
    <3> QED BY <3>1, <3>2, <3>3
  <2> QED BY <2>1, <2>2
<1>10. Covered'
  <2>1. ASSUME NEW x \in live'
        PROVE  \/ \E j \in Caches : x \in Range(list[j])
               \/ \E d \in Cmds : Holds(d, x)
               \/ \E v \in Writers : x \in removed'[v] \cup Range(added'[v])
    <3>1. CASE x \in M
      BY <1>M, <1>4, <3>1
    <3>2. CASE x \notin M
      <4>1. x \in K /\ x \in live /\ x \notin removed[w]
        BY <1>K, <1>6, <3>2
      <4>2. x \notin Range(added[w])
        BY <1>4 DEF Range
      <4>3. \/ \E j \in Caches : x \in Range(list[j])
            \/ \E d \in Cmds : Holds(d, x)
            \/ \E v \in Writers : v # w /\ x \in removed[v] \cup Range(added[v])
        BY <4>1, <4>2 DEF Places, Covered
      <4> QED BY <1>4, <4>3
    <3> QED BY <3>1, <3>2
  <2> QED BY <1>3, <2>1 DEF Covered, Holds
<1>11. IsFiniteSet(live)'
  <2>1. IsFiniteSet(M)
    BY <1>1, <1>2, <1>M, Counted
  <2>2. IsFiniteSet(K)
    BY <1>K, FS_Difference DEF Places
  <2>3. IsFiniteSet(K \cup M)
    BY <2>1, <2>2, FS_Union
  <2> QED BY <1>3, <2>3
<1>12. Accounts'
  <2>1. ASSUME NEW k \in Caches PROVE Mine(k)' = Mine(k)
    <3>0. k # 0
      BY CacheSize
    <3>1. ASSUME NEW x \in Mine(k) PROVE x \in Mine(k)'
      <4>1. x \in K /\ \A v \in Writers : x \notin removed'[v]
        BY <1>K, <1>4 DEF Mine
      <4> QED BY <1>6, <4>1 DEF Mine
    <3>2. ASSUME NEW x \in Mine(k)' PROVE x \in Mine(k)
      <4>1. x \in live' /\ parent'[x] = k /\ \A v \in Writers : x \notin removed'[v]
        BY DEF Mine
      <4>2. x \in K
        BY <1>3, <1>6, <3>0, <4>1
      <4> QED BY <1>K, <1>4, <1>6, <4>1, <4>2 DEF Mine
    <3> QED BY <3>1, <3>2
  <2>2. Accounts' <=> (up' => \A k \in Caches :
                          num_ent'[k] = missing'[k] + Cardinality(Mine(k)'))
    BY DEF Accounts, Mine
  <2> QED BY <1>3, <2>1, <2>2, Balance DEF Places
<1> QED BY <1>7, <1>8, <1>9, <1>10, <1>11, <1>12 DEF Places

(* num_ent_store() adds messages to a list.                                *)
LEMMA AddPlaces ==
    ASSUME Types, Places, NEW w \in Writers, StoreAdd(w)
    PROVE  Places'
<1>k. PICK k, t, A : k = cache[w] /\ t = added[w] /\ A = Range(added[w])
  OBVIOUS
<1>s. PICK s : s = list[k] \o Reverse(t)
  OBVIOUS
<1>0. /\ k \in Caches /\ k # 0 /\ t \in Seq(Msgs) /\ IsInjective(t) /\ A \subseteq Msgs
      /\ A = Range(t) /\ list[k] \in Seq(Msgs) /\ IsInjective(list[k]) /\ wpc[w] = "add"
      /\ removed[w] = {} /\ Len(t) \in Nat
  <2>1. wpc[w] = "add"
    BY DEF StoreAdd
  <2>2. k \in Caches /\ IsInjective(t) /\ removed[w] = {}
    BY <1>k, <2>1 DEF Places, Stores
  <2>3. t \in Seq(Msgs) /\ list[k] \in Seq(Msgs)
    BY <1>k, <2>2 DEF Types
  <2>4. IsInjective(list[k])
    BY <2>2 DEF Places, Lists
  <2>5. A \subseteq Msgs /\ Len(t) \in Nat
    BY <1>k, <2>3 DEF Range
  <2> QED BY <1>k, <2>1, <2>2, <2>3, <2>4, <2>5, CacheSize
<1>1. /\ \A m \in A : m \in live /\ parent[m] = 0
      /\ \A m \in A, j \in Caches : m \notin Range(list[j])
      /\ \A m \in A, v \in Writers : /\ m \notin removed[v]
                                     /\ v # w => m \notin Range(added[v])
      /\ \A m \in A, d \in Cmds : pc[d] \in Holding => inb[d] # m
  <2>1. \A m \in A : m \in live /\ parent[m] = 0
    BY <1>k DEF Places, Stores
  <2>2. \A m \in A, j \in Caches : m \notin Range(list[j])
    BY <2>1, CacheSize DEF Places, Lists
  <2>3. \A m \in A, v \in Writers : v # w => m \notin Range(added[v])
    BY <1>k DEF Places, Stores
  <2>4. ASSUME NEW m \in A, NEW v \in Writers, m \in removed[v] PROVE FALSE
    <3>1. cache[v] \in Caches /\ parent[m] = cache[v]
      BY <2>4 DEF Places, Stores
    <3> QED BY <2>1, <3>1, CacheSize
  <2>5. \A m \in A, d \in Cmds : pc[d] \in Holding => inb[d] # m
    BY <1>k DEF Places, Holders
  <2> QED BY <2>1, <2>2, <2>3, <2>4, <2>5
<1>2. /\ s \in Seq(Msgs) /\ Len(s) = Len(list[k]) + Len(t) /\ IsInjective(s)
      /\ Range(s) = Range(list[k]) \cup A
  <2>1. Range(list[k]) \cap Range(t) = {}
    BY <1>0, <1>1
  <2> QED BY <1>0, <1>s, <2>1, Joined
<1>3. /\ list' = [list EXCEPT ![k] = s] /\ num_ent' = [num_ent EXCEPT ![k] = num_ent[k] + Len(t)]
      /\ free' = [free EXCEPT ![k] = free[k] + Len(t)]
      /\ parent' = [m \in Msgs |-> IF m \in A THEN k ELSE parent[m]]
      /\ added' = [added EXCEPT ![w] = << >>] /\ wpc' = [wpc EXCEPT ![w] = "done"]
      /\ cache' = [cache EXCEPT ![w] = 1]
      /\ UNCHANGED <<missing, live, pc, inb, removed, up>>
  BY <1>k, <1>s DEF StoreAdd
<1>4. /\ list'[k] = s /\ \A j \in Caches : j # k => list'[j] = list[j]
      /\ free'[k] = free[k] + Len(t) /\ \A j \in Caches : j # k => free'[j] = free[j]
      /\ num_ent'[k] = num_ent[k] + Len(t)
      /\ \A j \in Caches : j # k => num_ent'[j] = num_ent[j]
  BY <1>0, <1>3 DEF Types
<1>5. /\ Range(added'[w]) = {} /\ added'[w] = << >> /\ wpc'[w] = "done"
      /\ \A v \in Writers : v # w => /\ added'[v] = added[v] /\ wpc'[v] = wpc[v]
                                      /\ cache'[v] = cache[v]
      /\ UNCHANGED <<live, pc, inb, removed>>
      /\ \A m \in Msgs : parent'[m] = IF m \in A THEN k ELSE parent[m]
  BY <1>3 DEF Types, Range
<1>6. /\ Range(list'[k]) = Range(list[k]) \cup A
      /\ \A j \in Caches : j # k => Range(list'[j]) = Range(list[j])
  BY <1>2, <1>4
<1>7. Lists'
  <2> SUFFICES ASSUME NEW j \in Caches
               PROVE  /\ free'[j] = Len(list'[j]) /\ IsInjective(list'[j])
                      /\ \A m \in Range(list'[j]) : m \in live /\ parent'[m] = j
    BY <1>5 DEF Lists
  <2>1. free'[j] = Len(list'[j]) /\ IsInjective(list'[j])
    BY <1>0, <1>2, <1>4 DEF Places, Lists, Types
  <2>2. ASSUME NEW m \in Range(list'[j]) PROVE m \in live /\ parent'[m] = j
    <3>1. CASE m \in A
      <4>1. j = k
        BY <1>1, <1>6, <3>1
      <4> QED BY <1>0, <1>1, <1>5, <3>1, <4>1
    <3>2. CASE m \notin A
      <4>1. m \in Range(list[j])
        BY <1>6, <3>2
      <4>2. m \in live /\ parent[m] = j
        BY <4>1 DEF Places, Lists
      <4> QED BY <1>5, <3>2, <4>2 DEF Types
    <3> QED BY <3>1, <3>2
  <2> QED BY <2>1, <2>2
<1>8. Holders'
  <2>1. \A d \in Cmds : pc[d] \in Holding => inb[d] \notin A
    BY <1>1
  <2> QED BY <1>5, <1>6, <2>1 DEF Places, Holders
<1>9. Stores'
  <2> SUFFICES ASSUME NEW v \in Writers
               PROVE  /\ removed[v] # {} => wpc'[v] = "alloc"
                      /\ added'[v] # << >> => wpc'[v] = "add"
                      /\ wpc'[v] \in {"alloc", "add"} => cache'[v] \in Caches
                      /\ IsInjective(added'[v])
                      /\ \A m \in removed[v] :
                             /\ m \in live /\ parent'[m] = cache'[v]
                             /\ \A j \in Caches : m \notin Range(list'[j])
                             /\ \A u \in Writers : m \in removed[u] => u = v
                      /\ \A m \in Range(added'[v]) :
                             /\ m \in live /\ parent'[m] = 0
                             /\ \A u \in Writers : m \in Range(added'[u]) => u = v
    BY <1>5 DEF Stores
  <2>1. /\ removed[v] # {} => wpc'[v] = "alloc"
        /\ added'[v] # << >> => wpc'[v] = "add"
        /\ wpc'[v] \in {"alloc", "add"} => cache'[v] \in Caches
        /\ IsInjective(added'[v])
    <3>1. IsInjective(<< >>)
      BY DEF IsInjective
    <3> QED BY <1>0, <1>5, <3>1 DEF Places, Stores
  <2>2. ASSUME NEW m \in removed[v]
        PROVE  /\ m \in live /\ parent'[m] = cache'[v]
               /\ \A j \in Caches : m \notin Range(list'[j])
               /\ \A u \in Writers : m \in removed[u] => u = v
    <3>1. m \notin A /\ m \in Msgs /\ v # w
      BY <1>0, <1>1 DEF Types
    <3>2. /\ m \in live /\ parent[m] = cache[v]
          /\ \A j \in Caches : m \notin Range(list[j])
          /\ \A u \in Writers : m \in removed[u] => u = v
      BY DEF Places, Stores
    <3> QED BY <1>5, <1>6, <3>1, <3>2
  <2>3. ASSUME NEW m \in Range(added'[v])
        PROVE  /\ m \in live /\ parent'[m] = 0
               /\ \A u \in Writers : m \in Range(added'[u]) => u = v
    <3>1. v # w /\ m \in Range(added[v])
      BY <1>5
    <3>2. m \notin A
      BY <1>1, <3>1
    <3>3. /\ m \in live /\ parent[m] = 0
          /\ \A u \in Writers : m \in Range(added[u]) => u = v
      BY <3>1 DEF Places, Stores
    <3> QED BY <1>5, <3>2, <3>3 DEF Types
  <2> QED BY <2>1, <2>2, <2>3
<1>10. Covered'
  <2>1. ASSUME NEW x \in live
        PROVE  \/ \E j \in Caches : x \in Range(list'[j])
               \/ \E d \in Cmds : Holds(d, x)
               \/ \E v \in Writers : x \in removed[v] \cup Range(added'[v])
    <3>1. CASE x \in A
      BY <1>0, <1>6, <3>1
    <3>2. CASE x \notin A
      <4>1. \/ \E j \in Caches : x \in Range(list[j])
            \/ \E d \in Cmds : Holds(d, x)
            \/ \E v \in Writers : x \in removed[v] \cup Range(added[v])
        BY DEF Places, Covered
      <4> QED BY <1>k, <1>5, <1>6, <3>2, <4>1
    <3> QED BY <3>1, <3>2
  <2> QED BY <1>5, <2>1 DEF Covered, Holds
<1>12. Accounts'
  <2>1. Mine(k)' = Mine(k) \cup A /\ Mine(k) \cap A = {}
    BY <1>0, <1>1, <1>5 DEF Mine, Types
  <2>2. \A j \in Caches : j # k => Mine(j)' = Mine(j)
    <3> SUFFICES ASSUME NEW j \in Caches, j # k PROVE Mine(j)' = Mine(j)
      OBVIOUS
    <3>1. j # 0
      BY CacheSize
    <3> QED BY <1>1, <1>5, <3>1 DEF Mine, Types
  <2>3. IsFiniteSet(Mine(k)) /\ Cardinality(Mine(k)) \in Nat
    <3>1. Mine(k) \in SUBSET live
      BY DEF Mine
    <3> QED BY <3>1, FS_Subset, FS_CardinalityType DEF Places
  <2>4. Cardinality(Mine(k)') = Cardinality(Mine(k)) + Len(t)
    <3>1. IsFiniteSet(A) /\ Cardinality(A) = Len(t)
      BY <1>0, Counted
    <3>2. Cardinality(Mine(k) \cup A)
             = Cardinality(Mine(k)) + Cardinality(A) - Cardinality(Mine(k) \cap A)
      BY <2>3, <3>1, FS_Union
    <3>3. Cardinality(Mine(k) \cap A) = 0
      BY <2>1, FS_EmptySet
    <3> QED BY <1>0, <2>1, <2>3, <3>1, <3>2, <3>3
  <2>5. Accounts' <=> (up' => \A j \in Caches :
                          num_ent'[j] = missing'[j] + Cardinality(Mine(j)'))
    BY DEF Accounts, Mine
  <2>6. SUFFICES ASSUME up PROVE \A j \in Caches :
                                    num_ent'[j] = missing[j] + Cardinality(Mine(j)')
    BY <1>3, <2>5
  <2>7. \A j \in Caches : num_ent[j] = missing[j] + Cardinality(Mine(j))
    BY <2>6, Balance DEF Places
  <2>8. num_ent'[k] = missing[k] + Cardinality(Mine(k)')
    <3>1. missing[k] \in Int /\ num_ent[k] \in Int
      BY <1>0 DEF Types
    <3> QED BY <1>0, <1>4, <2>3, <2>4, <2>7, <3>1
  <2> QED BY <1>4, <2>2, <2>7, <2>8
<1> QED BY <1>5, <1>7, <1>8, <1>9, <1>10, <1>12 DEF Places

(* destroy_msg_cache() empties the lists, and nothing else is left but the *)
(* messages of failed calls with a callback.                               *)
LEMMA DisablePlaces ==
    ASSUME Types, Places, Disable
    PROVE  Places' /\ AllFreed' /\ Down'
<1> DEFINE L == UNION {Range(list[k]) : k \in Caches}
<1>1. /\ up' = FALSE /\ live' = live \ L
      /\ \A c \in Cmds : pc[c] \in {"done", "lost"}
      /\ \A w \in Writers : wpc[w] = "done"
      /\ list' = [k \in Caches |-> << >>] /\ free' = [k \in Caches |-> free[k] - Len(list[k])]
      /\ UNCHANGED <<parent, pc, inb, wpc, cache, removed, added>>
  BY DEF Disable
<1>2. /\ \A w \in Writers : removed[w] = {} /\ added[w] = << >> /\ Range(added[w]) = {}
      /\ \A c \in Cmds : pc[c] \in Holding => pc[c] = "lost"
      /\ \A c \in Cmds : pc[c] = "lost" => pc[c] \in Holding
  <2>1. \A w \in Writers : removed[w] = {} /\ added[w] = << >>
    BY <1>1 DEF Places, Stores
  <2> QED BY <1>1, <2>1 DEF Holding, Range
<1>3. /\ \A k \in Caches : Range(list'[k]) = {} /\ list'[k] = << >> /\ Len(list'[k]) = 0
      /\ \A k \in Caches : free'[k] = 0
  BY <1>1 DEF Places, Lists, Range, Types
<1>4. \A x : x \in L <=> \E k \in Caches : x \in Range(list[k])
  OBVIOUS
<1> HIDE DEF L
<1>5. Lists'
  BY <1>3 DEF Lists, IsInjective
<1>6. Holders'
  BY <1>1, <1>2, <1>3, <1>4 DEF Places, Holders
<1>7. Stores'
  BY <1>1, <1>2, <1>3 DEF Places, Stores
<1>8. \A x \in live' : \E c \in Cmds : Holds(c, x)
  BY <1>1, <1>2, <1>4 DEF Places, Covered
<1>9. Covered'
  BY <1>1, <1>8 DEF Covered, Holds
<1>10. IsFiniteSet(live)'
  BY <1>1, FS_Difference DEF Places
<1>11. AllFreed'
  <2>1. \A x \in live' : x \in {inb[c] : c \in {c \in Cmds : pc[c] = "lost"}}
    BY <1>2, <1>8 DEF Holds
  <2>2. ASSUME NEW c \in Cmds, pc[c] = "lost" PROVE inb[c] \in live'
    BY <1>1, <1>2, <1>4, <2>2 DEF Places, Holders
  <2> QED BY <1>1, <2>1, <2>2 DEF AllFreed
<1>12. Accounts' /\ Down'
  BY <1>1 DEF Accounts, Down
<1> QED BY <1>5, <1>6, <1>7, <1>9, <1>10, <1>11, <1>12 DEF Places

(* The steps that move no message.                                         *)
Calm(c) == \/ AllocStart(c) \/ alloc_token(c) \/ Copy(c) \/ Invoke(c)
           \/ Completed(c) \/ TimedOut(c) \/ FreeOut(c) \/ FwRead(c)
           \/ AllocTry(c) /\ ~Suits(c, idx[c])
           \/ AllocMiss(c) /\ UNCHANGED <<msgVars, inb>> /\ Goto(c, "done")

(* What they leave alone.                                                  *)
LEMMA CalmEffect ==
    ASSUME Types, NEW c \in Cmds, Calm(c)
    PROVE  /\ UNCHANGED <<list, free, num_ent, missing, live, parent, inb, wpc, cache,
                          removed, added, up>>
           /\ \A d \in Cmds : pc'[d] \in Holding <=> pc[d] \in Holding
           /\ \A d \in Cmds : pc[d] \in Holding => size'[d] = size[d]
           /\ \A d \in Cmds : d # c => pc'[d] = pc[d]
           /\ Copy(c) \/ UNCHANGED blk
<1> USE DEF Goto, cacheVars, msgVars, fwVars, storeVars, localVars, tokenVars, Holding
<1>1. CASE AllocStart(c)
  BY <1>1 DEF AllocStart, Types
<1>2. CASE alloc_token(c)
  BY <1>2 DEF alloc_token, Types
<1>3. CASE Copy(c)
  BY <1>3 DEF Copy, Types
<1>4. CASE Invoke(c)
  BY <1>4 DEF Invoke, Types
<1>5. CASE Completed(c) \/ TimedOut(c) \/ FreeOut(c)
  BY <1>5 DEF Completed, TimedOut, FreeOut, Types
<1>6. CASE FwRead(c)
  BY <1>6 DEF FwRead, Types
<1>7. CASE AllocTry(c) /\ ~Suits(c, idx[c])
  BY <1>7 DEF AllocTry, Types
<1>8. CASE AllocMiss(c) /\ UNCHANGED <<msgVars, inb>> /\ Goto(c, "done")
  BY <1>8 DEF AllocMiss, Types
<1> QED BY <1>1, <1>2, <1>3, <1>4, <1>5, <1>6, <1>7, <1>8 DEF Calm

(* A command allocates a message of its own.                               *)
Allocates(c, m) == /\ AllocMiss(c) /\ Fresh({m}, size[c], live)
                   /\ inb' = [inb EXCEPT ![c] = m] /\ Goto(c, "token")

(* The steps, sorted by what they move.                                    *)
LEMMA Steps ==
    ASSUME [Next]_vars
    PROVE  \/ UNCHANGED vars
           \/ \E c \in Cmds : \/ Calm(c)
                              \/ AllocTry(c) /\ Suits(c, idx[c])
                              \/ \E m \in Msgs \ live : Allocates(c, m)
                              \/ FreeIn(c)
           \/ \E w \in Writers : StoreRemove(w) \/ StoreAlloc(w) \/ StoreAdd(w)
           \/ SmallCmd
           \/ Disable
<1>1. ASSUME NEW c \in Cmds, AllocMiss(c)
      PROVE  Calm(c) \/ \E m \in Msgs \ live : Allocates(c, m)
  BY <1>1 DEF AllocMiss, Calm, Allocates
<1>2. ASSUME NEW c \in Cmds, AllocTry(c)
      PROVE  Calm(c) \/ Suits(c, idx[c])
  BY <1>2 DEF Calm
<1>3. ASSUME NEW c \in Cmds,
             \/ AllocStart(c) \/ alloc_token(c) \/ Copy(c) \/ Invoke(c)
             \/ Completed(c) \/ TimedOut(c) \/ FreeOut(c) \/ FwRead(c)
      PROVE  Calm(c)
  BY <1>3 DEF Calm
<1> QED BY <1>1, <1>2, <1>3 DEF Next

(* Types and places over all steps.                                        *)
LEMMA PlacesStep ==
    ASSUME Types, Places, [Next]_vars
    PROVE  Types' /\ Places'
<1>1. CASE UNCHANGED vars
  <2>1. Types'
    BY <1>1 DEF vars, Types
  <2>2. Places'
    BY <1>1, QuietPlaces DEF vars
  <2> QED BY <2>1, <2>2
<1>2. ASSUME NEW c \in Cmds, Calm(c) PROVE Types' /\ Places'
  <2>1. Types'
    BY <1>2, CmdTypes DEF Calm, Places
  <2>2. Places'
    BY <1>2, CalmEffect, QuietPlaces
  <2> QED BY <2>1, <2>2
<1>3. ASSUME NEW c \in Cmds, AllocTry(c) /\ Suits(c, idx[c]) PROVE Types' /\ Places'
  BY <1>3, CmdTypes, TakePlaces DEF Places
<1>4. ASSUME NEW c \in Cmds, NEW m \in Msgs \ live, Allocates(c, m)
      PROVE  Types' /\ Places'
  BY <1>4, CmdTypes, MissPlaces DEF Allocates, Places
<1>5. ASSUME NEW c \in Cmds, FreeIn(c) PROVE Types' /\ Places'
  BY <1>5, CmdTypes, FreePlaces DEF Places
<1>6. ASSUME NEW w \in Writers, StoreRemove(w) \/ StoreAlloc(w) \/ StoreAdd(w)
      PROVE  Types' /\ Places'
  <2>1. Types'
    BY <1>6, StoreTypes DEF Places
  <2> QED BY <1>6, <2>1, RemovePlaces, AllocPlaces, AddPlaces
<1>7. CASE Disable
  BY <1>7, DisableTypes, DisablePlaces
<1>8. CASE SmallCmd
  <2>1. Types'
    BY <1>8 DEF SmallCmd, Types, cacheVars, msgVars, fwVars, storeVars, localVars
  <2>2. Places'
    BY <1>8, QuietPlaces DEF SmallCmd, cacheVars, msgVars, fwVars, storeVars
  <2> QED BY <2>1, <2>2
<1> QED BY <1>1, <1>2, <1>3, <1>4, <1>5, <1>6, <1>7, <1>8, Steps

-----------------------------------------------------------------------------
(* The chains.                                                             *)

(* A step after which no chain is shorter and no message is new.           *)
LEMMA SizesKept ==
    ASSUME Types, Holders, Sizes, \A m \in Msgs : Len(blk'[m]) = Len(blk[m]),
           UNCHANGED <<parent, added, cache>>, live' \subseteq live,
           \A c \in Cmds : pc'[c] \in Holding =>
               pc[c] \in Holding /\ inb'[c] = inb[c] /\ size'[c] = size[c]
    PROVE  Sizes'
<1>1. \A m \in live' : parent'[m] # 0 =>
         Len(blk'[m]) = mlx5_calc_cmd_blocks(max_inbox_size(parent'[m]))
  BY DEF Sizes, Types
<1>2. \A w \in Writers : \A m \in Range(added'[w]) :
         Len(blk'[m]) = mlx5_calc_cmd_blocks(max_inbox_size(cache'[w]))
  <2>1. \A w \in Writers : Range(added[w]) \subseteq Msgs
    BY DEF Types, Range
  <2> QED BY <2>1 DEF Sizes
<1>3. \A c \in Cmds : pc'[c] \in Holding => Filled(size'[c]) <= Len(blk'[inb'[c]])
  BY DEF Sizes, Holders, Types, Fits
<1> QED BY <1>1, <1>2, <1>3 DEF Sizes, Fits

(* The copying changes no length.                                          *)
LEMMA CopyLen ==
    ASSUME Types, Holders, NEW c \in Cmds, Copy(c)
    PROVE  /\ inb[c] \in Msgs /\ pc[c] = "copy"
           /\ \A m \in Msgs : Len(blk'[m]) = Len(blk[m])
           /\ \A m \in Msgs : m # inb[c] => blk'[m] = blk[m]
           /\ DOMAIN blk'[inb[c]] = DOMAIN blk[inb[c]]
           /\ \A i \in DOMAIN blk[inb[c]] : i <= Filled(size[c]) => blk'[inb[c]][i] = c
<1>m. PICK m : m = inb[c]
  OBVIOUS
<1>s. PICK s : s = [i \in DOMAIN blk[m] |-> IF i <= Filled(size[c]) THEN c ELSE blk[m][i]]
  OBVIOUS
<1>1. m \in Msgs /\ pc[c] = "copy"
  BY <1>m DEF Copy, Holders, Types, Holding
<1>2. blk' = [blk EXCEPT ![m] = s]
  BY <1>m, <1>s DEF Copy, mlx5_copy_to_msg
<1>3. blk[m] \in Seq(Cmds \cup {NoCmd})
  BY <1>1 DEF Types
<1>4. Len(s) = Len(blk[m]) /\ DOMAIN s = DOMAIN blk[m]
  BY <1>3, <1>s
<1>5. blk'[m] = s /\ \A x \in Msgs : x # m => blk'[x] = blk[x]
  BY <1>1, <1>2 DEF Types
<1> QED BY <1>m, <1>s, <1>1, <1>4, <1>5

(* A chain is sized when it is allocated, for a cache or for a command,    *)
(* and a cache's chain only goes to a command that it is large enough for. *)
LEMMA SizesStep ==
    ASSUME Types, Places, Sizes, [Next]_vars
    PROVE  Sizes'
<1>0. Holders /\ Stores /\ Lists
  BY DEF Places
<1>1. CASE UNCHANGED vars
  BY <1>1 DEF vars, Sizes, Fits
<1>2. ASSUME NEW c \in Cmds, Calm(c) PROVE Sizes'
  <2>1. \A m \in Msgs : Len(blk'[m]) = Len(blk[m])
    BY <1>0, <1>2, CalmEffect, CopyLen
  <2> QED BY <1>0, <1>2, <2>1, CalmEffect, SizesKept
<1>3. ASSUME NEW c \in Cmds, AllocTry(c) /\ Suits(c, idx[c]) PROVE Sizes'
  <2>k. PICK k, m : k = idx[c] /\ m = Head(list[idx[c]])
    OBVIOUS
  <2>1. k \in Caches /\ size[c] <= max_inbox_size(k) /\ size[c] \in Nat /\ m \in Range(list[k])
    <3>1. k \in Caches /\ size[c] <= max_inbox_size(k) /\ list[k] # << >>
      BY <1>3, <2>k DEF AllocTry, Suits
    <3>2. list[k] \in Seq(Msgs) /\ IsInjective(list[k])
      BY <1>0, <3>1 DEF Types, Lists
    <3> QED BY <2>k, <3>1, <3>2, Taken DEF Types
  <2>2. m \in live /\ parent[m] = k
    BY <1>0, <2>1 DEF Lists
  <2>3. Filled(size[c]) <= Len(blk[m])
    BY <2>1, <2>2, CacheSize, Room DEF Sizes
  <2>4. /\ UNCHANGED <<live, parent, blk, added, cache, size>>
        /\ inb'[c] = m /\ \A d \in Cmds : d # c => pc'[d] = pc[d] /\ inb'[d] = inb[d]
    BY <1>3, <2>k DEF AllocTry, Goto, msgVars, storeVars, Types
  <2> QED BY <2>3, <2>4 DEF Sizes, Fits
<1>4. ASSUME NEW c \in Cmds, NEW m \in Msgs \ live, Allocates(c, m) PROVE Sizes'
  <2>0. size[c] \in Nat /\ {m} \in SUBSET Msgs /\ live \in SUBSET Msgs
    BY DEF Types
  <2>1. /\ live' = live \cup {m} /\ parent'[m] = 0
        /\ Len(blk'[m]) = mlx5_calc_cmd_blocks(size[c])
        /\ \A x \in Msgs : x # m => parent'[x] = parent[x] /\ blk'[x] = blk[x]
    <3>1. Fresh({m}, size[c], live)
      BY <1>4 DEF Allocates
    <3>2. live' = live \cup {m}
      BY <3>1 DEF Fresh
    <3> QED BY <2>0, <3>1, <3>2, FreshTypes
  <2>2. /\ UNCHANGED <<added, cache, size>>
        /\ inb'[c] = m /\ \A d \in Cmds : d # c => pc'[d] = pc[d] /\ inb'[d] = inb[d]
    BY <1>4 DEF Allocates, AllocMiss, Goto, localVars, storeVars, Types
  <2>3. Filled(size[c]) <= Len(blk'[m])
    <3>1. size[c] <= size[c]
      BY <2>0
    <3>2. Filled(size[c]) <= mlx5_calc_cmd_blocks(size[c])
      BY <2>0, <3>1, Room
    <3> QED BY <2>1, <3>2
  <2>4. \A w \in Writers : \A x \in Range(added[w]) : x \in live
    BY <1>0 DEF Stores
  <2>5. \A x \in live : x # m /\ x \in Msgs
    BY <2>0
  <2>6. \A d \in Cmds : pc[d] \in Holding => inb[d] \in live
    BY <1>0 DEF Holders
  <2>7. \A d \in Cmds : pc'[d] \in Holding => Filled(size[d]) <= Len(blk'[inb'[d]])
    BY <2>1, <2>2, <2>3, <2>5, <2>6 DEF Sizes, Fits
  <2>8. \A x \in live' : parent'[x] # 0 =>
           Len(blk'[x]) = mlx5_calc_cmd_blocks(max_inbox_size(parent'[x]))
    BY <2>1, <2>5 DEF Sizes
  <2>9. \A w \in Writers : \A x \in Range(added[w]) :
           Len(blk'[x]) = mlx5_calc_cmd_blocks(max_inbox_size(cache[w]))
    BY <2>1, <2>4, <2>5 DEF Sizes
  <2> QED BY <2>2, <2>7, <2>8, <2>9 DEF Sizes, Fits
<1>5. ASSUME NEW c \in Cmds, FreeIn(c) PROVE Sizes'
  <2>1. /\ UNCHANGED <<parent, blk, added, cache, inb, size>> /\ live' \subseteq live
        /\ \A d \in Cmds : pc'[d] \in Holding => pc[d] \in Holding
    BY <1>5 DEF FreeIn, free_msg, Goto, localVars, storeVars, Types, Holding
  <2> QED BY <1>0, <2>1, SizesKept
<1>6. ASSUME NEW w \in Writers, StoreRemove(w) PROVE Sizes'
  <2>1. PICK k \in Caches, r \in Nat, more \in Nat : Removes(w, k, r, more)
    BY <1>6, RemoveEffect
  <2>2. /\ UNCHANGED <<live, parent, blk, added, inb, size, pc>> /\ wpc[w] = "idle"
        /\ \A v \in Writers : v # w => cache'[v] = cache[v]
    BY <1>6, <2>1 DEF StoreRemove, Removes, msgVars, localVars, Types
  <2>3. Range(added[w]) = {}
    <3>1. added[w] = << >>
      BY <1>0, <2>2 DEF Stores
    <3> QED BY <3>1 DEF Range
  <2> QED BY <2>2, <2>3 DEF Sizes, Fits
<1>7. ASSUME NEW w \in Writers, StoreAlloc(w) PROVE Sizes'
  <2>1. PICK q \in SeqOf(Msgs \ Kept(w), add[w]) :
           /\ added' = [added EXCEPT ![w] = q]
           /\ Fresh(Range(q), max_inbox_size(cache[w]), Kept(w))
    BY <1>7 DEF StoreAlloc, StoreTakes
  <2>2. Range(q) \subseteq Msgs /\ Range(q) \cap Kept(w) = {}
    <3>1. q \in Seq(Msgs \ Kept(w))
      BY SeqOfType DEF Types
    <3> QED BY <3>1 DEF Range
  <2>3. /\ live' = Kept(w) \cup Range(q) /\ Kept(w) \subseteq live
        /\ \A m \in Range(q) : /\ parent'[m] = 0
                                /\ Len(blk'[m]) = mlx5_calc_cmd_blocks(max_inbox_size(cache[w]))
        /\ \A m \in Msgs \ Range(q) : parent'[m] = parent[m] /\ blk'[m] = blk[m]
    <3>1. max_inbox_size(cache[w]) \in Nat /\ Kept(w) \in SUBSET Msgs
      BY <1>0, <1>7, CacheSize DEF StoreAlloc, Stores, Kept, Types
    <3>2. live' = Kept(w) \cup Range(q) /\ Kept(w) \subseteq live
      BY <2>1 DEF Fresh, Kept
    <3> QED BY <2>1, <2>2, <3>1, <3>2, FreshTypes
  <2>4. /\ \A d \in Cmds : pc[d] \in Holding => inb[d] \in Kept(w)
        /\ \A v \in Writers : v # w => \A m \in Range(added[v]) : m \in Kept(w)
    <3>1. \A d \in Cmds : pc[d] \in Holding => inb[d] \in Kept(w)
      BY <1>0 DEF Holders, Kept
    <3>2. cache[w] \in Caches /\ cache[w] # 0
      BY <1>0, <1>7, CacheSize DEF StoreAlloc, Stores
    <3>3. \A m \in removed[w] : parent[m] = cache[w]
      BY <1>0 DEF Stores
    <3>4. \A v \in Writers : \A m \in Range(added[v]) : m \in live /\ parent[m] = 0
      BY <1>0 DEF Stores
    <3> QED BY <3>1, <3>2, <3>3, <3>4 DEF Kept
  <2>5. /\ UNCHANGED <<cache, inb, size, pc>> /\ added'[w] = q
        /\ \A v \in Writers : v # w => added'[v] = added[v]
    BY <1>7, <2>1 DEF StoreAlloc, localVars, Types
  <2>6. \A m \in Kept(w) : m \in live /\ parent'[m] = parent[m] /\ blk'[m] = blk[m]
    BY <2>2, <2>3 DEF Types
  <2>7. \A m \in live' : parent'[m] # 0 =>
           Len(blk'[m]) = mlx5_calc_cmd_blocks(max_inbox_size(parent'[m]))
    BY <2>3, <2>6 DEF Sizes
  <2>8. \A v \in Writers : \A m \in Range(added'[v]) :
           Len(blk'[m]) = mlx5_calc_cmd_blocks(max_inbox_size(cache[v]))
    <3> SUFFICES ASSUME NEW v \in Writers, NEW m \in Range(added'[v])
                 PROVE  Len(blk'[m]) = mlx5_calc_cmd_blocks(max_inbox_size(cache[v]))
      OBVIOUS
    <3>1. CASE v = w
      BY <2>3, <2>5, <3>1
    <3>2. CASE v # w
      <4>1. m \in Range(added[v]) /\ blk'[m] = blk[m]
        BY <2>4, <2>5, <2>6, <3>2
      <4> QED BY <4>1 DEF Sizes
    <3> QED BY <3>1, <3>2
  <2>9. \A d \in Cmds : pc[d] \in Holding => Filled(size[d]) <= Len(blk'[inb[d]])
    BY <2>4, <2>6 DEF Sizes, Fits
  <2> QED BY <2>5, <2>7, <2>8, <2>9 DEF Sizes, Fits
<1>8. ASSUME NEW w \in Writers, StoreAdd(w) PROVE Sizes'
  <2>1. /\ UNCHANGED <<live, blk, inb, size, pc>>
        /\ Range(added'[w]) = {}
        /\ \A v \in Writers : v # w => added'[v] = added[v] /\ cache'[v] = cache[v]
        /\ \A m \in Msgs : parent'[m] =
               IF m \in Range(added[w]) THEN cache[w] ELSE parent[m]
    BY <1>8 DEF StoreAdd, localVars, Types, Range
  <2>2. \A m \in live : parent'[m] # 0 =>
           Len(blk[m]) = mlx5_calc_cmd_blocks(max_inbox_size(parent'[m]))
    <3> SUFFICES ASSUME NEW m \in live, parent'[m] # 0
                 PROVE  Len(blk[m]) = mlx5_calc_cmd_blocks(max_inbox_size(parent'[m]))
      OBVIOUS
    <3>1. m \in Msgs
      BY DEF Types
    <3>2. CASE m \in Range(added[w])
      BY <2>1, <3>1, <3>2 DEF Sizes
    <3>3. CASE m \notin Range(added[w])
      BY <2>1, <3>1, <3>3 DEF Sizes
    <3> QED BY <3>2, <3>3
  <2> QED BY <2>1, <2>2 DEF Sizes, Fits
<1>9. CASE Disable
  <2>1. /\ UNCHANGED <<parent, blk, added, cache, inb, size, pc>> /\ live' \subseteq live
    BY <1>9 DEF Disable, localVars
  <2> QED BY <1>0, <2>1, SizesKept
<1>10. CASE SmallCmd
  <2>1. UNCHANGED <<parent, blk, added, cache, inb, size, pc, live>>
    BY <1>10 DEF SmallCmd, msgVars, localVars, storeVars
  <2> QED BY <1>0, <2>1, SizesKept
<1> QED BY <1>1, <1>2, <1>3, <1>4, <1>5, <1>6, <1>7, <1>8, <1>9, <1>10, Steps

-----------------------------------------------------------------------------
(* Tokens, and what the firmware reads.                                    *)

(* alloc_token() goes on by one, from the last token to the first.         *)
LEMMA TokenNext ==
    ASSUME token \in 0 .. Tokens - 1
    PROVE  NextToken = IF token = Tokens - 1 THEN 1 ELSE token + 1
<1>0. Tokens \in Nat /\ Tokens >= 2
  BY TokenAssumption
<1>1. CASE token = Tokens - 1
  <2>1. (token + 1) % Tokens = 0
    BY <1>0, <1>1
  <2>2. token + 2 = Tokens + 1 /\ (Tokens + 1) % Tokens = 1
    BY <1>0, <1>1
  <2> QED BY <1>1, <2>1, <2>2 DEF NextToken
<1>2. CASE token # Tokens - 1
  <2>1. (token + 1) % Tokens = token + 1 /\ token + 1 # 0
    BY <1>0, <1>2
  <2> QED BY <1>2, <2>1 DEF NextToken
<1> QED BY <1>1, <1>2

(* Where the token of a command is, after one more token is given out.     *)
LEMMA TokenApart ==
    ASSUME Numbered, NEW c \in Cmds, nth[c] # 0, calls + 1 - nth[c] < Tokens - 1
    PROVE  /\ \/ NextToken = tok[c] + (calls + 1 - nth[c])
              \/ NextToken = tok[c] + (calls + 1 - nth[c]) - (Tokens - 1)
           /\ NextToken # tok[c]
<1>1. /\ Tokens \in Nat /\ token \in 0 .. Tokens - 1 /\ calls \in Nat
      /\ nth[c] \in Nat /\ nth[c] <= calls /\ tok[c] \in 1 .. Tokens - 1
  BY TokenAssumption DEF Numbered
<1>2. \/ token = tok[c] + (calls - nth[c])
      \/ token = tok[c] + (calls - nth[c]) - (Tokens - 1)
  BY <1>1 DEF Numbered
<1>3. NextToken = IF token = Tokens - 1 THEN 1 ELSE token + 1
  BY <1>1, TokenNext
<1> QED BY <1>1, <1>2, <1>3

(* Tokens stay apart.                                                      *)
LEMMA NumberedStep ==
    ASSUME Types, Numbered, Sent, [Next]_vars
    PROVE  Numbered'
<1> USE DEF Goto, cacheVars, msgVars, fwVars, storeVars, localVars, tokenVars
<1>1. ASSUME UNCHANGED <<tok, token, calls, nth>>,
             \A c \in Cmds : /\ pc'[c] \in {"idle", "cache", "miss", "token"} =>
                                  pc[c] \in {"idle", "cache", "miss", "token"}
                             /\ pc'[c] \in {"copy", "invoke", "wait"} \/ c \in fw' =>
                                  pc[c] \in {"copy", "invoke", "wait"} \/ c \in fw
      PROVE  Numbered'
  BY <1>1 DEF Numbered
<1>t. /\ Tokens \in Nat /\ Tokens >= 2 /\ token \in 0 .. Tokens - 1 /\ calls \in Nat
      /\ NextToken \in 1 .. Tokens - 1
      /\ \A c \in Cmds : nth[c] \in Nat /\ nth[c] <= calls /\ tok[c] \in 0 .. Tokens - 1
  <2>1. /\ Tokens \in Nat /\ Tokens >= 2 /\ token \in 0 .. Tokens - 1 /\ calls \in Nat
        /\ \A c \in Cmds : nth[c] \in Nat /\ nth[c] <= calls /\ tok[c] \in 0 .. Tokens - 1
    BY TokenAssumption DEF Numbered
  <2> QED BY <2>1, TokenNext
<1>p. \A c \in Cmds : nth[c] # 0 /\ calls + 1 - nth[c] < Tokens - 1 =>
         /\ \/ NextToken = tok[c] + (calls + 1 - nth[c])
            \/ NextToken = tok[c] + (calls + 1 - nth[c]) - (Tokens - 1)
         /\ NextToken # tok[c]
  BY TokenApart
<1>2. ASSUME NEW c \in Cmds, alloc_token(c) PROVE Numbered'
  <2>t. PICK t : t = NextToken
    OBVIOUS
  <2>n. PICK n : n = calls + 1
    OBVIOUS
  <2>2. /\ token' = t /\ tok' = [tok EXCEPT ![c] = t] /\ calls' = n
        /\ nth' = [nth EXCEPT ![c] = n] /\ UNCHANGED fw /\ pc[c] = "token"
        /\ pc'[c] = "copy" /\ \A d \in Cmds : d # c => pc'[d] = pc[d]
    BY <1>2, <2>t, <2>n DEF alloc_token, Types
  <2>3. /\ tok' \in [Cmds -> 0 .. Tokens - 1] /\ tok'[c] = t
        /\ nth' \in [Cmds -> Nat] /\ nth'[c] = n /\ n \in Nat /\ n # 0
        /\ \A d \in Cmds : d # c => tok'[d] = tok[d] /\ nth'[d] = nth[d]
        /\ t \in 1 .. Tokens - 1
    BY <1>t, <2>t, <2>n, <2>2 DEF Numbered
  <2>4. ASSUME NEW d \in Cmds
        PROVE  /\ nth'[d] <= n
               /\ nth'[d] # 0 => tok'[d] # 0
               /\ nth'[d] # 0 /\ n - nth'[d] < Tokens - 1 =>
                      t = tok'[d] + (n - nth'[d]) \/ t = tok'[d] + (n - nth'[d]) - (Tokens - 1)
    <3>1. CASE d = c
      BY <1>t, <2>3, <3>1
    <3>2. CASE d # c
      <4>1. tok'[d] = tok[d] /\ nth'[d] = nth[d] /\ (nth[d] # 0 => tok[d] # 0)
        BY <2>3, <3>2 DEF Numbered
      <4> QED BY <1>t, <1>p, <2>t, <2>n, <4>1
    <3> QED BY <3>1, <3>2
  <2>5. ASSUME NEW b \in Cmds, NEW d \in Cmds,
               nth'[b] # 0, nth'[d] > nth'[b], tok'[d] = tok'[b]
        PROVE  nth'[d] >= nth'[b] + (Tokens - 1)
    <3>1. b # c
      BY <2>3, <2>4, <2>5
    <3>2. tok'[b] = tok[b] /\ nth'[b] = nth[b]
      BY <2>3, <3>1
    <3>3. CASE d = c
      <4>0. nth[b] # 0 /\ t = tok[b]
        BY <2>3, <2>5, <3>2, <3>3
      <4>1. ~(n - nth[b] < Tokens - 1)
        <5>1. SUFFICES ASSUME n - nth[b] < Tokens - 1 PROVE FALSE
          OBVIOUS
        <5>2. calls + 1 - nth[b] < Tokens - 1
          BY <1>t, <2>n, <5>1
        <5>3. NextToken # tok[b]
          BY <4>0, <5>2, TokenApart
        <5> QED BY <2>t, <4>0, <5>3
      <4> QED BY <1>t, <2>3, <3>2, <3>3, <4>1
    <3>4. CASE d # c
      <4>1. tok'[d] = tok[d] /\ nth'[d] = nth[d]
        BY <2>3, <3>4
      <4> QED BY <2>5, <3>2, <4>1 DEF Numbered
    <3> QED BY <3>3, <3>4
  <2>6. ASSUME NEW d \in Cmds
        PROVE  /\ pc'[d] \in {"idle", "cache", "miss", "token"} => nth'[d] = 0
               /\ pc'[d] \in {"copy", "invoke", "wait"} \/ d \in fw' => nth'[d] # 0
    BY <2>2, <2>3 DEF Numbered
  <2>7. token' \in 0 .. Tokens - 1 /\ calls' \in Nat
    BY <1>t, <2>2, <2>3
  <2> QED BY <2>2, <2>3, <2>4, <2>5, <2>6, <2>7 DEF Numbered
<1>10. CASE SmallCmd
  <2>t. PICK t : t = NextToken
    OBVIOUS
  <2>n. PICK n : n = calls + 1
    OBVIOUS
  <2>2. token' = t /\ calls' = n /\ UNCHANGED <<tok, nth, pc, fw>>
    BY <1>10, <2>t, <2>n DEF SmallCmd
  <2>3. t \in 0 .. Tokens - 1 /\ n \in Nat
    BY <1>t, <2>t, <2>n
  <2>4. ASSUME NEW d \in Cmds
        PROVE  /\ nth[d] <= n
               /\ nth[d] # 0 /\ n - nth[d] < Tokens - 1 =>
                      t = tok[d] + (n - nth[d]) \/ t = tok[d] + (n - nth[d]) - (Tokens - 1)
    BY <1>t, <1>p, <2>t, <2>n
  <2> QED BY <2>2, <2>3, <2>4 DEF Numbered
<1>3. CASE UNCHANGED vars
  BY <1>1, <1>3 DEF vars
<1>4. ASSUME NEW c \in Cmds, AllocStart(c) \/ AllocTry(c) \/ AllocMiss(c) PROVE Numbered'
  <2>1. /\ UNCHANGED <<tok, token, calls, nth, fw>> /\ pc[c] \in {"idle", "cache", "miss"}
        /\ pc'[c] \notin {"copy", "invoke", "wait"}
        /\ \A d \in Cmds : d # c => pc'[d] = pc[d]
    BY <1>4 DEF AllocStart, AllocTry, AllocMiss, Types
  <2> QED BY <1>1, <2>1
<1>5. ASSUME NEW c \in Cmds, Copy(c) \/ Invoke(c) PROVE Numbered'
  <2>1. /\ UNCHANGED <<tok, token, calls, nth>> /\ pc[c] \in {"copy", "invoke"}
        /\ fw' \subseteq fw \cup {c}
        /\ pc'[c] \in {"invoke", "wait", "out_in", "out_out", "lost"}
        /\ \A d \in Cmds : d # c => pc'[d] = pc[d]
    BY <1>5 DEF Copy, Invoke, Types
  <2> QED BY <1>1, <2>1
<1>6. ASSUME NEW c \in Cmds, Completed(c) \/ TimedOut(c) \/ FreeOut(c) \/ FreeIn(c)
      PROVE  Numbered'
  <2>1. /\ UNCHANGED <<tok, token, calls, nth, fw>> /\ pc'[c] \in {"out_in", "out_out", "done"}
        /\ \A d \in Cmds : d # c => pc'[d] = pc[d]
    BY <1>6 DEF Completed, TimedOut, FreeOut, FreeIn, Types
  <2> QED BY <1>1, <2>1
<1>7. ASSUME NEW c \in Cmds, FwRead(c) PROVE Numbered'
  BY <1>1, <1>7 DEF FwRead
<1>8. ASSUME NEW w \in Writers, StoreRemove(w) \/ StoreAlloc(w) \/ StoreAdd(w)
      PROVE  Numbered'
  BY <1>1, <1>8 DEF StoreRemove, StoreAlloc, StoreAdd
<1>9. CASE Disable
  BY <1>1, <1>9 DEF Disable
<1> QED BY <1>2, <1>3, <1>4, <1>5, <1>6, <1>7, <1>8, <1>9, <1>10 DEF Next

(* While the caller waits, nobody else writes to its mailboxes.            *)
LEMMA Untouched ==
    ASSUME Types, Places, [Next]_vars, NEW c \in Cmds, pc'[c] \in {"invoke", "wait"}
    PROVE  /\ size'[c] = size[c] /\ inb'[c] = inb[c]
           /\ \/ Copy(c) /\ Fits(c)
              \/ pc[c] \in {"invoke", "wait"} /\ blk'[inb[c]] = blk[inb[c]]
<1> USE DEF Goto, cacheVars, msgVars, fwVars, storeVars, localVars, tokenVars
<1>0. Holders /\ Stores
  BY DEF Places
<1>1. CASE UNCHANGED vars
  BY <1>1 DEF vars
<1>2. CASE Copy(c)
  BY <1>2 DEF Copy, Types
<1>3. CASE Invoke(c) \/ FwRead(c)
  BY <1>3 DEF Invoke, FwRead, Types
<1>4. \/ AllocStart(c) \/ AllocTry(c) \/ AllocMiss(c) \/ alloc_token(c)
      \/ Completed(c) \/ TimedOut(c) \/ FreeOut(c) \/ FreeIn(c)
      => pc'[c] \notin {"invoke", "wait"}
  BY DEF AllocStart, AllocTry, AllocMiss, alloc_token, Completed, TimedOut, FreeOut,
         FreeIn, Types
<1>5. ASSUME NEW d \in Cmds, d # c,
             \/ AllocStart(d) \/ AllocTry(d) \/ AllocMiss(d) \/ alloc_token(d)
             \/ Copy(d) \/ Invoke(d) \/ Completed(d) \/ TimedOut(d)
             \/ FreeOut(d) \/ FreeIn(d) \/ FwRead(d)
      PROVE  /\ size'[c] = size[c] /\ inb'[c] = inb[c]
             /\ pc[c] \in {"invoke", "wait"} /\ blk'[inb[c]] = blk[inb[c]]
  <2>1. size'[c] = size[c] /\ inb'[c] = inb[c] /\ pc'[c] = pc[c]
    BY <1>5 DEF AllocStart, AllocTry, AllocMiss, alloc_token, Copy, Invoke, Completed,
                TimedOut, FreeOut, FreeIn, FwRead, Types
  <2>2. pc[c] \in Holding /\ inb[c] \in live
    BY <1>0, <2>1 DEF Holding, Holders
  <2>3. CASE Copy(d)
    <3>1. pc[d] \in Holding
      BY <2>3 DEF Copy, Holding
    <3>2. inb[d] # inb[c]
      BY <1>0, <1>5, <2>2, <3>1 DEF Holders
    <3> QED BY <1>0, <2>1, <2>2, <2>3, <3>2, CopyLen DEF Types
  <2>4. CASE AllocMiss(d)
    <3>1. UNCHANGED blk \/ \E m \in Msgs \ live : Fresh({m}, size[d], live)
      BY <2>4 DEF AllocMiss
    <3>2. ASSUME NEW m \in Msgs \ live, Fresh({m}, size[d], live)
          PROVE  blk'[inb[c]] = blk[inb[c]]
      BY <2>2, <3>2 DEF Fresh, Types
    <3> QED BY <2>1, <3>1, <3>2
  <2> QED BY <1>5, <2>1, <2>3, <2>4
          DEF AllocStart, AllocTry, alloc_token, Invoke, Completed, TimedOut,
              FreeOut, FreeIn, FwRead
<1>6. ASSUME NEW w \in Writers, StoreAlloc(w)
      PROVE  /\ size'[c] = size[c] /\ inb'[c] = inb[c]
             /\ pc[c] \in {"invoke", "wait"} /\ blk'[inb[c]] = blk[inb[c]]
  <2>1. UNCHANGED <<size, inb, pc>>
    BY <1>6 DEF StoreAlloc
  <2>2. inb[c] \in Kept(w) /\ inb[c] \in Msgs
    BY <1>0, <2>1 DEF Holding, Holders, Kept, Types
  <2>3. PICK q \in SeqOf(Msgs \ Kept(w), add[w]) :
             Fresh(Range(q), max_inbox_size(cache[w]), Kept(w))
    BY <1>6 DEF StoreAlloc, StoreTakes
  <2>4. inb[c] \notin Range(q)
    <3>1. q \in Seq(Msgs \ Kept(w))
      BY SeqOfType DEF Types
    <3> QED BY <2>2, <3>1 DEF Range
  <2> QED BY <2>1, <2>2, <2>3, <2>4 DEF Fresh
<1>7. ASSUME NEW w \in Writers, StoreRemove(w) \/ StoreAdd(w)
      PROVE  /\ size'[c] = size[c] /\ inb'[c] = inb[c]
             /\ pc[c] \in {"invoke", "wait"} /\ blk'[inb[c]] = blk[inb[c]]
  BY <1>7 DEF StoreRemove, StoreAdd
<1>8. CASE Disable \/ SmallCmd
  BY <1>8 DEF Disable, SmallCmd
<1> QED BY <1>1, <1>2, <1>3, <1>4, <1>5, <1>6, <1>7, <1>8 DEF Next

(* What the firmware finds of a command that it owns: its own bytes, or a  *)
(* token that is not its own, or the token has come round.                 *)
LEMMA TokensTell ==
    ASSUME Types, Numbered, Sent, Overwritten, NEW c \in fw
    PROVE  /\ \A d \in Whose(c) \ {c} : TokenOf(d) = tok[c] =>
                  d \in Cmds /\ nth[d] >= nth[c] + (Tokens - 1)
           /\ pc[c] = "wait" => Whose(c) \subseteq {c}
<1>0. c \in Cmds /\ tok[c] # 0 /\ nth[c] # 0 /\ inb[c] \in Msgs
  BY DEF Types, Numbered, Sent
<1>1. ASSUME NEW d \in Whose(c) \ {c}, TokenOf(d) = tok[c]
      PROVE  d \in Cmds /\ nth[d] >= nth[c] + (Tokens - 1)
  <2>1. d # NoCmd
    BY <1>0, <1>1 DEF TokenOf
  <2>2. PICK i \in 1 .. Filled(size[c]) :
           d = IF i \in DOMAIN blk[inb[c]] THEN blk[inb[c]][i] ELSE NoCmd
    BY DEF Whose
  <2>3. i \in DOMAIN blk[inb[c]] /\ d = blk[inb[c]][i]
    BY <2>1, <2>2
  <2>4. d \in Cmds
    <3>1. blk[inb[c]] \in Seq(Cmds \cup {NoCmd})
      BY <1>0 DEF Types
    <3> QED BY <2>1, <2>3, <3>1
  <2>5. nth[d] > nth[c]
    BY <2>1, <2>3 DEF Overwritten
  <2>6. tok[d] = tok[c]
    BY <1>1, <2>1 DEF TokenOf
  <2> QED BY <1>0, <2>4, <2>5, <2>6 DEF Numbered
<1>2. ASSUME pc[c] = "wait" PROVE Whose(c) \subseteq {c}
  BY <1>0, <1>2 DEF Sent, Whose
<1> QED BY <1>1, <1>2

(* A command's mailboxes hold its bytes while the caller waits.            *)
LEMMA SentStep ==
    ASSUME Types, Places, Sizes, Numbered, Sent, [Next]_vars
    PROVE  Sent'
<1> USE DEF Goto, cacheVars, msgVars, fwVars, storeVars, localVars, tokenVars
<1>0. Holders
  BY DEF Places
<1>1. \A c \in Cmds : pc'[c] \in {"invoke", "wait"} =>
         \A i \in 1 .. Filled(size'[c]) :
             i \in DOMAIN blk'[inb'[c]] /\ blk'[inb'[c]][i] = c
  <2> SUFFICES ASSUME NEW c \in Cmds, pc'[c] \in {"invoke", "wait"},
                      NEW i \in 1 .. Filled(size'[c])
               PROVE  i \in DOMAIN blk'[inb'[c]] /\ blk'[inb'[c]][i] = c
    OBVIOUS
  <2>1. CASE Copy(c) /\ Fits(c)
    <3>1. size'[c] = size[c] /\ inb'[c] = inb[c] /\ inb[c] \in Msgs
      BY <1>0, <2>1, Untouched, CopyLen
    <3>2. blk[inb[c]] \in Seq(Cmds \cup {NoCmd}) /\ size[c] \in Nat
      BY <3>1 DEF Types
    <3>3. Filled(size[c]) \in Nat
      <4>1. size[c] <= size[c]
        BY <3>2
      <4> QED BY <3>2, <4>1, Room
    <3>4. DOMAIN blk[inb[c]] = 1 .. Len(blk[inb[c]]) /\ Len(blk[inb[c]]) \in Nat
      BY <3>2
    <3>5. i \in DOMAIN blk[inb[c]] /\ i <= Filled(size[c])
      BY <2>1, <3>1, <3>3, <3>4 DEF Fits
    <3> QED BY <1>0, <2>1, <3>1, <3>5, CopyLen
  <2>2. CASE pc[c] \in {"invoke", "wait"} /\ blk'[inb[c]] = blk[inb[c]]
    BY <2>2, Untouched DEF Sent
  <2> QED BY <2>1, <2>2, Untouched
<1>a. ASSUME \A c \in fw' :
                 /\ pc'[c] \in {"wait", "out_out", "out_in", "done"}
                 /\ Timeouts \/ pc'[c] = "wait"
                 /\ inb'[c] \in Msgs
      PROVE  Sent'
  BY <1>1, <1>a DEF Sent
<1>b. /\ fw \subseteq Cmds
      /\ \A c \in fw :
            /\ pc[c] \in {"wait", "out_out", "out_in", "done"}
            /\ Timeouts \/ pc[c] = "wait"
            /\ inb[c] \in Msgs
  BY DEF Sent, Types
<1>2. ASSUME UNCHANGED fw,
             \A c \in fw : pc'[c] = pc[c] /\ inb'[c] = inb[c]
      PROVE  Sent'
  BY <1>a, <1>b, <1>2
<1>3. ASSUME NEW c \in Cmds, FwRead(c) PROVE Sent'
  <2>0. c \in fw /\ fw' = fw \ {c} /\ UNCHANGED <<pc, inb>>
    BY <1>3 DEF FwRead
  <2> QED BY <1>a, <1>b, <2>0
<1>4. ASSUME NEW c \in Cmds, Invoke(c) PROVE Sent'
  <2>1. /\ UNCHANGED inb /\ inb[c] \in Msgs /\ fw' \subseteq fw \cup {c}
        /\ c \in fw' => pc'[c] = "wait"
        /\ \A d \in Cmds : d # c => pc'[d] = pc[d]
    <3>1. c \notin fw
      BY <1>b, <1>4 DEF Invoke
    <3>2. inb[c] \in Msgs
      BY <1>0, <1>4 DEF Invoke, Holders, Holding, Types
    <3> QED BY <1>4, <3>1, <3>2 DEF Invoke, Types
  <2> QED BY <1>a, <1>b, <2>1
<1>5. ASSUME NEW c \in Cmds, TimedOut(c) \/ FreeOut(c) \/ FreeIn(c) PROVE Sent'
  <2>1. /\ UNCHANGED <<fw, inb>> /\ pc'[c] \in {"out_out", "out_in", "done"}
        /\ \A d \in Cmds : d # c => pc'[d] = pc[d]
        /\ Timeouts \/ pc[c] # "wait"
    BY <1>5 DEF TimedOut, FreeOut, FreeIn, Types
  <2> QED BY <1>a, <1>b, <2>1
<1>6. ASSUME NEW c \in Cmds,
             \/ AllocStart(c) \/ AllocTry(c) \/ AllocMiss(c) \/ alloc_token(c)
             \/ Copy(c) \/ Completed(c)
      PROVE  Sent'
  <2>1. /\ UNCHANGED fw /\ c \notin fw
        /\ \A d \in Cmds : d # c => pc'[d] = pc[d] /\ inb'[d] = inb[d]
    <3>1. c \notin fw
      BY <1>6 DEF Sent, AllocStart, AllocTry, AllocMiss, alloc_token, Copy, Completed
    <3> QED BY <1>6, <3>1
            DEF AllocStart, AllocTry, AllocMiss, alloc_token, Copy, Completed, Types
  <2> QED BY <1>2, <2>1 DEF Types
<1>7. ASSUME NEW w \in Writers, StoreRemove(w) \/ StoreAlloc(w) \/ StoreAdd(w)
      PROVE  Sent'
  BY <1>2, <1>7 DEF StoreRemove, StoreAlloc, StoreAdd
<1>8. CASE Disable \/ SmallCmd
  BY <1>2, <1>8 DEF Disable, SmallCmd
<1>9. CASE UNCHANGED vars
  BY <1>2, <1>9 DEF vars
<1> QED BY <1>3, <1>4, <1>5, <1>6, <1>7, <1>8, <1>9 DEF Next

(* A step that gives no message to a command past its token and writes to  *)
(* no mailbox but to clear it.                                             *)
LEMMA OverwrittenKept ==
    ASSUME Types, Sent, Overwritten, fw' \subseteq fw, UNCHANGED nth,
           \A c \in fw' : inb'[c] = inb[c] /\ size'[c] = size[c],
           \A d \in Cmds : pc'[d] \in Holding \ {"token"} =>
               pc[d] \in Holding \ {"token"} /\ inb'[d] = inb[d],
           \A m \in Msgs : \/ blk'[m] = blk[m]
                           \/ \A i \in DOMAIN blk'[m] : blk'[m][i] = NoCmd
    PROVE  Overwritten'
<1>1. ASSUME NEW c \in fw', NEW d \in Cmds,
             d # c, pc'[d] \in Holding \ {"token"}, inb'[d] = inb'[c]
      PROVE  nth'[d] > nth'[c]
  BY <1>1 DEF Overwritten
<1>2. ASSUME NEW c \in fw', NEW i \in 1 .. Filled(size'[c]), i \in DOMAIN blk'[inb'[c]]
      PROVE  blk'[inb'[c]][i] \in {c, NoCmd} \/ nth'[blk'[inb'[c]][i]] > nth'[c]
  <2>1. c \in fw /\ inb'[c] = inb[c] /\ size'[c] = size[c] /\ inb[c] \in Msgs
    BY DEF Sent
  <2>2. CASE blk'[inb[c]] = blk[inb[c]]
    BY <1>2, <2>1, <2>2 DEF Overwritten
  <2>3. CASE \A j \in DOMAIN blk'[inb[c]] : blk'[inb[c]][j] = NoCmd
    BY <1>2, <2>1, <2>3
  <2> QED BY <2>1, <2>2, <2>3
<1> QED BY <1>1, <1>2 DEF Overwritten

(* mlx5_alloc_cmd_msg() clears the mailboxes of a new message.             *)
LEMMA FreshClear ==
    ASSUME NEW M, NEW len, NEW kept, Fresh(M, len, kept)
    PROVE  \A m \in Msgs : \/ blk'[m] = blk[m]
                           \/ \A i \in DOMAIN blk'[m] : blk'[m][i] = NoCmd
<1> PICK b : b = mlx5_calc_cmd_blocks(len)
  OBVIOUS
<1>1. blk' = [m \in Msgs |-> IF m \in M THEN [i \in 1 .. b |-> NoCmd] ELSE blk[m]]
  BY DEF Fresh
<1> QED BY <1>1

(* Only a command that takes its token later writes to the mailboxes.      *)
LEMMA OverwrittenStep ==
    ASSUME Types, Places, Numbered, Sent, Overwritten, [Next]_vars
    PROVE  Overwritten'
<1> USE DEF Goto, cacheVars, msgVars, fwVars, storeVars, localVars, tokenVars
<1>0. Holders
  BY DEF Places
<1>b. /\ fw \subseteq Cmds
      /\ \A c \in fw : pc[c] \in {"wait", "out_out", "out_in", "done"} /\ inb[c] \in Msgs
  BY DEF Sent, Types
<1>1. CASE UNCHANGED vars \/ SmallCmd \/ Disable
  <2>1. UNCHANGED <<fw, nth, inb, size, pc, blk>>
    BY <1>1 DEF vars, SmallCmd, Disable
  <2> QED BY <2>1, OverwrittenKept
<1>2. ASSUME NEW w \in Writers, StoreRemove(w) \/ StoreAdd(w) PROVE Overwritten'
  <2>1. UNCHANGED <<fw, nth, inb, size, pc, blk>>
    BY <1>2 DEF StoreRemove, StoreAdd
  <2> QED BY <2>1, OverwrittenKept
<1>3. ASSUME NEW w \in Writers, StoreAlloc(w) PROVE Overwritten'
  <2>1. UNCHANGED <<fw, nth, inb, size, pc>>
    BY <1>3 DEF StoreAlloc
  <2>2. PICK q : Fresh(Range(q), max_inbox_size(cache[w]), Kept(w))
    BY <1>3 DEF StoreAlloc, StoreTakes
  <2>3. \A m \in Msgs : \/ blk'[m] = blk[m]
                        \/ \A i \in DOMAIN blk'[m] : blk'[m][i] = NoCmd
    BY <2>2, FreshClear
  <2> QED BY <2>1, <2>3, OverwrittenKept
<1>4. ASSUME NEW c \in Cmds, Completed(c) \/ TimedOut(c) \/ FreeOut(c) \/ FreeIn(c)
      PROVE  Overwritten'
  <2>1. /\ UNCHANGED <<fw, nth, inb, size, blk>> /\ pc[c] \in Holding \ {"token"}
        /\ \A d \in Cmds : d # c => pc'[d] = pc[d]
    BY <1>4 DEF Completed, TimedOut, FreeOut, FreeIn, Types, Holding
  <2> QED BY <2>1, OverwrittenKept
<1>5. ASSUME NEW c \in Cmds, FwRead(c) PROVE Overwritten'
  <2>1. UNCHANGED <<nth, inb, size, pc, blk>> /\ fw' \subseteq fw
    BY <1>5 DEF FwRead
  <2> QED BY <2>1, OverwrittenKept
<1>6. ASSUME NEW c \in Cmds, AllocStart(c) \/ AllocTry(c) \/ AllocMiss(c)
      PROVE  Overwritten'
  <2>1. /\ UNCHANGED <<fw, nth>> /\ c \notin fw /\ pc'[c] \notin Holding \ {"token"}
        /\ \A d \in Cmds : d # c => pc'[d] = pc[d] /\ inb'[d] = inb[d] /\ size'[d] = size[d]
    <3>1. c \notin fw
      BY <1>b, <1>6 DEF AllocStart, AllocTry, AllocMiss
    <3> QED BY <1>6, <3>1 DEF AllocStart, AllocTry, AllocMiss, Types, Holding
  <2>2. UNCHANGED blk \/ \E m \in Msgs : Fresh({m}, size[c], live)
    BY <1>6 DEF AllocStart, AllocTry, AllocMiss
  <2>3. \A m \in Msgs : \/ blk'[m] = blk[m]
                        \/ \A i \in DOMAIN blk'[m] : blk'[m][i] = NoCmd
    BY <2>2, FreshClear
  <2> QED BY <1>b, <2>1, <2>3, OverwrittenKept
<1>7. ASSUME NEW c \in Cmds, alloc_token(c) PROVE Overwritten'
  <2>1. /\ UNCHANGED <<fw, inb, size, blk>> /\ c \notin fw
        /\ \A d \in Cmds : d # c => pc'[d] = pc[d] /\ nth'[d] = nth[d]
        /\ nth'[c] = calls + 1
    <3>1. c \notin fw
      BY <1>b, <1>7 DEF alloc_token
    <3> QED BY <1>7, <3>1 DEF alloc_token, Types, Numbered
  <2>2. /\ \A d \in Cmds : nth[d] \in Nat /\ nth[d] < nth'[c] /\ nth'[d] >= nth[d]
        /\ \A d \in fw : nth'[d] = nth[d] /\ d \in Cmds
    BY <1>b, <2>1 DEF Numbered
  <2>3. ASSUME NEW b \in fw', NEW d \in Cmds,
               d # b, pc'[d] \in Holding \ {"token"}, inb'[d] = inb'[b]
        PROVE  nth'[d] > nth'[b]
    <3>1. CASE d = c
      BY <1>b, <2>1, <2>2, <3>1
    <3>2. CASE d # c
      BY <2>1, <2>2, <2>3, <3>2 DEF Overwritten
    <3> QED BY <3>1, <3>2
  <2>4. ASSUME NEW b \in fw', NEW i \in 1 .. Filled(size'[b]), i \in DOMAIN blk'[inb'[b]]
        PROVE  blk'[inb'[b]][i] \in {b, NoCmd} \/ nth'[blk'[inb'[b]][i]] > nth'[b]
    <3>x. PICK x : x = blk[inb[b]][i]
      OBVIOUS
    <3>1. x \in {b, NoCmd} \/ nth[x] > nth[b]
      BY <2>1, <2>4, <3>x DEF Overwritten
    <3>2. x \in Cmds \cup {NoCmd}
      <4>1. blk[inb[b]] \in Seq(Cmds \cup {NoCmd})
        BY <1>b, <2>1 DEF Types
      <4> QED BY <2>1, <2>4, <3>x, <4>1
    <3>3. x \in {b, NoCmd} \/ nth'[x] > nth'[b]
      <4>1. nth'[b] = nth[b] /\ b \in Cmds /\ nth[b] \in Nat
        BY <2>1, <2>2
      <4>2. CASE x \in Cmds
        <5>1. nth[x] \in Nat /\ nth'[x] >= nth[x] /\ (nth'[x] = nth[x] \/ x = c)
          BY <2>1, <2>2, <4>2
        <5>2. nth'[x] \in Nat
          BY <1>7, <2>1, <4>2, <5>1 DEF Numbered
        <5> QED BY <3>1, <4>1, <5>1, <5>2
      <4> QED BY <3>2, <4>2
    <3> QED BY <2>1, <3>x, <3>3
  <2> QED BY <2>3, <2>4 DEF Overwritten
<1>8. ASSUME NEW c \in Cmds, Copy(c) PROVE Overwritten'
  <2>1. /\ UNCHANGED <<fw, inb, size, nth>> /\ c \notin fw /\ pc[c] \in Holding \ {"token"}
        /\ \A d \in Cmds : d # c => pc'[d] = pc[d]
    <3>1. c \notin fw
      BY <1>b, <1>8 DEF Copy
    <3> QED BY <1>8, <3>1 DEF Copy, Types, Holding
  <2>2. /\ inb[c] \in Msgs /\ DOMAIN blk'[inb[c]] = DOMAIN blk[inb[c]]
        /\ \A m \in Msgs : m # inb[c] => blk'[m] = blk[m]
        /\ \A i \in DOMAIN blk[inb[c]] : blk'[inb[c]][i] \in {c, blk[inb[c]][i]}
    <3>1. inb[c] \in Msgs /\ DOMAIN blk'[inb[c]] = DOMAIN blk[inb[c]]
          /\ \A m \in Msgs : m # inb[c] => blk'[m] = blk[m]
      BY <1>0, <1>8, CopyLen
    <3>2. blk'[inb[c]] = [i \in DOMAIN blk[inb[c]] |->
                            IF i <= Filled(size[c]) THEN c ELSE blk[inb[c]][i]]
      BY <1>8, <3>1 DEF Copy, mlx5_copy_to_msg, Types
    <3> QED BY <3>1, <3>2
  <2>3. ASSUME NEW b \in fw, NEW i \in 1 .. Filled(size[b]), i \in DOMAIN blk'[inb[b]]
        PROVE  blk'[inb[b]][i] \in {b, NoCmd} \/ nth[blk'[inb[b]][i]] > nth[b]
    <3>1. CASE inb[b] # inb[c]
      <4>1. blk'[inb[b]] = blk[inb[b]]
        BY <1>b, <2>2, <3>1
      <4> QED BY <2>3, <4>1 DEF Overwritten
    <3>2. CASE inb[b] = inb[c]
      <4>1. nth[c] > nth[b]
        BY <2>1, <3>2 DEF Overwritten
      <4>2. blk'[inb[b]][i] = c \/ blk'[inb[b]][i] = blk[inb[b]][i]
        BY <2>2, <2>3, <3>2
      <4>3. i \in DOMAIN blk[inb[b]]
        BY <2>2, <2>3, <3>2
      <4> QED BY <4>1, <4>2, <4>3 DEF Overwritten
    <3> QED BY <3>1, <3>2
  <2>4. ASSUME NEW b \in fw, NEW d \in Cmds,
               d # b, pc'[d] \in Holding \ {"token"}, inb[d] = inb[b]
        PROVE  nth[d] > nth[b]
    BY <2>1, <2>4 DEF Overwritten
  <2> QED BY <2>1, <2>3, <2>4 DEF Overwritten
<1>9. ASSUME NEW c \in Cmds, Invoke(c) PROVE Overwritten'
  <2>1. /\ UNCHANGED <<inb, size, nth, blk>> /\ fw' \subseteq fw \cup {c}
        /\ pc[c] = "invoke" /\ \A d \in Cmds : d # c => pc'[d] = pc[d]
    BY <1>9 DEF Invoke, Types
  <2>2. pc[c] \in Holding \ {"token"}
    BY <2>1 DEF Holding
  <2>3. ASSUME NEW b \in fw', NEW d \in Cmds,
               d # b, pc'[d] \in Holding \ {"token"}, inb[d] = inb[b]
        PROVE  nth[d] > nth[b]
    <3>1. pc[d] \in Holding \ {"token"}
      BY <2>1, <2>2, <2>3
    <3>2. CASE b = c
      BY <1>0, <2>2, <2>3, <3>1, <3>2 DEF Holders
    <3>3. CASE b # c
      BY <2>1, <2>3, <3>1, <3>3 DEF Overwritten
    <3> QED BY <3>2, <3>3
  <2>4. ASSUME NEW b \in fw', NEW i \in 1 .. Filled(size[b]), i \in DOMAIN blk[inb[b]]
        PROVE  blk[inb[b]][i] \in {b, NoCmd} \/ nth[blk[inb[b]][i]] > nth[b]
    <3>1. CASE b = c
      BY <2>1, <2>4, <3>1 DEF Sent
    <3>2. CASE b # c
      BY <2>1, <2>4, <3>2 DEF Overwritten
    <3> QED BY <3>1, <3>2
  <2> QED BY <2>1, <2>3, <2>4 DEF Overwritten
<1> QED BY <1>1, <1>2, <1>3, <1>4, <1>5, <1>6, <1>7, <1>8, <1>9 DEF Next

(* The firmware reads a command's own bytes, or sees that they are not, or *)
(* the token has come round.                                               *)
LEMMA ReadsStep ==
    ASSUME Types, Numbered, Sent, Overwritten, Reads, [Next]_vars
    PROVE  Reads'
<1> USE DEF Goto, cacheVars, msgVars, fwVars, storeVars, localVars, tokenVars
<1> DEFINE Ran == {"wait", "out_out", "out_in", "done"}
<1>1. ASSUME UNCHANGED <<read, nth>>,
             \A c \in Cmds : pc[c] \in Ran => pc'[c] \in Ran
      PROVE  Reads'
  BY <1>1 DEF Reads
<1>2. ASSUME NEW c \in Cmds,
             \/ AllocStart(c) \/ AllocTry(c) \/ AllocMiss(c) \/ Copy(c) \/ Invoke(c)
             \/ Completed(c) \/ TimedOut(c) \/ FreeOut(c) \/ FreeIn(c)
      PROVE  Reads'
  <2>1. /\ UNCHANGED <<read, nth>> /\ \A d \in Cmds : d # c => pc'[d] = pc[d]
        /\ pc[c] \in Ran => pc'[c] \in Ran
    BY <1>2 DEF AllocStart, AllocTry, AllocMiss, Copy, Invoke, Completed, TimedOut,
                FreeOut, FreeIn, Types
  <2> QED BY <1>1, <2>1
<1>3. ASSUME NEW w \in Writers, StoreRemove(w) \/ StoreAlloc(w) \/ StoreAdd(w)
      PROVE  Reads'
  BY <1>1, <1>3 DEF StoreRemove, StoreAlloc, StoreAdd
<1>4. CASE UNCHANGED vars \/ SmallCmd \/ Disable
  BY <1>1, <1>4 DEF vars, SmallCmd, Disable
<1>5. ASSUME NEW c \in Cmds, alloc_token(c) PROVE Reads'
  <2>1. /\ UNCHANGED read /\ pc[c] \notin Ran
        /\ \A d \in Cmds : d # c => pc'[d] = pc[d] /\ nth'[d] = nth[d]
        /\ nth'[c] = calls + 1
    BY <1>5 DEF alloc_token, Types, Numbered
  <2>2. \A d \in Cmds : nth'[d] >= nth[d] /\ nth'[d] \in Nat /\ nth[d] \in Nat
    BY <2>1 DEF Numbered
  <2>3. read[c] = "none"
    BY <2>1 DEF Reads
  <2>4. ASSUME NEW b \in Cmds, read[b] = "foreign"
        PROVE  \E d \in Cmds : nth'[d] >= nth'[b] + (Tokens - 1)
    <3>1. PICK d \in Cmds : nth[d] >= nth[b] + (Tokens - 1)
      BY <2>4 DEF Reads
    <3>2. nth'[b] = nth[b]
      BY <2>1, <2>3, <2>4
    <3>3. nth'[d] >= nth'[b] + (Tokens - 1)
      BY <2>2, <3>1, <3>2, TokenAssumption
    <3> QED BY <3>3
  <2> QED BY <2>1, <2>3, <2>4 DEF Reads
<1>6. ASSUME NEW c \in Cmds, FwRead(c) PROVE Reads'
  <2>1. /\ c \in fw /\ UNCHANGED <<pc, nth>> /\ \A d \in Cmds : d # c => read'[d] = read[d]
        /\ read'[c] = IF \E d \in Whose(c) : TokenOf(d) # tok[c] THEN "TOK_ERR"
                      ELSE IF Whose(c) \subseteq {c} THEN "own" ELSE "foreign"
    BY <1>6 DEF FwRead, Types
  <2>2. pc[c] \in Ran /\ (Timeouts \/ pc[c] = "wait")
    BY <2>1 DEF Sent
  <2>3. ASSUME read'[c] \in {"TOK_ERR", "foreign"} PROVE Timeouts
    <3>1. CASE Whose(c) \subseteq {c}
      <4>1. TokenOf(c) = tok[c]
        BY NoneAssumption DEF TokenOf
      <4> QED BY <2>1, <2>3, <3>1, <4>1
    <3>2. CASE ~(Whose(c) \subseteq {c})
      BY <2>1, <2>2, <3>2, TokensTell
    <3> QED BY <3>1, <3>2
  <2>4. ASSUME read'[c] = "foreign"
        PROVE  \E d \in Cmds : nth[d] >= nth[c] + (Tokens - 1)
    <3>1. PICK d \in Whose(c) \ {c} : TokenOf(d) = tok[c]
      BY <2>1, <2>4
    <3> QED BY <2>1, <3>1, TokensTell
  <2> QED BY <2>1, <2>2, <2>3, <2>4 DEF Reads
<1> QED BY <1>2, <1>3, <1>4, <1>5, <1>6 DEF Next

(* After mlx5_cmd_disable() only the firmware moves.                       *)
LEMMA DownStep ==
    ASSUME Types, Places, Down, AllFreed, [Next]_vars
    PROVE  Down' /\ AllFreed'
<1> USE DEF Goto, cacheVars, msgVars, fwVars, storeVars, localVars, tokenVars
<1>1. CASE ~up
  <2>1. (\A c \in Cmds : pc[c] \in {"done", "lost"}) /\ \A w \in Writers : wpc[w] = "done"
    BY <1>1 DEF Down
  <2>2. UNCHANGED <<up, pc, wpc, live, inb>>
    <3>1. ASSUME NEW c \in Cmds, FwRead(c) PROVE UNCHANGED <<up, pc, wpc, live, inb>>
      BY <3>1 DEF FwRead
    <3>2. ASSUME NEW c \in Cmds,
                 \/ AllocStart(c) \/ AllocTry(c) \/ AllocMiss(c) \/ alloc_token(c)
                 \/ Copy(c) \/ Invoke(c) \/ Completed(c) \/ TimedOut(c)
                 \/ FreeOut(c) \/ FreeIn(c)
          PROVE  FALSE
      <4>1. pc[c] \in {"done", "lost"}
        BY <2>1
      <4> QED BY <3>2, <4>1
              DEF AllocStart, AllocTry, AllocMiss, alloc_token, Copy, Invoke, Completed,
                  TimedOut, FreeOut, FreeIn
    <3>3. ASSUME NEW w \in Writers, StoreRemove(w) \/ StoreAlloc(w) \/ StoreAdd(w)
          PROVE  FALSE
      <4>1. wpc[w] = "done"
        BY <2>1
      <4> QED BY <3>3, <4>1 DEF StoreRemove, StoreAlloc, StoreAdd
    <3>4. ~Disable /\ ~SmallCmd
      BY <1>1 DEF Disable, SmallCmd
    <3>5. CASE UNCHANGED vars
      BY <3>5 DEF vars
    <3> QED BY <3>1, <3>2, <3>3, <3>4, <3>5 DEF Next
  <2> QED BY <2>1, <2>2 DEF Down, AllFreed
<1>2. CASE Disable
  BY <1>2, DisablePlaces
<1>3. CASE up /\ ~Disable
  <2>1. UNCHANGED up
    <3>1. ASSUME NEW c \in Cmds,
                 \/ AllocStart(c) \/ AllocTry(c) \/ AllocMiss(c) \/ alloc_token(c)
                 \/ Copy(c) \/ Invoke(c) \/ Completed(c) \/ TimedOut(c)
                 \/ FreeOut(c) \/ FreeIn(c) \/ FwRead(c)
          PROVE  UNCHANGED up
      BY <3>1 DEF AllocStart, AllocTry, AllocMiss, alloc_token, Copy, Invoke, Completed,
                  TimedOut, FreeOut, FreeIn, FwRead
    <3>2. ASSUME NEW w \in Writers, StoreRemove(w) \/ StoreAlloc(w) \/ StoreAdd(w)
          PROVE  UNCHANGED up
      BY <3>2 DEF StoreRemove, StoreAlloc, StoreAdd
    <3>3. CASE UNCHANGED vars \/ SmallCmd
      BY <3>3 DEF vars, SmallCmd
    <3> QED BY <1>3, <3>1, <3>2, <3>3 DEF Next
  <2> QED BY <1>3, <2>1 DEF Down, AllFreed
<1> QED BY <1>1, <1>2, <1>3

-----------------------------------------------------------------------------
(* The initial state.                                                      *)

(* create_msg_cache() fills the caches.                                    *)
LEMMA InitInv ==
    ASSUME Init
    PROVE  Inv
<1>1. PICK n \in [Caches -> 0 .. MaxEnt] :
         /\ \A k \in Caches : n[k] <= CacheEnts[k]
         /\ missing = [k \in Caches |-> CacheEnts[k] - n[k]]
         /\ \A k \in Caches : Len(list[k]) = n[k] /\ IsInjective(list[k])
         /\ \A j, k \in Caches : j # k => Range(list[j]) \cap Range(list[k]) = {}
         /\ list \in [Caches -> SeqOf(Msgs, MaxEnt)]
         /\ live = UNION {Range(list[k]) : k \in Caches}
         /\ parent = [m \in Msgs |->
                IF m \in live THEN CHOOSE k \in Caches : m \in Range(list[k]) ELSE 0]
  <2>1. PICK n \in [Caches -> 0 .. MaxEnt], q \in [Caches -> SeqOf(Msgs, MaxEnt)] :
           /\ \A k \in Caches : n[k] <= CacheEnts[k]
           /\ missing = [k \in Caches |-> CacheEnts[k] - n[k]]
           /\ \A k \in Caches : Len(q[k]) = n[k] /\ IsInjective(q[k])
           /\ \A j, k \in Caches : j # k => Range(q[j]) \cap Range(q[k]) = {}
           /\ list = q
           /\ live = UNION {Range(q[k]) : k \in Caches}
           /\ parent = [m \in Msgs |->
                  IF m \in live THEN CHOOSE k \in Caches : m \in Range(q[k]) ELSE 0]
    BY DEF Init
  <2> QED BY <2>1
<1>0. /\ \A k \in Caches : CacheEnts[k] \in Nat /\ n[k] \in Nat
      /\ MaxEnt \in Nat
  BY SizeAssumption DEF Caches
<1>2. list \in [Caches -> Seq(Msgs)]
  <2>1. \A k \in Caches : list[k] \in Seq(Msgs)
    BY <1>0, <1>1, SeqOfType
  <2> QED BY <1>1, <2>1
<1>3. \A k \in Caches : Range(list[k]) \subseteq Msgs
  BY <1>2 DEF Range
<1>4. \A m : m \in live <=> \E k \in Caches : m \in Range(list[k])
  BY <1>1
<1>5. live \subseteq Msgs
  BY <1>3, <1>4
<1>6. ASSUME NEW k \in Caches, NEW m \in Range(list[k])
      PROVE  m \in live /\ parent[m] = k
  <2>1. m \in live /\ m \in Msgs
    BY <1>3, <1>4
  <2>2. parent[m] = CHOOSE j \in Caches : m \in Range(list[j])
    BY <1>1, <2>1
  <2>3. parent[m] \in Caches /\ m \in Range(list[parent[m]])
    BY <2>2
  <2> QED BY <1>1, <2>1, <2>3
<1>7. /\ parent \in [Msgs -> Caches \cup {0}]
      /\ \A m \in Msgs : m \notin live => parent[m] = 0
  <2>1. \A m \in live : parent[m] \in Caches
    BY <1>4, <1>6
  <2> QED BY <1>1, <2>1
<1>8. /\ blk \in [Msgs -> Seq(Cmds \cup {NoCmd})]
      /\ \A m \in Msgs : parent[m] # 0 =>
            Len(blk[m]) = mlx5_calc_cmd_blocks(max_inbox_size(parent[m]))
  <2>1. blk = [m \in Msgs |-> IF parent[m] = 0 THEN << >>
              ELSE [i \in 1 .. mlx5_calc_cmd_blocks(max_inbox_size(parent[m])) |-> NoCmd]]
    BY DEF Init
  <2>2. ASSUME NEW m \in Msgs, parent[m] # 0
        PROVE  /\ blk[m] \in Seq(Cmds \cup {NoCmd})
               /\ Len(blk[m]) = mlx5_calc_cmd_blocks(max_inbox_size(parent[m]))
    <3>b. PICK b : b = mlx5_calc_cmd_blocks(max_inbox_size(parent[m]))
      OBVIOUS
    <3>1. b \in Nat
      BY <1>7, <2>2, <3>b, CacheSize, BlocksEnough
    <3>2. blk[m] = [i \in 1 .. b |-> NoCmd]
      BY <2>1, <2>2, <3>b
    <3> QED BY <3>1, <3>2, <3>b
  <2>3. \A m \in Msgs : parent[m] = 0 => blk[m] \in Seq(Cmds \cup {NoCmd})
    BY <2>1
  <2>4. \A m \in Msgs : blk[m] \in Seq(Cmds \cup {NoCmd})
    BY <2>2, <2>3
  <2> QED BY <2>1, <2>2, <2>4
<1>9. Types
  <2>1. free \in [Caches -> Int] /\ num_ent \in [Caches -> Int] /\ missing \in [Caches -> Int]
    BY <1>0, <1>1, <1>2, SizeAssumption DEF Init, Caches
  <2>2. /\ pc \in [Cmds -> CmdPcs] /\ idx \in [Cmds -> Nat] /\ size \in [Cmds -> Nat]
        /\ inb \in [Cmds -> Msgs \cup {NoMsg}] /\ outb \in [Cmds -> BOOLEAN]
        /\ fw \subseteq Cmds /\ read \in [Cmds -> {"none", "own", "foreign", "TOK_ERR"}]
    BY DEF Init, CmdPcs
  <2>3. /\ wpc \in [Writers -> StorePcs] /\ cache \in [Writers -> Nat]
        /\ removed \in [Writers -> SUBSET Msgs] /\ add \in [Writers -> Nat]
        /\ added \in [Writers -> Seq(Msgs)] /\ up \in BOOLEAN
    BY DEF Init, StorePcs
  <2> QED BY <1>2, <1>5, <1>7, <1>8, <2>1, <2>2, <2>3 DEF Types
<1>10. /\ \A c \in Cmds : pc[c] = "idle" /\ pc[c] \notin Holding /\ tok[c] = 0
       /\ \A w \in Writers : /\ removed[w] = {} /\ added[w] = << >> /\ Range(added[w]) = {}
                              /\ wpc[w] = "idle"
       /\ fw = {} /\ up /\ \A c \in Cmds : read[c] = "none"
       /\ \A k \in Caches : free[k] = Len(list[k]) /\ num_ent[k] = CacheEnts[k]
  BY DEF Init, Holding, Range
<1>11. Lists /\ Holders /\ Stores /\ Covered
  <2>1. IsInjective(<< >>)
    BY DEF IsInjective
  <2> QED BY <1>1, <1>4, <1>6, <1>10, <2>1 DEF Lists, Holders, Stores, Covered
<1>12. IsFiniteSet(live)
  <2>1. \A k \in Caches : IsFiniteSet(Range(list[k]))
    BY <1>1, <1>2, Counted
  <2>2. IsFiniteSet({Range(list[k]) : k \in Caches})
    <3>1. IsFiniteSet(Caches)
      <4>1. Caches = 1 .. Len(CacheBlocks) /\ Len(CacheBlocks) \in Nat
        BY SizeAssumption DEF Caches
      <4> QED BY <4>1, FS_Interval
    <3>2. PICK f : f = [k \in Caches |-> Range(list[k])]
      OBVIOUS
    <3>3. f \in Surjection(Caches, {Range(list[k]) : k \in Caches})
      BY <3>2 DEF Surjection
    <3> QED BY <3>1, <3>3, FS_Surjection DEF ExistsSurjection
  <2>3. \A T \in {Range(list[k]) : k \in Caches} : IsFiniteSet(T)
    BY <2>1
  <2>4. IsFiniteSet(UNION {Range(list[k]) : k \in Caches})
    BY <2>2, <2>3, FS_UNION
  <2> QED BY <1>1, <2>4
<1>13. Accounts
  <2> SUFFICES ASSUME NEW k \in Caches
               PROVE  num_ent[k] = missing[k] + Cardinality(Mine(k))
    BY Balance
  <2>1. Mine(k) = Range(list[k])
    BY <1>4, <1>6, <1>10 DEF Mine
  <2>2. Cardinality(Range(list[k])) = n[k]
    BY <1>1, <1>2, Counted
  <2> QED BY <1>0, <1>1, <1>10, <2>1, <2>2
<1>14. Sizes
  BY <1>5, <1>8, <1>10 DEF Sizes
<1>15. Numbered
  <2>1. /\ token = 0 /\ calls = 0 /\ tok = [c \in Cmds |-> 0] /\ nth = [c \in Cmds |-> 0]
        /\ Tokens - 1 \in Nat
    BY TokenAssumption DEF Init
  <2> QED BY <1>10, <2>1 DEF Numbered
<1>16. Sent /\ Overwritten /\ Reads /\ Down /\ AllFreed
  BY <1>10 DEF Sent, Overwritten, Reads, Down, AllFreed
<1> QED BY <1>9, <1>11, <1>12, <1>13, <1>14, <1>15, <1>16 DEF Inv

-----------------------------------------------------------------------------
(* The inductive invariant holds always, for any number of commands,       *)
(* caches and writers of num_ent.                                          *)
THEOREM Invariance == Spec => []Inv
<1>1. Init => Inv
  BY InitInv
<1>2. ASSUME Inv, [Next]_vars PROVE Inv'
  <2>1. Places
    BY <1>2 DEF Inv, Places
  <2>2. Types' /\ Places'
    BY <1>2, <2>1, PlacesStep DEF Inv
  <2>3. Sizes' /\ Numbered' /\ Sent'
    BY <1>2, <2>1, SizesStep, NumberedStep, SentStep DEF Inv
  <2>5. Overwritten' /\ Reads'
    BY <1>2, <2>1, OverwrittenStep, ReadsStep DEF Inv
  <2>4. Down' /\ AllFreed'
    BY <1>2, <2>1, DownStep DEF Inv
  <2> QED BY <2>2, <2>3, <2>4, <2>5 DEF Inv, Places
<1> QED BY <1>1, <1>2, PTL DEF Spec

(* A message is in exactly one list, command or store.                     *)
LEMMA InvOnePlace ==
    ASSUME Inv
    PROVE  OnePlace
<1>1. ASSUME NEW m \in live
      PROVE  Cardinality({<<"list", k>> : k \in {k \in Caches : m \in Range(list[k])}}
                   \cup {<<"cmd", c>> : c \in {c \in Cmds : Holds(c, m)}}
                   \cup {<<"store", w>> : w \in {w \in Writers :
                                m \in removed[w] \cup Range(added[w])}}) = 1
  <2> DEFINE A == {<<"list", k>> : k \in {k \in Caches : m \in Range(list[k])}}
             B == {<<"cmd", c>> : c \in {c \in Cmds : Holds(c, m)}}
             C == {<<"store", w>> : w \in {w \in Writers :
                                m \in removed[w] \cup Range(added[w])}}
  <2>0. \A w \in Writers : m \in removed[w] => parent[m] # 0
    BY CacheSize DEF Inv, Stores
  <2>1. CASE \E k \in Caches : m \in Range(list[k])
    <3>1. PICK k \in Caches : m \in Range(list[k])
      BY <2>1
    <3>2. parent[m] = k /\ k # 0
      BY <3>1, CacheSize DEF Inv, Lists
    <3>3. \A j \in Caches : m \in Range(list[j]) => j = k
      BY <3>2 DEF Inv, Lists
    <3>4. \A c \in Cmds : ~Holds(c, m)
      BY <3>1 DEF Inv, Holders, Holds
    <3>5. \A w \in Writers : m \notin removed[w] /\ m \notin Range(added[w])
      BY <3>1, <3>2 DEF Inv, Stores
    <3>6. A \cup B \cup C = {<<"list", k>>}
      BY <3>1, <3>3, <3>4, <3>5
    <3> QED BY <3>6, FS_Singleton
  <2>2. CASE \E c \in Cmds : Holds(c, m)
    <3>1. PICK c \in Cmds : Holds(c, m)
      BY <2>2
    <3>2. /\ \A k \in Caches : m \notin Range(list[k])
          /\ \A w \in Writers : m \notin removed[w] \cup Range(added[w])
          /\ \A d \in Cmds : Holds(d, m) => d = c
      BY <3>1 DEF Inv, Holders, Holds
    <3>3. A \cup B \cup C = {<<"cmd", c>>}
      BY <3>1, <3>2
    <3> QED BY <3>3, FS_Singleton
  <2>3. CASE \E w \in Writers : m \in removed[w] \cup Range(added[w])
    <3>1. PICK w \in Writers : m \in removed[w] \cup Range(added[w])
      BY <2>3
    <3>2. \A k \in Caches : m \notin Range(list[k])
      BY <3>1, CacheSize DEF Inv, Stores, Lists
    <3>3. \A c \in Cmds : ~Holds(c, m)
      BY <3>1 DEF Inv, Holders, Holds
    <3>4. \A v \in Writers : m \in removed[v] \cup Range(added[v]) => v = w
      <4> SUFFICES ASSUME NEW v \in Writers, m \in removed[v] \cup Range(added[v])
                   PROVE  v = w
        OBVIOUS
      <4>1. CASE m \in removed[w]
        BY <2>0, <4>1 DEF Inv, Stores
      <4>2. CASE m \in Range(added[w])
        BY <2>0, <4>2 DEF Inv, Stores
      <4> QED BY <3>1, <4>1, <4>2
    <3>5. A \cup B \cup C = {<<"store", w>>}
      BY <3>1, <3>2, <3>3, <3>4
    <3> QED BY <3>5, FS_Singleton
  <2> QED BY <2>1, <2>2, <2>3 DEF Inv, Covered
<1>2. \A c \in Cmds : pc[c] \in Holding => inb[c] \in live
  BY DEF Inv, Holders
<1> QED BY <1>1, <1>2 DEF OnePlace, Inv, Lists

(* Every message is in exactly one place: a cache's list, a command or the *)
(* hands of a writer of num_ent, and the counters of the lists are right.  *)
THEOREM MessagesPlaced == Spec => []OnePlace
  BY Invariance, InvOnePlace, PTL

(* num_ent counts the messages of a cache, whoever holds them.             *)
THEOREM AccountsBalance == Spec => []Accounts
<1>1. Inv => Accounts
  BY DEF Inv
<1> QED BY <1>1, Invariance, PTL

(* The branch "this is a BUG" of mlx5_copy_to_msg() is dead, for every     *)
(* size of the mailboxes, the descriptor and the caches.                   *)
THEOREM ChainsSuffice == Spec => []LargeEnough
<1>1. Inv => LargeEnough
  BY DEF Inv, Sizes, LargeEnough, Holding
<1> QED BY <1>1, Invariance, PTL

(* The firmware does not take the bytes of another command for those of    *)
(* the command that it executes unless alloc_token() has come round to the *)
(* same token, however many commands there are.                            *)
THEOREM ReadsOwn == Spec => []NoForeignRead
<1>1. ASSUME Inv, NEW c \in Cmds
      PROVE  /\ pc[c] = "wait" /\ c \in fw => Whose(c) \subseteq {c}
             /\ c \in fw => \A d \in Whose(c) \ {c} :
                    TokenOf(d) = tok[c] => nth[d] >= nth[c] + (Tokens - 1)
  BY <1>1, TokensTell DEF Inv
<1>2. ASSUME Inv, NEW c \in Cmds
      PROVE  /\ read[c] \in {"TOK_ERR", "foreign"} => Timeouts
             /\ read[c] = "foreign" => \E d \in Cmds : nth[d] >= nth[c] + (Tokens - 1)
  BY <1>2 DEF Inv, Reads
<1>3. Inv => NoForeignRead
  BY <1>1, <1>2 DEF NoForeignRead
<1> QED BY <1>3, Invariance, PTL

(* After mlx5_cmd_disable() the only messages left are those of failed     *)
(* calls with a callback.                                                  *)
THEOREM NothingLeft == Spec => []AllFreed
<1>1. Inv => AllFreed
  BY DEF Inv
<1> QED BY <1>1, Invariance, PTL
=============================================================================
