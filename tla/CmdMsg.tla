------------------------------ MODULE CmdMsg -------------------------------
(***************************************************************************)
(* The messages of the mlx5 command interface (cmd.c): a command's inbox   *)
(* is a message, the first bytes of which travel in the descriptor and the *)
(* rest in a chain of mailboxes.  Messages come from caches, one per size  *)
(* of chain, or from the allocator.  sysfs resizes the caches while        *)
(* commands use them.                                                      *)
(*                                                                         *)
(* The data of a mailbox is the command whose bytes it holds; statistics   *)
(* and signatures (checksum_disabled is always set) are left out.  The     *)
(* outbox is fresh for every command; it is only present or not.           *)
(***************************************************************************)
EXTENDS Integers, Sequences, FiniteSets, SequencesExt

CONSTANTS Cmds,         \* the commands
          Async,        \* those with a callback
          Writers,      \* writes to the num_ent files of sysfs
          Msgs,         \* bound: the messages that may exist at a time
          NoCmd, NoMsg,
          First,        \* bytes of a message in the descriptor
          Block,        \* bytes of a mailbox
          InSizes,      \* sizes of inboxes
          CacheBlocks,  \* mailboxes of the messages of each cache
          CacheEnts,    \* entries that each cache is created with
          MaxEnt,       \* bound: largest value written to num_ent
          Tokens,       \* number of values of the u8 token
          MaxCalls,     \* bound: tokens given out when small commands stop
          Timeouts      \* may a command time out while the firmware has it?

ASSUME SizeAssumption ==
    /\ First \in Nat \ {0}  /\ Block \in Nat \ {0}  /\ InSizes \subseteq Nat
    /\ CacheBlocks \in Seq(Nat)  /\ CacheEnts \in [DOMAIN CacheBlocks -> Nat]
    /\ MaxEnt \in Nat  /\ Timeouts \in BOOLEAN
ASSUME TokenAssumption == Tokens \in Nat \ {0, 1} /\ MaxCalls \in Nat
ASSUME NoneAssumption == NoCmd \notin Cmds /\ NoMsg \notin Msgs

VARIABLES list, free, num_ent,      \* struct cmd_msg_cache
          missing,      \* entries create_msg_cache() could not allocate
          live,         \* the messages that are allocated
          parent,       \* cache of a message, 0 for none
          blk,          \* the mailboxes of a message: whose bytes each holds
          token,        \* cmd->token
          pc, idx, size, inb, outb, tok,    \* cmd_exec() of each command
          fw,           \* commands whose descriptor the firmware owns
          read,         \* what the firmware made of the inbox
          wpc, cache, removed, add, added,  \* num_ent_store()
          up,           \* mlx5_cmd_disable() was not called yet
          calls, nth    \* history: calls of alloc_token(), and which was whose

cacheVars == <<list, free, num_ent, missing>>
msgVars == <<live, parent, blk>>
fwVars == <<fw, read>>
storeVars == <<wpc, cache, removed, add, added, up>>
localVars == <<idx, size, tok>>
tokenVars == <<token, calls, nth>>
vars == <<list, free, num_ent, missing, live, parent, blk, token, pc, idx, size,
          inb, outb, tok, fw, read, wpc, cache, removed, add, added, up, calls, nth>>

Caches == DOMAIN CacheBlocks
max_inbox_size(k) == First + Block * CacheBlocks[k]

mlx5_calc_cmd_blocks(len) ==
    ((IF len > First THEN len - First ELSE 0) + Block - 1) \div Block

(* Mailboxes that the copying loop goes through.                           *)
Filled(len) == CHOOSE n \in 0 .. len :
                  /\ First + n * Block >= len
                  /\ n > 0 => First + (n - 1) * Block < len

-----------------------------------------------------------------------------
(* mlx5_alloc_cmd_msg(): messages M with room for len bytes each, beside   *)
(* the ones that are kept.                                                 *)
Fresh(M, len, kept) ==
    /\ live' = kept \cup M
    /\ parent' = [m \in Msgs |-> IF m \in M THEN 0 ELSE parent[m]]
    /\ blk' = [m \in Msgs |-> IF m \in M
                 THEN [i \in 1 .. mlx5_calc_cmd_blocks(len) |-> NoCmd] ELSE blk[m]]

free_msg_NoCount(m) ==         \* mutant: the count is not adjusted
    IF parent[m] # 0
      THEN /\ list' = [list EXCEPT ![parent[m]] = Append(@, m)]
           /\ UNCHANGED <<free, live>>
      ELSE live' = live \ {m} /\ UNCHANGED <<list, free>>

free_msg(m) ==
    IF parent[m] # 0
      THEN /\ list' = [list EXCEPT ![parent[m]] = Append(@, m)]
           /\ free' = [free EXCEPT ![parent[m]] = @ + 1]
           /\ UNCHANGED live
      ELSE live' = live \ {m} /\ UNCHANGED <<list, free>>

-----------------------------------------------------------------------------
(* create_msg_cache() stops filling a cache at the first failure.          *)
Init ==
    /\ \E n \in [Caches -> 0 .. MaxEnt] :
           /\ \A k \in Caches : n[k] <= CacheEnts[k]
           /\ missing = [k \in Caches |-> CacheEnts[k] - n[k]]
           /\ \E q \in [Caches -> SeqOf(Msgs, MaxEnt)] :
                  /\ \A k \in Caches : Len(q[k]) = n[k] /\ IsInjective(q[k])
                  /\ \A j, k \in Caches : j # k => Range(q[j]) \cap Range(q[k]) = {}
                  /\ list = q
                  /\ live = UNION {Range(q[k]) : k \in Caches}
                  /\ parent = [m \in Msgs |->
                         IF m \in live THEN CHOOSE k \in Caches : m \in Range(q[k]) ELSE 0]
    /\ blk = [m \in Msgs |-> IF parent[m] = 0 THEN << >>
                 ELSE [i \in 1 .. mlx5_calc_cmd_blocks(max_inbox_size(parent[m])) |-> NoCmd]]
    /\ free = [k \in Caches |-> Len(list[k])]
    /\ num_ent = CacheEnts
    /\ token = 0  /\ calls = 0  /\ nth = [c \in Cmds |-> 0]
    /\ pc = [c \in Cmds |-> "idle"]  /\ idx = [c \in Cmds |-> 1]
    /\ size = [c \in Cmds |-> 0]     /\ tok = [c \in Cmds |-> 0]
    /\ inb = [c \in Cmds |-> NoMsg]  /\ outb = [c \in Cmds |-> FALSE]
    /\ fw = {}                       /\ read = [c \in Cmds |-> "none"]
    /\ wpc = [w \in Writers |-> "idle"]  /\ cache = [w \in Writers |-> 1]
    /\ removed = [w \in Writers |-> {}]  /\ add = [w \in Writers |-> 0]
    /\ added = [w \in Writers |-> << >>]
    /\ up = TRUE

Goto(c, l) == pc' = [pc EXCEPT ![c] = l]

-----------------------------------------------------------------------------
(* cmd_exec()                                                              *)

(* alloc_msg(): small inboxes do not look at the caches.                   *)
AllocStart(c) ==
    /\ pc[c] = "idle"
    /\ \E s \in InSizes :
           /\ size' = [size EXCEPT ![c] = s]
           /\ Goto(c, IF s <= First THEN "miss" ELSE "cache")
    /\ UNCHANGED <<cacheVars, msgVars, tokenVars, idx, inb, outb, tok, fwVars, storeVars>>

Suits_Any(c, k) == list[k] # << >>      \* mutant: max_inbox_size not tested

Suits(c, k) == size[c] <= max_inbox_size(k) /\ list[k] # << >>

(* One turn of the loop over the caches, each under its own lock.          *)
AllocTry(c) ==
    /\ pc[c] = "cache"  /\ idx[c] \in Caches
    /\ IF Suits(c, idx[c])
         THEN /\ inb' = [inb EXCEPT ![c] = Head(list[idx[c]])]
              /\ list' = [list EXCEPT ![idx[c]] = Tail(@)]
              /\ free' = [free EXCEPT ![idx[c]] = @ - 1]
              /\ Goto(c, "token")
              /\ UNCHANGED idx
         ELSE /\ idx' = [idx EXCEPT ![c] = @ + 1]
              /\ Goto(c, IF idx[c] + 1 \in Caches THEN "cache" ELSE "miss")
              /\ UNCHANGED <<inb, list, free>>
    /\ UNCHANGED <<num_ent, missing, msgVars, tokenVars, size, outb, tok, fwVars, storeVars>>

AllocMiss(c) ==
    /\ pc[c] = "miss"
    /\ \/ \E m \in Msgs \ live :
              /\ Fresh({m}, size[c], live)
              /\ inb' = [inb EXCEPT ![c] = m]
              /\ Goto(c, "token")
       \/ Goto(c, "done") /\ UNCHANGED <<msgVars, inb>>         \* -ENOMEM
    /\ UNCHANGED <<cacheVars, tokenVars, localVars, outb, fwVars, storeVars>>

NextToken_Early ==                      \* mutant: wraps around one value early
    IF (token + 1) % (Tokens - 1) = 0 THEN (token + 2) % (Tokens - 1)
                                      ELSE (token + 1) % (Tokens - 1)

NextToken == IF (token + 1) % Tokens = 0 THEN (token + 2) % Tokens
                                         ELSE (token + 1) % Tokens

alloc_token(c) ==
    /\ pc[c] = "token"
    /\ token' = NextToken
    /\ tok' = [tok EXCEPT ![c] = token']
    /\ calls' = calls + 1
    /\ nth' = [nth EXCEPT ![c] = calls']
    /\ Goto(c, "copy")
    /\ UNCHANGED <<cacheVars, msgVars, idx, size, inb, outb, fwVars, storeVars>>

(* Another command, the inbox of which needs no mailbox, so that of all    *)
(* that is modelled here it only takes a token.                            *)
SmallCmd ==
    /\ up  /\ calls < MaxCalls
    /\ token' = NextToken
    /\ calls' = calls + 1
    /\ UNCHANGED <<cacheVars, msgVars, pc, localVars, inb, outb, fwVars, storeVars, nth>>

(* Does the chain of the message hold the inbox?  If not, "this is a BUG". *)
Fits(c) == Filled(size[c]) <= Len(blk[inb[c]])

mlx5_copy_to_msg(c) ==
    blk' = [blk EXCEPT ![inb[c]] =
               [i \in DOMAIN @ |-> IF i <= Filled(size[c]) THEN c ELSE @[i]]]

(* The inbox is copied and the outbox allocated.                           *)
Copy(c) ==
    /\ pc[c] = "copy"
    /\ mlx5_copy_to_msg(c)
    /\ \/ /\ Fits(c)
          /\ outb' = [outb EXCEPT ![c] = TRUE]
          /\ Goto(c, "invoke")
       \/ Goto(c, "out_in") /\ UNCHANGED outb                   \* -ENOMEM
    /\ UNCHANGED <<cacheVars, live, parent, tokenVars, localVars, inb, fwVars, storeVars>>

(* mlx5_cmd_invoke() submits the command, or fails before that.  After a   *)
(* failure a call with a callback returns at once.                         *)
Invoke(c) ==
    /\ pc[c] = "invoke"
    /\ \/ fw' = fw \cup {c} /\ Goto(c, "wait")
       \/ fw' = fw /\ Goto(c, IF c \in Async THEN "lost" ELSE "out_out")
    /\ UNCHANGED <<cacheVars, msgVars, tokenVars, localVars, inb, outb, read, storeVars>>

(* out_out, of a waiting call; mlx5_cmd_comp_handler() frees the same two  *)
(* for a call with a callback, and goes the same way.                      *)
FreeOut(c) ==
    /\ pc[c] = "out_out"
    /\ outb' = [outb EXCEPT ![c] = FALSE]
    /\ Goto(c, "out_in")
    /\ UNCHANGED <<cacheVars, msgVars, tokenVars, localVars, inb, fwVars, storeVars>>

FreeIn(c) ==
    /\ pc[c] = "out_in"
    /\ free_msg(inb[c])
    /\ Goto(c, "done")
    /\ UNCHANGED <<num_ent, missing, parent, blk, tokenVars, localVars, inb, outb,
                   fwVars, storeVars>>

(* The answer of the firmware is processed.                                *)
Completed(c) ==
    /\ pc[c] = "wait"  /\ c \notin fw
    /\ Goto(c, "out_out")
    /\ UNCHANGED <<cacheVars, msgVars, tokenVars, localVars, inb, outb, fwVars, storeVars>>

(* It does not come in time: the messages are freed all the same.          *)
TimedOut(c) ==
    /\ Timeouts
    /\ pc[c] = "wait"  /\ c \in fw
    /\ Goto(c, "out_out")
    /\ UNCHANGED <<cacheVars, msgVars, tokenVars, localVars, inb, outb, fwVars, storeVars>>

-----------------------------------------------------------------------------
(* The firmware reads the mailboxes of the descriptor, which it knows by   *)
(* address: they may have been freed and serve the next message, whose     *)
(* chain may be shorter (then the mailbox is unused, with token 0).  It    *)
(* tells a foreign mailbox by its token.                                   *)
Whose(c) == {IF i \in DOMAIN blk[inb[c]] THEN blk[inb[c]][i] ELSE NoCmd :
                i \in 1 .. Filled(size[c])}

TokenOf(d) == IF d = NoCmd THEN 0 ELSE tok[d]

FwRead(c) ==
    /\ c \in fw
    /\ fw' = fw \ {c}
    /\ read' = [read EXCEPT ![c] =
           IF \E d \in Whose(c) : TokenOf(d) # tok[c] THEN "TOK_ERR"
           ELSE IF Whose(c) \subseteq {c} THEN "own" ELSE "foreign"]
    /\ UNCHANGED <<cacheVars, msgVars, tokenVars, pc, localVars, inb, outb, storeVars>>

-----------------------------------------------------------------------------
(* num_ent_store()                                                         *)

(* Under the lock: entries are taken off the list, or counted to be added. *)
StoreRemove(w) ==
    /\ wpc[w] = "idle"
    /\ \E k \in Caches, var \in 0 .. MaxEnt :
           LET n == IF var < num_ent[k] THEN num_ent[k] - var ELSE 0
               r == IF n < Len(list[k]) THEN n ELSE Len(list[k])
           IN  /\ cache' = [cache EXCEPT ![w] = k]
               /\ removed' = [removed EXCEPT ![w] = Range(SubSeq(list[k], 1, r))]
               /\ list' = [list EXCEPT ![k] = SubSeq(@, r + 1, Len(@))]
               /\ free' = [free EXCEPT ![k] = @ - r]
               /\ num_ent' = [num_ent EXCEPT ![k] = @ - r]
               /\ add' = [add EXCEPT ![w] = IF var > num_ent[k] THEN var - num_ent[k] ELSE 0]
    /\ wpc' = [wpc EXCEPT ![w] = "alloc"]
    /\ UNCHANGED <<missing, msgVars, tokenVars, pc, localVars, inb, outb, fwVars, added, up>>

(* The allocated entries of a store; short if an allocation fails.         *)
StoreTakes(w, kept) ==
    \E q \in SeqOf(Msgs \ kept, add[w]) :
        /\ IsInjective(q)
        /\ added' = [added EXCEPT ![w] = q]
        /\ Fresh(Range(q), max_inbox_size(cache[w]), kept)

Kept_All(w) == live                 \* mutant: remove_list is not freed

Kept(w) == live \ removed[w]

(* Without it: what was removed is freed, what is missing is allocated.    *)
StoreAlloc(w) ==
    /\ wpc[w] = "alloc"
    /\ StoreTakes(w, Kept(w))
    /\ removed' = [removed EXCEPT ![w] = {}]
    /\ wpc' = [wpc EXCEPT ![w] = "add"]
    /\ UNCHANGED <<cacheVars, tokenVars, pc, localVars, inb, outb, fwVars, cache, add, up>>

StoreAdd_NoParent(w) ==     \* mutant: msg->parent = ch forgotten
    /\ wpc[w] = "add"
    /\ LET k == cache[w]  n == Len(added[w])
       IN  /\ list' = [list EXCEPT ![k] = @ \o Reverse(added[w])]
           /\ num_ent' = [num_ent EXCEPT ![k] = @ + n]
           /\ free' = [free EXCEPT ![k] = @ + n]
           /\ UNCHANGED parent
    /\ cache' = [cache EXCEPT ![w] = 1]  /\ add' = [add EXCEPT ![w] = 0]
    /\ added' = [added EXCEPT ![w] = << >>]
    /\ wpc' = [wpc EXCEPT ![w] = "done"]
    /\ UNCHANGED <<missing, live, blk, tokenVars, pc, localVars, inb, outb, fwVars,
                   removed, up>>

StoreAdd(w) ==
    /\ wpc[w] = "add"
    /\ LET k == cache[w]  n == Len(added[w])
       IN  /\ list' = [list EXCEPT ![k] = @ \o Reverse(added[w])]
           /\ num_ent' = [num_ent EXCEPT ![k] = @ + n]
           /\ free' = [free EXCEPT ![k] = @ + n]
           /\ parent' = [m \in Msgs |-> IF m \in Range(added[w]) THEN k ELSE parent[m]]
    /\ cache' = [cache EXCEPT ![w] = 1]  /\ add' = [add EXCEPT ![w] = 0]
    /\ added' = [added EXCEPT ![w] = << >>]
    /\ wpc' = [wpc EXCEPT ![w] = "done"]
    /\ UNCHANGED <<missing, live, blk, tokenVars, pc, localVars, inb, outb, fwVars,
                   removed, up>>

-----------------------------------------------------------------------------
(* mlx5_cmd_disable(): when no call is under way and nobody is in sysfs,   *)
(* destroy_msg_cache() frees what the caches hold.                         *)
Disable ==
    /\ up  /\ up' = FALSE
    /\ \A c \in Cmds : pc[c] \in {"done", "lost"}
    /\ \A w \in Writers : wpc[w] = "done"
    /\ live' = live \ UNION {Range(list[k]) : k \in Caches}
    /\ free' = [k \in Caches |-> free[k] - Len(list[k])]
    /\ list' = [k \in Caches |-> << >>]
    /\ UNCHANGED <<num_ent, missing, parent, blk, tokenVars, pc, localVars, inb, outb,
                   fwVars, wpc, cache, removed, add, added>>

Next ==
    \/ \E c \in Cmds : \/ AllocStart(c) \/ AllocTry(c) \/ AllocMiss(c) \/ alloc_token(c)
                       \/ Copy(c) \/ Invoke(c) \/ Completed(c) \/ TimedOut(c)
                       \/ FreeOut(c) \/ FreeIn(c) \/ FwRead(c)
    \/ \E w \in Writers : StoreRemove(w) \/ StoreAlloc(w) \/ StoreAdd(w)
    \/ SmallCmd
    \/ Disable

Spec == Init /\ [][Next]_vars

-----------------------------------------------------------------------------
(* The message a command holds.                                            *)
Holding == {"token", "copy", "invoke", "wait", "out_out", "out_in", "lost"}
Holds(c, m) == pc[c] \in Holding /\ inb[c] = m

(* A cache's list and its counter agree; a message is live and in exactly  *)
(* one place: a list, a command, or the hands of a num_ent_store(); only   *)
(* one command at a time has it.  alloc_msg(), free_msg() and              *)
(* num_ent_store() move messages between them.                             *)
OnePlace ==
    /\ \A k \in Caches :
           /\ free[k] = Len(list[k])  /\ IsInjective(list[k])
           /\ \A m \in Range(list[k]) : m \in live /\ parent[m] = k
    /\ \A m \in live :
           LET places == {<<"list", k>> : k \in {k \in Caches : m \in Range(list[k])}}
                    \cup {<<"cmd", c>> : c \in {c \in Cmds : Holds(c, m)}}
                    \cup {<<"store", w>> : w \in {w \in Writers :
                                m \in removed[w] \cup Range(added[w])}}
           IN  Cardinality(places) = 1
    /\ \A c \in Cmds : pc[c] \in Holding => inb[c] \in live

(* num_ent is the number of the cache's messages, in the list or with a    *)
(* command, plus what create_msg_cache() could not allocate: two writers   *)
(* of num_ent and the commands keep the balance.                           *)
Accounts ==
    up => \A k \in Caches :
        num_ent[k] = missing[k]
            + Cardinality({m \in live : /\ parent[m] = k
                                        /\ \A w \in Writers : m \notin removed[w]})

(* mlx5_copy_to_msg() never runs out of mailboxes: its branch "this is a   *)
(* BUG" is dead, also for a message that was sized for another command.    *)
LargeEnough == \A c \in Cmds : pc[c] = "copy" => Fits(c)

(* The firmware does not take another command's bytes for a command's own: *)
(* while the call waits the mailboxes hold its bytes, and once it timed    *)
(* out and the message went to another command, a token gives it away,     *)
(* until all the other tokens were given out and alloc_token() came round  *)
(* to the same one.                                                        *)
NoForeignRead ==
    \A c \in Cmds :
        /\ pc[c] = "wait" /\ c \in fw => Whose(c) \subseteq {c}
        /\ read[c] \in {"TOK_ERR", "foreign"} => Timeouts
        /\ read[c] = "foreign" => \E d \in Cmds : nth[d] >= nth[c] + (Tokens - 1)
        /\ c \in fw => \A d \in Whose(c) \ {c} :
               TokenOf(d) = tok[c] => nth[d] >= nth[c] + (Tokens - 1)

(* After mlx5_cmd_disable() no message is left, save those of calls with a *)
(* callback for which mlx5_cmd_invoke() failed.                            *)
AllFreed == ~up => live = {inb[c] : c \in {c \in Cmds : pc[c] = "lost"}}
=============================================================================
