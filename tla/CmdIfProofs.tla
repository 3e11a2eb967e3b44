---------------------------- MODULE CmdIfProofs ----------------------------
(***************************************************************************)
(* Proofs about CmdIf, for every number of slots and of commands.  The     *)
(* first half is about slots and permits and holds for every kind of       *)
(* command, with every fault, on one CPU or on several; the second, about  *)
(* references and answers, holds under Sane.                               *)
(*                                                                         *)
(* The inductive invariant IndInv has two halves.  LifeInv is about slots, *)
(* permits and references, the variables that cmd_ent_put(),               *)
(* cmd_alloc_index() and the semaphores change; there is a lemma for each  *)
(* way in which they do.  RestInv is about where the contexts are.  Each   *)
(* action has a lemma that shows both; StepInd puts them together.         *)
(***************************************************************************)
EXTENDS CmdIf, TLAPS, FiniteSetTheorems, WellFoundedInduction

USE DEF lifeVars, slotVars, entVars, syncVars, entryVars, pcVars, modeVars,
        devVars, eqVars, adminVars, flushVars, envVars, hwVars, outVars

-----------------------------------------------------------------------------
(* The part of the invariant that is about slots and permits.              *)
LifeInv == TypeLife /\ SlotExclusive /\ PagesExclusive /\ PermitsBacked

(* The sets that are counted are finite.                                   *)
LEMMA CountedFinite ==
    ASSUME NEW B, NEW C \in SUBSET Ents
    PROVE  /\ IsFiniteSet(B \cap Reg)  /\ Cardinality(B \cap Reg) \in Nat
           /\ IsFiniteSet(C)  /\ Cardinality(C) \in Nat
<1>1. IsFiniteSet(Reg)
  BY FS_Interval, MaxRegAssumption DEF Reg
<1>2. IsFiniteSet(B \cap Reg)
  BY <1>1, FS_Subset
<1>3. IsFiniteSet(C)
  BY EntsAssumption, FS_Subset
<1> QED BY <1>2, <1>3, FS_CardinalityType

(* The numbers of PermitsBacked.                                           *)
LEMMA Counts ==
    ASSUME IndInv
    PROVE  /\ Cardinality(Claimants) \in Nat  /\ Cardinality(bitmask \cap Reg) \in Nat
           /\ got \in Nat  /\ fgot \in Nat  /\ MaxReg \in Nat
           /\ Drained(got) \in Nat  /\ Drained(fgot) \in Nat
<1>1. Claimants \in SUBSET Ents
  BY DEF Claimants
<1>2. got \in Nat /\ fgot \in Nat /\ MaxReg \in Nat
  BY MaxRegAssumption DEF IndInv, TypeOK, TypeEnv
<1> QED BY <1>1, <1>2, CountedFinite DEF Drained

(* A step that moves no slot and no permit and brings no entry that has a  *)
(* slot to life.                                                           *)
LEMMA CalmLife ==
    ASSUME IndInv,
           UNCHANGED <<bitmask, sem, pagesSem, idx, entArr, got, fgot>>,
           refcnt' \in [Ents -> Nat],  uaf' \in BOOLEAN,
           \A e \in Ents : refcnt'[e] > 0 => refcnt[e] > 0 \/ idx[e] = NoIdx,
           fpc' = "unlock" => fpc = "unlock",
           \A e \in Ents : hpc'[e] = "gotSem" <=> hpc[e] = "gotSem"
    PROVE  LifeInv'
<1>1. TypeLife' /\ SlotExclusive'
  BY DEF IndInv, TypeOK, TypeLife, SlotExclusive
<1>2. PagesExclusive'
  <2>1. NoIdx # MaxReg
    BY MaxRegAssumption DEF NoIdx
  <2>2. \A e \in Ents : HoldsPages(e)' => HoldsPages(e)
    BY <2>1 DEF HoldsPages
  <2> QED BY <2>2 DEF IndInv, PagesExclusive
<1>3. Claimants' = Claimants
  BY DEF Claimants
<1>4. PermitsBacked'
  BY <1>3 DEF IndInv, PermitsBacked, Drained
<1> QED BY <1>1, <1>2, <1>4 DEF LifeInv

(* cmd_ent_put() gives back a slot together with its permit, and only the  *)
(* last one does.                                                          *)
LEMMA PutLife ==
    ASSUME IndInv, NEW e \in Ents, cmd_ent_put(e),
           UNCHANGED <<idx, entArr, got, fgot>>,
           fpc' = "unlock" => fpc = "unlock",
           \A x \in Ents : hpc'[x] = "gotSem" <=> hpc[x] = "gotSem"
    PROVE  LifeInv'
<1>0. /\ refcnt \in [Ents -> Nat]  /\ idx \in [Ents -> Slots \cup {NoIdx}]
      /\ bitmask \subseteq Slots  /\ sem \in Nat  /\ pagesSem \in Nat
      /\ e \in Ents  /\ Kind[e].page \in BOOLEAN
  BY KindAssumption DEF IndInv, TypeOK, TypeLife, TypeEntry
<1>1. TypeLife'
  BY <1>0 DEF TypeLife, cmd_ent_put, cmd_free_index, LastRef
<1>2. SlotExclusive'
  <2>1. SUFFICES ASSUME NEW x \in Ents, refcnt'[x] > 0, idx[x] # NoIdx
                 PROVE  idx[x] \notin bitmask' /\ entArr[idx[x]] = x
    BY DEF SlotExclusive
  <2>2. refcnt[x] > 0 /\ idx[x] \notin bitmask /\ entArr[idx[x]] = x
    BY <1>0, <2>1 DEF IndInv, SlotExclusive, cmd_ent_put, cmd_free_index
  <2>3. CASE LastRef(e)
    <3>1. x # e
      BY <1>0, <2>1, <2>3 DEF LastRef, cmd_ent_put, cmd_free_index
    <3>2. entArr[idx[e]] = e
      BY <1>0, <2>3 DEF IndInv, SlotExclusive, LastRef
    <3> QED BY <2>2, <3>1, <3>2, <2>3 DEF cmd_ent_put, cmd_free_index
  <2> QED BY <2>2, <2>3 DEF cmd_ent_put, cmd_free_index
<1>3. PagesExclusive'
  <2>1. \A x \in Ents : HoldsPages(x)' => HoldsPages(x)
    BY <1>0 DEF HoldsPages, cmd_ent_put, cmd_free_index
  <2>2. CASE LastRef(e) /\ Kind[e].page
    <3>1. idx[e] = MaxReg /\ hpc[e] # "gotSem"
      BY <2>2, <1>0 DEF LastRef, IndInv, EntryShape
    <3>2. HoldsPages(e) /\ ~HoldsPages(e)'
      BY <3>1, <2>2, <1>0 DEF HoldsPages, LastRef, cmd_ent_put, cmd_free_index
    <3>3. pagesSem' = 1 /\ got # MaxReg + 1 /\ fgot # MaxReg + 1
      BY <3>2, <2>2 DEF IndInv, PagesExclusive, cmd_ent_put, cmd_free_index
    <3> QED BY <2>1, <3>2, <3>3 DEF IndInv, PagesExclusive
  <2>3. CASE ~(LastRef(e) /\ Kind[e].page)
    <3>1. pagesSem' = pagesSem
      BY <2>3 DEF cmd_ent_put, cmd_free_index
    <3> QED BY <2>1, <3>1 DEF IndInv, PagesExclusive
  <2> QED BY <2>2, <2>3
<1>4. PermitsBacked'
  <2>1. Claimants' = Claimants
    BY DEF Claimants
  <2>2. CASE LastRef(e) /\ ~Kind[e].page
    <3>1. idx[e] \in Reg /\ idx[e] \notin bitmask
      BY <2>2, <1>0, MaxRegAssumption
      DEF LastRef, IndInv, EntryShape, SlotExclusive, Slots, Reg, NoIdx
    <3>2. bitmask' \cap Reg = (bitmask \cap Reg) \cup {idx[e]} /\ sem' = sem + 1
      BY <3>1, <2>2 DEF cmd_ent_put, cmd_free_index
    <3>3. Cardinality(bitmask' \cap Reg) = Cardinality(bitmask \cap Reg) + 1
      BY <3>1, <3>2, CountedFinite, FS_AddElement
    <3> QED BY <2>1, <3>2, <3>3, <1>0, Counts DEF IndInv, PermitsBacked, Drained
  <2>3. CASE ~(LastRef(e) /\ ~Kind[e].page)
    <3>1. bitmask' \cap Reg = bitmask \cap Reg /\ sem' = sem
      BY <2>3, <1>0, MaxRegAssumption
      DEF cmd_ent_put, cmd_free_index, LastRef, IndInv, EntryShape, Reg
    <3> QED BY <2>1, <3>1 DEF IndInv, PermitsBacked, Drained
  <2> QED BY <2>2, <2>3
<1> QED BY <1>1, <1>2, <1>3, <1>4 DEF LifeInv


(* cmd_work_handler() turns a permit into a claim on a slot.               *)
LEMMA DownLife ==
    ASSUME IndInv, NEW e \in Ents, WorkDown(e)
    PROVE  LifeInv'
<1>0. /\ hpc \in [Ents -> HandlerPcs]  /\ Kind[e].page \in BOOLEAN
      /\ sem \in Nat  /\ pagesSem \in {0, 1}  /\ hpc[e] = "wantSem"
      /\ hpc' = [hpc EXCEPT ![e] = "gotSem"]
  BY KindAssumption DEF IndInv, TypeOK, TypePc, TypeLife, PagesExclusive, WorkDown
<1>1. TypeLife' /\ SlotExclusive'
  BY <1>0 DEF WorkDown, IndInv, TypeOK, TypeLife, SlotExclusive
<1>2. PagesExclusive'
  <2>1. CASE Kind[e].page
    <3>1. pagesSem = 1 /\ pagesSem' = 0
      BY <2>1, <1>0 DEF WorkDown
    <3>2. \A x \in Ents : ~HoldsPages(x)
      BY <3>1 DEF IndInv, PagesExclusive
    <3>3. \A x \in Ents : HoldsPages(x)' => x = e
      BY <3>2, <1>0 DEF HoldsPages, WorkDown
    <3> QED BY <3>1, <3>3 DEF WorkDown, IndInv, PagesExclusive
  <2>2. CASE ~Kind[e].page
    <3>1. \A x \in Ents : HoldsPages(x)' <=> HoldsPages(x)
      BY <2>2, <1>0 DEF HoldsPages, WorkDown
    <3> QED BY <2>2, <3>1 DEF WorkDown, IndInv, PagesExclusive
  <2> QED BY <1>0, <2>1, <2>2
<1>3. PermitsBacked'
  <2>1. CASE Kind[e].page
    <3>1. Claimants' = Claimants
      BY <2>1, <1>0 DEF Claimants
    <3> QED BY <3>1, <2>1 DEF WorkDown, IndInv, PermitsBacked, Drained
  <2>2. CASE ~Kind[e].page
    <3>1. Claimants' = Claimants \cup {e} /\ e \notin Claimants /\ Claimants \in SUBSET Ents
      BY <2>2, <1>0 DEF Claimants
    <3>2. Cardinality(Claimants') = Cardinality(Claimants) + 1
      BY <3>1, CountedFinite, FS_AddElement
    <3> QED BY <3>2, <2>2, <1>0, Counts DEF WorkDown, IndInv, PermitsBacked, Drained
  <2> QED BY <1>0, <2>1, <2>2
<1> QED BY <1>1, <1>2, <1>3 DEF LifeInv

(* A claim finds its slot.                                                 *)
LEMMA BackedAvailable ==
    ASSUME IndInv
    PROVE  SlotAvailable
<1>1. SUFFICES ASSUME NEW e \in Ents, hpc[e] = "gotSem", ~Kind[e].page
               PROVE  bitmask \cap Reg # {}
  BY DEF SlotAvailable, FreeSlots
<1>2. Claimants \in SUBSET Ents /\ Claimants # {}
  BY <1>1 DEF Claimants
<1>3. Cardinality(Claimants) > 0
  <2>1. IsFiniteSet(Claimants) /\ Cardinality(Claimants) \in Nat
    BY <1>2, CountedFinite
  <2>2. Cardinality(Claimants) # 0
    BY <1>2, <2>1, FS_EmptySet
  <2> QED BY <2>1, <2>2
<1>4. Cardinality(bitmask \cap Reg) > 0
  BY <1>3, Counts DEF IndInv, PermitsBacked, TypeOK, TypeLife
<1> QED BY <1>4, FS_EmptySet

(* find_first_bit() of a nonempty set of slots is one of them.             *)
LEMMA LowestIn ==
    ASSUME NEW S \in SUBSET Slots, S # {}
    PROVE  Lowest(S) \in S
<1>1. S \subseteq Nat
  BY MaxRegAssumption DEF Slots
<1>2. PICK x \in S : \A y \in S : ~(<<y, x>> \in OpToRel(<, Nat))
  BY <1>1, NatLessThanWellFounded, WFMin
<1>3. \A y \in S : x <= y
  <2>1. SUFFICES ASSUME NEW y \in S PROVE ~(y < x)
    BY <1>1
  <2>2. <<y, x>> \in Nat \X Nat /\ ~(<<y, x>> \in OpToRel(<, Nat))
    BY <1>1, <1>2
  <2> QED BY <2>2 DEF OpToRel
<1> QED BY <1>3 DEF Lowest

(* cmd_alloc_index() uses up the permit that cmd_work_handler() holds: the *)
(* slot leaves bitmask when the claim becomes a slot.                      *)
LEMMA AllocLife ==
    ASSUME IndInv, NEW e \in Ents, WorkAlloc(e)
    PROVE  LifeInv'
<1> DEFINE s == Lowest(FreeSlots(e))
<1>0. /\ hpc \in [Ents -> HandlerPcs]  /\ Kind[e].page \in BOOLEAN
      /\ refcnt \in [Ents -> Nat]  /\ idx \in [Ents -> Slots \cup {NoIdx}]
      /\ entArr \in [Slots -> Ents \cup {NoEnt}]  /\ bitmask \subseteq Slots
      /\ hpc[e] = "gotSem"  /\ MaxReg \in Nat  /\ NoIdx \notin Slots
  BY KindAssumption, MaxRegAssumption
  DEF IndInv, TypeOK, TypePc, TypeLife, TypeEntry, WorkAlloc, Slots, NoIdx
<1>1. FreeSlots(e) # {} /\ FreeSlots(e) \subseteq Slots
  BY BackedAvailable, <1>0 DEF SlotAvailable, FreeSlots, Slots, Reg
<1>2. /\ s \in Slots  /\ s \in FreeSlots(e)
      /\ Kind[e].page => s = MaxReg
      /\ ~Kind[e].page => s \in bitmask \cap Reg
  BY <1>0, <1>1, LowestIn DEF FreeSlots
<1>3. /\ cmd_alloc_index(e, s)  /\ hpc' = [hpc EXCEPT ![e] = "slotted"]
      /\ UNCHANGED <<got, fgot, fpc>>
  BY <1>1 DEF WorkAlloc
<1> HIDE DEF s
<1>4. TypeLife'
  BY <1>0, <1>3 DEF IndInv, TypeOK, TypeLife, cmd_alloc_index
<1>5. \A x \in Ents : x # e /\ refcnt[x] > 0 => idx[x] # s
  <2>1. CASE Kind[e].page
    BY <1>0, <1>2, <2>1 DEF IndInv, EntryShape, PagesExclusive, HoldsPages
  <2>2. CASE ~Kind[e].page
    BY <1>0, <1>2, <2>2 DEF IndInv, SlotExclusive
  <2> QED BY <1>0, <2>1, <2>2
<1>6. SlotExclusive'
  BY <1>0, <1>2, <1>3, <1>5 DEF IndInv, SlotExclusive, cmd_alloc_index
<1>7. PagesExclusive'
  <2>1. \A x \in Ents : HoldsPages(x)' => HoldsPages(x)
    BY <1>0, <1>2, <1>3 DEF HoldsPages, cmd_alloc_index
  <2> QED BY <2>1, <1>3 DEF IndInv, PagesExclusive, cmd_alloc_index
<1>8. PermitsBacked'
  <2>1. CASE Kind[e].page
    <3>1. Claimants' = Claimants
      BY <2>1, <1>0, <1>3 DEF Claimants
    <3>2. bitmask' \cap Reg = bitmask \cap Reg
      BY <2>1, <1>0, <1>2, <1>3 DEF cmd_alloc_index, Reg
    <3> QED BY <3>1, <3>2, <1>3 DEF cmd_alloc_index, IndInv, PermitsBacked, Drained
  <2>2. CASE ~Kind[e].page
    <3>1. Claimants' = Claimants \ {e} /\ e \in Claimants /\ Claimants \in SUBSET Ents
      BY <2>2, <1>0, <1>3 DEF Claimants
    <3>2. Cardinality(Claimants') = Cardinality(Claimants) - 1
      BY <3>1, CountedFinite, FS_RemoveElement
    <3>3. bitmask' \cap Reg = (bitmask \cap Reg) \ {s}
      BY <1>3 DEF cmd_alloc_index
    <3>4. Cardinality(bitmask' \cap Reg) = Cardinality(bitmask \cap Reg) - 1
      <4>1. IsFiniteSet(bitmask \cap Reg) /\ s \in bitmask \cap Reg
        BY <3>1, <2>2, <1>2, CountedFinite
      <4> QED BY <4>1, <3>3, FS_RemoveElement
    <3> QED BY <3>2, <3>4, <1>3, Counts
            DEF cmd_alloc_index, IndInv, PermitsBacked, Drained, TypeOK, TypeLife
  <2> QED BY <1>0, <2>1, <2>2
<1> QED BY <1>4, <1>6, <1>7, <1>8 DEF LifeInv

(* The administrator and the flush collect the permits one by one and give *)
(* them back together.                                                     *)
LEMMA DrainLife ==
    ASSUME IndInv, AdminDown \/ AdminApply \/ FlushTry \/ FlushUnlock
    PROVE  LifeInv'
<1>0. /\ sem \in Nat  /\ pagesSem \in {0, 1}  /\ got \in 0 .. MaxReg + 1
      /\ fgot \in 0 .. MaxReg + 1  /\ MaxReg \in Nat \ {0}
      /\ UNCHANGED <<refcnt, uaf, bitmask, idx, entArr, hpc>>
  BY MaxRegAssumption
  DEF IndInv, TypeOK, TypeLife, TypeEnv, PagesExclusive,
      AdminDown, AdminApply, FlushTry, FlushUnlock
<1>1. TypeLife' /\ SlotExclusive'
  BY <1>0 DEF IndInv, TypeOK, TypeLife, SlotExclusive,
              AdminDown, AdminApply, FlushTry, FlushUnlock
<1>2. PagesExclusive'
  <2>1. \A x \in Ents : HoldsPages(x)' <=> HoldsPages(x)
    BY <1>0 DEF HoldsPages
  <2> QED BY <1>0, <2>1 DEF IndInv, PagesExclusive,
                            AdminDown, AdminApply, FlushTry, FlushUnlock
<1>3. PermitsBacked'
  <2>1. Claimants' = Claimants
    BY <1>0 DEF Claimants
  <2> QED BY <1>0, <2>1, Counts
          DEF IndInv, PermitsBacked, PagesExclusive, Drained,
              AdminDown, AdminApply, FlushTry, FlushUnlock
<1> QED BY <1>1, <1>2, <1>3 DEF LifeInv

-----------------------------------------------------------------------------
(* The rest: the types of everything else and the shapes of the entries.   *)
RestInv ==
    /\ TypeEntry  /\ TypePc  /\ TypeComp  /\ TypeEnv  /\ TypeHw  /\ TypeOut
    /\ EntryShape  /\ QueueShape  /\ SlotShape  /\ LookupSafe

Before == {"init", "throttle", "submit"}    \* the entry does not exist yet

(* The types of what a call reads.                                         *)
LEMMA Types ==
    ASSUME IndInv, NEW e \in Ents
    PROVE  /\ hpc \in [Ents -> HandlerPcs]  /\ cpc \in [Ents -> CallerPcs]
           /\ wq \in Seq(Ents)  /\ timer \in [Ents -> TimerPcs]
           /\ idx \in [Ents -> Slots \cup {NoIdx}]
           /\ entArr \in [Slots -> Ents \cup {NoEnt}]
           /\ handling \in [Ents -> BOOLEAN]  /\ slotted \in [Ents -> BOOLEAN]
           /\ done \in [Ents -> BOOLEAN]  /\ pending \in [Ents -> BOOLEAN]
           /\ ret \in [Ents -> RetCodes]  /\ refcnt \in [Ents -> Nat]
           /\ Kind[e].callback \in BOOLEAN  /\ Kind[e].page \in BOOLEAN
           /\ Kind[e].polling \in BOOLEAN  /\ Kind[e].throttle \in BOOLEAN
  BY KindAssumption DEF IndInv, TypeOK, TypeLife, TypeEntry, TypePc

(* The caller moves on, and nothing that other contexts look at changes.   *)
LEMMA CallerMove ==
    ASSUME IndInv, NEW e \in Ents, NEW v \in CallerPcs,
           cpc' = [cpc EXCEPT ![e] = v],
           UNCHANGED <<entryVars, wq, hpc, envVars, hwVars, timer, comp>>,
           bitmask \subseteq bitmask',  TypeOut',
           v \in Before => cpc[e] \in Before,
           v \in {"waitDone", "waitDoneT", "recover", "rewait"} => slotted[e],
           Kind[e].callback => v \in Before \cup {"returned"}
    PROVE  RestInv'
<1>1. /\ TypeEntry'  /\ TypeComp'  /\ TypeEnv'  /\ TypeHw'
      /\ SlotShape'  /\ LookupSafe'
  BY DEF IndInv, TypeOK, TypeEntry, TypeComp, TypeEnv, TypeHw, SlotShape, LookupSafe
<1>2. TypePc'
  BY DEF IndInv, TypeOK, TypePc
<1>3. EntryShape'
  BY DEF IndInv, TypeOK, TypePc, EntryShape, Before
<1>4. QueueShape'
  BY DEF IndInv, TypeOK, TypePc, QueueShape, Before
<1> QED BY <1>1, <1>2, <1>3, <1>4 DEF RestInv

(* What a caller is told.                                                  *)
LEMMA TellType ==
    ASSUME IndInv, NEW e \in Ents, NEW r \in OutcomeCodes, Tell(e, r),
           throttleSem' \in Nat
    PROVE  TypeOut'
  BY DEF IndInv, TypeOK, TypeOut, Tell

(* up(&throttle_sem) keeps it a natural number.                            *)
LEMMA ThrottleUpType ==
    ASSUME IndInv, NEW e \in Ents, ThrottleUp(e)
    PROVE  throttleSem' \in Nat
  BY Types DEF IndInv, TypeOK, TypeOut, ThrottleUp

(* The head of cmd_exec(), its refusals and its wait for throttle_sem.     *)
LEMMA CmdExecInv ==
    ASSUME IndInv, NEW e \in Ents,
           CmdRefuse(e) \/ CmdExec(e) \/ ThrottleDown(e) \/ SubmitFails(e)
    PROVE  LifeInv' /\ RestInv'
<1>1. LifeInv'
  BY CalmLife, Types DEF CmdRefuse, CmdExec, ThrottleDown, SubmitFails, IndInv,
     TypeOK, TypeLife
<1>2. TypeOut'
  <2>1. CASE CmdRefuse(e)
    BY <2>1, TellType DEF CmdRefuse, OutcomeCodes, RetCodes, IndInv, TypeOK, TypeOut
  <2>2. CASE CmdExec(e) \/ ThrottleDown(e)
    BY <2>2 DEF CmdExec, ThrottleDown, IndInv, TypeOK, TypeOut
  <2>3. CASE SubmitFails(e)
    BY <2>3, TellType, ThrottleUpType DEF SubmitFails, OutcomeCodes
  <2> QED BY <2>1, <2>2, <2>3
<1>3. /\ cpc[e] \in Before
      /\ UNCHANGED <<entryVars, wq, hpc, envVars, hwVars, timer, comp, bitmask>>
  BY DEF CmdRefuse, CmdExec, ThrottleDown, SubmitFails, Before
<1>4. PICK v \in CallerPcs :
         cpc' = [cpc EXCEPT ![e] = v] /\ v \in Before \cup {"returned"}
  BY DEF CmdRefuse, CmdExec, ThrottleDown, SubmitFails, CallerPcs, Before
<1>5. v \notin {"waitDone", "waitDoneT", "recover", "rewait"}
  BY <1>4 DEF Before
<1> QED BY <1>1, <1>2, <1>3, <1>4, <1>5, CallerMove

(* wait_func(): every step of the wait and the timeouts that change only   *)
(* where the caller is.                                                    *)
LEMMA WaitInv ==
    ASSUME IndInv, NEW e \in Ents,
           HandlingTimeout(e) \/ ExecTimeout(e) \/ Recover(e) \/ WaitStep(e)
    PROVE  LifeInv' /\ RestInv'
<1>1. LifeInv'
  BY CalmLife, Types
  DEF HandlingTimeout, ExecTimeout, Recover, WaitStep, Touch, IndInv, TypeOK, TypeLife
<1>2. TypeOut'
  BY DEF HandlingTimeout, ExecTimeout, Recover, WaitStep, IndInv, TypeOK, TypeOut
<1>3. /\ cpc[e] \notin Before \cup {"returned"}
      /\ UNCHANGED <<entryVars, wq, hpc, envVars, hwVars, timer, comp, bitmask>>
  BY DEF HandlingTimeout, ExecTimeout, Recover, WaitStep, Touch, Before
<1>4. ~Kind[e].callback
  BY <1>3, Types DEF IndInv, EntryShape, Before
<1>5. PICK v \in CallerPcs :
         /\ cpc' = [cpc EXCEPT ![e] = v]  /\ v \notin Before
         /\ v \in {"waitDone", "waitDoneT", "recover", "rewait"} => slotted[e]
  <2>1. cpc[e] \in {"waitDone", "waitDoneT", "recover", "rewait"} => slotted[e]
    BY DEF IndInv, EntryShape
  <2> QED BY <2>1 DEF HandlingTimeout, ExecTimeout, Recover, WaitStep, CallerPcs, Before
<1> QED BY <1>1, <1>2, <1>3, <1>4, <1>5, CallerMove


(* The first half of a call of mlx5_cmd_comp_handler(): its slot has an    *)
(* entry.                                                                  *)
CompEnts == \A c \in Ctx : comp[c].pc \notin {"idle", "claim"} => comp[c].ent \in Ents

(* A call of mlx5_cmd_comp_handler() for a slot in use starts on the entry *)
(* that owns it.                                                           *)
LEMMA CallCompInv ==
    ASSUME IndInv, NEW c \in Ctx, NEW s \in Slots, NEW t \in CompTypes,
           CallComp(c, s, t), entArr[s] \in Ents, UNCHANGED <<entArr, bitmask>>,
           ftodo' \subseteq ftodo, fheld' \subseteq fheld
    PROVE  TypeComp' /\ LookupSafe' /\ CompEnts'
<1>0. comp \in [Ctx -> [pc : CompPcs, slot : Slots \cup {NoIdx},
                        ent : Ents \cup {NoEnt}, type : CompTypes]]
  BY DEF IndInv, TypeOK, TypeComp
<1>1. comp' = [comp EXCEPT ![c] = [pc |-> "claim", slot |-> s,
                                   ent |-> NoEnt, type |-> t]]
  BY DEF CallComp
<1>2. TypeComp'
  BY <1>0, <1>1 DEF TypeComp, CompPcs
<1>3. \A d \in Ctx : d # c => comp'[d] = comp[d]
  BY <1>0, <1>1
<1>4. comp'[c].pc = "claim" /\ comp'[c].slot = s
  BY <1>0, <1>1
<1>5. LookupSafe'
  BY <1>3, <1>4 DEF IndInv, LookupSafe
<1>6. CompEnts'
  BY <1>3, <1>4 DEF IndInv, SlotShape, CompEnts
<1> QED BY <1>2, <1>5, <1>6

(* An entry with a slot can be completed through it.                       *)
LEMMA SlotOf ==
    ASSUME IndInv, NEW e \in Ents, idx[e] # NoIdx
    PROVE  idx[e] \in Slots /\ entArr[idx[e]] \in Ents
  BY Types DEF IndInv, EntryShape

(* mlx5_cmd_invoke() queues a new entry, or starts the handler of a page   *)
(* command.                                                                *)
LEMMA SubmitInv ==
    ASSUME IndInv, NEW e \in Ents, Submit(e)
    PROVE  LifeInv' /\ RestInv'
<1>0. /\ cpc[e] = "submit"  /\ hpc[e] = "none"  /\ idx[e] = NoIdx
      /\ \A i \in DOMAIN wq : wq[i] # e
  BY DEF Submit, IndInv, EntryShape, QueueShape
<1>1. LifeInv'
  BY <1>0, Types, CalmLife DEF Submit, IndInv, TypeOK, TypeLife
<1>2. PICK v \in CallerPcs \ Before :
         /\ cpc' = [cpc EXCEPT ![e] = v]
         /\ v \notin {"waitDone", "waitDoneT", "recover", "rewait"}
         /\ Kind[e].callback => v = "returned"
  <2>1. \/ Kind[e].callback /\ cpc' = [cpc EXCEPT ![e] = "returned"]
        \/ ~Kind[e].callback /\ cpc' = [cpc EXCEPT ![e] = "inline"]
        \/ ~Kind[e].callback /\ cpc' = [cpc EXCEPT ![e] = "waitHandling"]
    BY Types DEF Submit
  <2> QED BY <2>1 DEF CallerPcs, Before
<1>3. /\ TypeComp'  /\ TypeEnv'  /\ TypeHw'  /\ TypeOut'  /\ SlotShape'  /\ LookupSafe'
  BY DEF Submit, IndInv, TypeOK, TypeComp, TypeEnv, TypeHw, TypeOut, SlotShape, LookupSafe
<1>4. CASE Kind[e].page
  <2>1. /\ handling' = [handling EXCEPT ![e] = TRUE]
        /\ hpc' = [hpc EXCEPT ![e] = "wantSem"]
        /\ UNCHANGED <<wq, slotVars, entVars, slotted, done, timer>>
    BY <1>4 DEF Submit
  <2>2. TypeEntry' /\ TypePc'
    BY <2>1, <1>2 DEF IndInv, TypeOK, TypeEntry, TypePc, HandlerPcs
  <2>3. EntryShape'
    BY <2>1, <1>0, <1>2, Types DEF IndInv, EntryShape, Before
  <2>4. QueueShape'
    BY <2>1, <1>0, <1>2, Types DEF IndInv, QueueShape, Before
  <2> QED BY <1>1, <1>3, <2>2, <2>3, <2>4 DEF RestInv
<1>5. CASE ~Kind[e].page
  <2>1. /\ wq' = Append(wq, e)
        /\ UNCHANGED <<handling, hpc, slotVars, entVars, slotted, done, timer>>
    BY <1>5 DEF Submit
  <2>2. TypeEntry' /\ TypePc'
    BY <2>1, <1>2 DEF IndInv, TypeOK, TypeEntry, TypePc
  <2>3. EntryShape'
    BY <2>1, <1>0, <1>2, Types DEF IndInv, EntryShape, Before
  <2>4. QueueShape'
    BY <2>1, <1>0, <1>2, Types DEF IndInv, QueueShape, Before
  <2> QED BY <1>1, <1>3, <2>2, <2>3, <2>4 DEF RestInv
<1> QED BY <1>4, <1>5, Types

(* cancel_work_sync() removes the work, and the queue keeps its shape.     *)
LEMMA CancelWorkInv ==
    ASSUME IndInv, NEW e \in Ents, CancelWork(e)
    PROVE  LifeInv' /\ RestInv'
<1>0. cpc[e] = "cancel" /\ ~Kind[e].callback
  BY Types DEF CancelWork, IndInv, EntryShape
<1>1. LifeInv'
  BY Types, CalmLife DEF CancelWork, Touch, IndInv, TypeOK, TypeLife
<1>2. /\ TypeComp'  /\ TypeEnv'  /\ TypeHw'  /\ TypeOut'  /\ SlotShape'  /\ LookupSafe'
  BY DEF CancelWork, Touch, IndInv, TypeOK, TypeComp, TypeEnv, TypeHw, TypeOut,
         SlotShape, LookupSafe
<1>3. TypeEntry'
  BY DEF CancelWork, IndInv, TypeOK, TypeEntry, RetCodes
<1>4. PICK v \in {"out", "waitSlotted"} : cpc' = [cpc EXCEPT ![e] = v]
  BY DEF CancelWork
<1>5. EntryShape'
  BY <1>0, <1>4, Types DEF CancelWork, IndInv, EntryShape
<1>6. CASE wq' = wq
  BY <1>0, <1>1, <1>2, <1>3, <1>4, <1>5, <1>6, Types
  DEF RestInv, IndInv, TypePc, QueueShape, CallerPcs, CancelWork
<1>7. CASE \E k \in DOMAIN wq : wq' = Without(wq, k)
  <2>1. PICK k \in DOMAIN wq : wq' = Without(wq, k)
    BY <1>7
  <2>2. /\ DOMAIN wq = 1 .. Len(wq)  /\ Len(wq) \in Nat
        /\ \A i \in 1 .. Len(wq) : wq[i] \in Ents
    BY Types
  <2>3. /\ wq' \in Seq(Ents)  /\ DOMAIN wq' = 1 .. Len(wq) - 1
        /\ \A i \in 1 .. Len(wq) - 1 : wq'[i] = IF i < k THEN wq[i] ELSE wq[i + 1]
    BY <2>1, <2>2 DEF Without
  <2>4. UNCHANGED hpc
    BY DEF CancelWork
  <2>5. TypePc'
    BY <2>3, <2>4, <1>4, Types DEF TypePc, CallerPcs
  <2>6. QueueShape'
    <3> DEFINE old(i) == IF i < k THEN i ELSE i + 1
    <3>1. \A i \in DOMAIN wq' : old(i) \in DOMAIN wq /\ wq'[i] = wq[old(i)]
      BY <2>2, <2>3
    <3>2. \A i, j \in DOMAIN wq' : old(i) = old(j) => i = j
      BY <2>2, <2>3
    <3>3. \A x \in Ents : cpc[x] \notin Before => cpc'[x] \notin Before
      BY <1>0, <1>4, Types DEF Before
    <3> HIDE DEF old
    <3>4. \A i \in DOMAIN wq' : hpc'[wq'[i]] = "none" /\ cpc'[wq'[i]] \notin Before
      BY <3>1, <3>3, <2>2, <2>4 DEF IndInv, QueueShape, Before
    <3>5. \A i, j \in DOMAIN wq' : wq'[i] = wq'[j] => i = j
      BY <3>1, <3>2 DEF IndInv, QueueShape
    <3> QED BY <3>4, <3>5 DEF QueueShape, Before
  <2> QED BY <1>1, <1>2, <1>3, <1>5, <2>5, <2>6 DEF RestInv
<1> QED BY <1>6, <1>7 DEF CancelWork

(* The forced completion after an execution timeout is for a slot that the *)
(* entry has.                                                              *)
LEMMA RewaitTimeoutInv ==
    ASSUME IndInv, NEW e \in Ents, RewaitTimeout(e)
    PROVE  LifeInv' /\ RestInv'
<1>0. ~Kind[e].callback /\ idx[e] # NoIdx /\ cpc[e] = "rewait"
  BY Types DEF RewaitTimeout, IndInv, EntryShape
<1>1. LifeInv'
  BY Types, CalmLife DEF RewaitTimeout, Touch, IndInv, TypeOK, TypeLife
<1>2. Wait(e) \in Ctx /\ "FORCED" \in CompTypes
  BY DEF Wait, Ctx, CompTypes
<1>3. TypeComp' /\ LookupSafe' /\ CompEnts'
  BY <1>0, <1>2, SlotOf, CallCompInv DEF RewaitTimeout, Touch
<1>4. TypeEntry' /\ TypePc' /\ TypeEnv' /\ TypeHw' /\ TypeOut'
  BY DEF RewaitTimeout, IndInv, TypeOK, TypeEntry, TypePc, TypeEnv, TypeHw, TypeOut,
         RetCodes, CallerPcs
<1>5. EntryShape' /\ QueueShape' /\ SlotShape'
  BY <1>0, <1>3, Types
  DEF RewaitTimeout, IndInv, EntryShape, QueueShape, SlotShape, CompEnts
<1> QED BY <1>1, <1>3, <1>4, <1>5 DEF RestInv

(* The last cmd_ent_put() of mlx5_cmd_invoke().                            *)
LEMMA CmdReturnInv ==
    ASSUME IndInv, NEW e \in Ents, CmdReturn(e)
    PROVE  LifeInv' /\ RestInv'
<1>1. LifeInv'
  BY PutLife DEF CmdReturn
<1>2. TypeOut'
  BY Types, TellType, ThrottleUpType DEF CmdReturn, OutcomeCodes
<1>3. /\ "returned" \in CallerPcs  /\ "returned" \notin Before
      /\ bitmask \subseteq bitmask'
  BY DEF CmdReturn, cmd_ent_put, cmd_free_index, CallerPcs, Before
<1> QED BY <1>1, <1>2, <1>3, CallerMove DEF CmdReturn

-----------------------------------------------------------------------------
(* cmd_work_handler() moves on without touching the slots.                 *)
LEMMA HandlerMove ==
    ASSUME IndInv, NEW e \in Ents, NEW v \in HandlerPcs \ {"none"},
           hpc' = [hpc EXCEPT ![e] = v],  hpc[e] # "none",
           UNCHANGED <<idx, entArr, wq, cpc>>,
           v \in {"wantSem", "gotSem", "slotErr"} => idx[e] = NoIdx,
           v \in {"slotted", "armed", "poll"} => idx[e] # NoIdx,
           v = "slotErr" => Kind[e].callback \/ done'[e],
           \A x \in Ents :
               /\ done[x] => done'[x]
               /\ slotted[x] => slotted'[x]
               /\ slotted'[x] => slotted[x] \/ Kind[x].callback \/ idx[x] # NoIdx \/ done'[x]
               /\ timer'[x] # "off" => timer[x] # "off" \/ idx[x] # NoIdx
    PROVE  TypePc' /\ EntryShape' /\ QueueShape'
<1>1. TypePc'
  BY DEF IndInv, TypeOK, TypePc
<1>2. QueueShape'
  BY Types DEF IndInv, QueueShape
<1>3. EntryShape'
  <2>1. SUFFICES ASSUME NEW x \in Ents
                 PROVE  EntryShape!(x)'
    BY DEF EntryShape
  <2>2. hpc'[x] = IF x = e THEN v ELSE hpc[x]
    BY Types
  <2> QED BY <2>2, Types DEF IndInv, EntryShape
<1> QED BY <1>1, <1>2, <1>3

(* The work queue starts the handler of its first entry.                   *)
LEMMA WorkStartInv ==
    ASSUME IndInv, WorkStart
    PROVE  LifeInv' /\ RestInv'
<1> DEFINE e == Head(wq)
<1>0. /\ wq \in Seq(Ents)  /\ wq # << >>  /\ Len(wq) \in Nat \ {0}  /\ e = wq[1]
      /\ DOMAIN wq = 1 .. Len(wq)  /\ e \in Ents  /\ 1 \in DOMAIN wq
      /\ Tail(wq) \in Seq(Ents)
      /\ DOMAIN Tail(wq) = 1 .. Len(wq) - 1
      /\ \A i \in 1 .. Len(wq) - 1 : Tail(wq)[i] = wq[i + 1]
  <2>1. wq \in Seq(Ents) /\ wq # << >>
    BY DEF WorkStart, IndInv, TypeOK, TypePc
  <2> QED BY <2>1
<1>1. /\ hpc[e] = "none"  /\ cpc[e] \notin Before
  BY <1>0 DEF IndInv, QueueShape, Before
<1>2. /\ handling' = [handling EXCEPT ![e] = TRUE]
      /\ hpc' = [hpc EXCEPT ![e] = "wantSem"]
      /\ Touch(e)  /\ wq' = Tail(wq)
      /\ UNCHANGED <<slotVars, entVars, slotted, done, cpc, envVars, hwVars,
                     outVars, throttleSem, timer, comp>>
  BY DEF WorkStart
<1> HIDE DEF e
<1>3. LifeInv'
  BY <1>0, <1>1, <1>2, Types, CalmLife DEF Touch, IndInv, TypeOK, TypeLife
<1>4. /\ TypeComp'  /\ TypeEnv'  /\ TypeHw'  /\ TypeOut'  /\ SlotShape'  /\ LookupSafe'
  BY <1>2 DEF Touch, IndInv, TypeOK, TypeComp, TypeEnv, TypeHw, TypeOut,
         SlotShape, LookupSafe
<1>5. TypeEntry' /\ TypePc'
  BY <1>0, <1>2 DEF IndInv, TypeOK, TypeEntry, TypePc, HandlerPcs
<1>6. EntryShape'
  BY <1>0, <1>1, <1>2, Types DEF IndInv, EntryShape, Before
<1>7. QueueShape'
  <2>1. \A i \in DOMAIN wq' : /\ i + 1 \in DOMAIN wq  /\ wq'[i] = wq[i + 1]
                              /\ wq'[i] # e  /\ wq'[i] \in Ents
    BY <1>0, <1>2 DEF IndInv, QueueShape
  <2>2. \A i, j \in DOMAIN wq' : i + 1 = j + 1 => i = j
    BY <1>0, <1>2
  <2>3. \A i \in DOMAIN wq' : hpc'[wq'[i]] = "none" /\ cpc'[wq'[i]] \notin Before
    BY <2>1, <1>0, <1>2, Types DEF IndInv, QueueShape, Before
  <2> QED BY <2>1, <2>2, <2>3 DEF IndInv, QueueShape, Before
<1> QED BY <1>3, <1>4, <1>5, <1>6, <1>7 DEF RestInv

(* An early failure, before the entry has a slot.                          *)
LEMMA FailEarlyType ==
    ASSUME IndInv, NEW e \in Ents, NEW r \in RetCodes, FailEarly(e, r, 0)
    PROVE  /\ refcnt' \in [Ents -> Nat]  /\ uaf' \in BOOLEAN
           /\ UNCHANGED <<bitmask, sem, pagesSem>>
           /\ ret' \in [Ents -> RetCodes]  /\ done' \in [Ents -> BOOLEAN]
           /\ \A x \in Ents : done[x] => done'[x]
           /\ Kind[e].callback \/ done'[e]
           /\ outcome' \in [Ents -> OutcomeCodes]  /\ nOut' \in [Ents -> Nat]
           /\ \A x \in Ents : refcnt'[x] > 0 => refcnt[x] > 0
<1>1. sem' = sem
  BY DEF FailEarly, IndInv, TypeOK, TypeLife
<1>2. outcome \in [Ents -> OutcomeCodes] /\ nOut \in [Ents -> Nat] /\ r \in OutcomeCodes
  BY DEF IndInv, TypeOK, TypeOut, OutcomeCodes
<1>3. CASE Kind[e].callback
  <2>1. /\ outcome' = [outcome EXCEPT ![e] = r]
        /\ nOut' = [nOut EXCEPT ![e] = @ + 1]
        /\ refcnt' = [refcnt EXCEPT ![e] = IF @ = 0 THEN 0 ELSE @ - 1]
        /\ uaf' \in BOOLEAN  /\ UNCHANGED <<ret, done, bitmask, pagesSem>>
    BY <1>3 DEF FailEarly, Tell
  <2>2. outcome' \in [Ents -> OutcomeCodes] /\ nOut' \in [Ents -> Nat]
    BY <2>1, <1>2
  <2>3. refcnt' \in [Ents -> Nat] /\ \A x \in Ents : refcnt'[x] > 0 => refcnt[x] > 0
    BY <2>1, Types
  <2> QED BY <1>1, <1>3, <2>1, <2>2, <2>3, Types
<1>4. CASE ~Kind[e].callback
  <2>1. /\ ret' = [ret EXCEPT ![e] = r]  /\ done' = [done EXCEPT ![e] = TRUE]
        /\ uaf' \in BOOLEAN  /\ UNCHANGED <<refcnt, outcome, nOut, bitmask, pagesSem>>
    BY <1>4 DEF FailEarly
  <2>2. ret' \in [Ents -> RetCodes] /\ done' \in [Ents -> BOOLEAN]
    BY <2>1, Types
  <2>3. done'[e] /\ \A x \in Ents : done[x] => done'[x]
    BY <2>1, Types
  <2>4. refcnt' \in [Ents -> Nat] /\ \A x \in Ents : refcnt'[x] > 0 => refcnt[x] > 0
    BY <2>1, Types
  <2> QED BY <1>1, <1>2, <2>1, <2>2, <2>3, <2>4
<1> QED BY <1>3, <1>4

(* down() of cmd_work_handler(), its timeout, and complete(&ent->slotted)  *)
(* after that.                                                             *)
LEMMA WorkWaitInv ==
    ASSUME IndInv, NEW e \in Ents,
           WorkDown(e) \/ WorkDownTimeout(e) \/ WorkSlotErr(e) \/ WorkExit(e)
    PROVE  LifeInv' /\ RestInv'
<1>0. /\ TypeComp'  /\ TypeEnv'  /\ TypeHw'  /\ SlotShape'  /\ LookupSafe'
  BY DEF WorkDown, WorkDownTimeout, FailEarly, WorkSlotErr, WorkExit, Touch, IndInv, TypeOK,
         TypeComp, TypeEnv, TypeHw, SlotShape, LookupSafe
<1>1. CASE WorkDown(e) \/ WorkExit(e)
  <2>1. TypeEntry' /\ TypeOut'
    BY <1>1 DEF WorkDown, WorkExit, IndInv, TypeOK, TypeEntry, TypeOut
  <2>2. TypePc' /\ EntryShape' /\ QueueShape'
    <3>1. CASE WorkDown(e)
      BY <3>1, HandlerMove DEF WorkDown, IndInv, EntryShape, HandlerPcs
    <3>2. CASE WorkExit(e)
      BY <3>2, HandlerMove DEF WorkExit, HandlerPcs
    <3> QED BY <1>1, <3>1, <3>2
  <2>3. LifeInv'
    <3>1. CASE WorkExit(e)
      BY <3>1, Types, CalmLife DEF WorkExit, IndInv, TypeOK, TypeLife
    <3> QED BY <1>1, <3>1, DownLife
  <2> QED BY <1>0, <2>1, <2>2, <2>3 DEF RestInv
<1>2. CASE WorkDownTimeout(e)
  <2>1. /\ FailEarly(e, "EBUSY", 0)  /\ "EBUSY" \in RetCodes
        /\ hpc' = [hpc EXCEPT ![e] = "slotErr"]  /\ hpc[e] = "wantSem"
        /\ idx[e] = NoIdx
        /\ UNCHANGED <<slotVars, pending, rref, pollCmd, handling, slotted, wq,
                       cpc, envVars, throttleSem, timer>>
    BY <1>2 DEF WorkDownTimeout, RetCodes, IndInv, EntryShape
  <2>2. LifeInv'
    BY <2>1, FailEarlyType, Types, CalmLife
  <2>3. TypeEntry' /\ TypeOut'
    BY <2>1, FailEarlyType DEF IndInv, TypeOK, TypeEntry, TypeOut
  <2>4. TypePc' /\ EntryShape' /\ QueueShape'
    BY <2>1, FailEarlyType, HandlerMove DEF HandlerPcs
  <2> QED BY <1>0, <2>2, <2>3, <2>4 DEF RestInv
<1>3. CASE WorkSlotErr(e)
  <2>1. LifeInv'
    BY <1>3, Types, CalmLife DEF WorkSlotErr, Touch, IndInv, TypeOK, TypeLife
  <2>2. TypeEntry' /\ TypeOut'
    BY <1>3 DEF WorkSlotErr, IndInv, TypeOK, TypeEntry, TypeOut
  <2>3. Kind[e].callback \/ done[e]
    BY <1>3, Types DEF WorkSlotErr, IndInv, EntryShape
  <2>4. \A x \in Ents : /\ slotted[x] => slotted'[x]
                        /\ slotted'[x] => slotted[x] \/ Kind[x].callback \/ done'[x]
    BY <1>3, <2>3, Types DEF WorkSlotErr
  <2>5. TypePc' /\ EntryShape' /\ QueueShape'
    BY <1>3, <2>4, HandlerMove DEF WorkSlotErr, HandlerPcs
  <2> QED BY <1>0, <2>1, <2>2, <2>5 DEF RestInv
<1> QED BY <1>1, <1>2, <1>3

(* cmd_work_handler() gets a slot: by BackedAvailable the EAGAIN branch is *)
(* never taken.                                                            *)
LEMMA WorkAllocInv ==
    ASSUME IndInv, NEW e \in Ents, WorkAlloc(e)
    PROVE  LifeInv' /\ RestInv'
<1> DEFINE s == Lowest(FreeSlots(e))
<1>0. MaxReg \in Nat /\ NoIdx \notin Slots /\ MaxReg \notin Reg
  BY MaxRegAssumption DEF Slots, NoIdx, Reg
<1>1. FreeSlots(e) # {} /\ FreeSlots(e) \subseteq Slots
  BY BackedAvailable, <1>0 DEF SlotAvailable, FreeSlots, WorkAlloc, Slots, Reg
<1>2. /\ s \in Slots  /\ (s = MaxReg) = Kind[e].page
  <2>1. s \in FreeSlots(e)
    BY <1>1, LowestIn
  <2>2. CASE Kind[e].page
    BY <2>1, <2>2, <1>1 DEF FreeSlots
  <2>3. CASE ~Kind[e].page
    BY <2>1, <2>3, <1>0, <1>1, Types DEF FreeSlots
  <2> QED BY <2>2, <2>3
<1>3. /\ cmd_alloc_index(e, s)  /\ hpc' = [hpc EXCEPT ![e] = "slotted"]
      /\ hpc[e] = "gotSem"
      /\ UNCHANGED <<ret, done, outVars, pending, rref, pollCmd, handling,
                     slotted, wq, cpc, envVars, hwVars, throttleSem, timer, comp>>
  BY <1>1 DEF WorkAlloc
<1> HIDE DEF s
<1>4. /\ idx' = [idx EXCEPT ![e] = s]  /\ entArr' = [entArr EXCEPT ![s] = e]
      /\ bitmask' = bitmask \ {s}
  BY <1>3 DEF cmd_alloc_index
<1>5. \A x \in Slots : entArr'[x] = (IF x = s THEN e ELSE entArr[x])
  BY <1>2, <1>4, Types
<1>6. TypeEntry' /\ TypePc' /\ TypeComp' /\ TypeEnv' /\ TypeHw' /\ TypeOut'
  BY <1>2, <1>3, <1>4 DEF IndInv, TypeOK, TypeEntry, TypePc, TypeComp, TypeEnv, TypeHw,
     TypeOut, HandlerPcs
<1>7. EntryShape'
  <2>1. SUFFICES ASSUME NEW x \in Ents
                 PROVE  EntryShape!(x)'
    BY DEF EntryShape
  <2>2. hpc'[x] = IF x = e THEN "slotted" ELSE hpc[x]
    BY <1>3, Types
  <2>3. idx'[x] = (IF x = e THEN s ELSE idx[x]) /\ idx[x] \in Slots \cup {NoIdx}
    BY <1>4, Types
  <2> QED BY <2>2, <2>3, <1>0, <1>2, <1>3, <1>5, Types DEF IndInv, EntryShape
<1>8. QueueShape'
  BY <1>3, Types DEF IndInv, QueueShape
<1>9. SlotShape'
  <2>1. \A i \in DOMAIN eqes : eqes[i] \in Slots
    BY DEF IndInv, TypeOK, TypeHw
  <2> QED BY <2>1, <1>3, <1>5 DEF IndInv, SlotShape
<1>10. LookupSafe'
  BY <1>3, <1>4, <1>5 DEF IndInv, LookupSafe
<1> QED BY <1>6, <1>7, <1>8, <1>9, <1>10, AllocLife DEF RestInv

(* cmd_work_handler() arms the timeout and takes references.               *)
LEMMA WorkArmInv ==
    ASSUME IndInv, NEW e \in Ents, WorkArm(e)
    PROVE  LifeInv' /\ RestInv'
<1>0. idx[e] # NoIdx /\ hpc[e] = "slotted"
  BY DEF WorkArm, IndInv, EntryShape
<1>1. /\ refcnt' = [refcnt EXCEPT ![e] =
                        cmd_ent_get(e, IF Kind[e].callback THEN 2 ELSE 1)]
      /\ uaf' \in BOOLEAN  /\ UNCHANGED <<bitmask, sem, pagesSem>>
  BY DEF WorkArm
<1>2. /\ refcnt' \in [Ents -> Nat]
      /\ \A x \in Ents : refcnt'[x] > 0 => refcnt[x] > 0
  BY <1>1, Types DEF cmd_ent_get
<1>3. LifeInv'
  BY <1>1, <1>2, Types, CalmLife DEF WorkArm
<1>4. TypeEntry'
  BY DEF WorkArm, IndInv, TypeOK, TypeEntry, TimerPcs
<1>5. /\ TypeComp'  /\ TypeEnv'  /\ TypeHw'  /\ TypeOut'  /\ SlotShape'  /\ LookupSafe'
  BY DEF WorkArm, IndInv, TypeOK, TypeComp, TypeEnv, TypeHw, TypeOut, SlotShape, LookupSafe
<1>6. \A x \in Ents : /\ slotted[x] => slotted'[x]
                      /\ slotted'[x] => slotted[x] \/ idx[x] # NoIdx
                      /\ timer'[x] # "off" => timer[x] # "off" \/ idx[x] # NoIdx
  BY <1>0, Types DEF WorkArm
<1>7. TypePc' /\ EntryShape' /\ QueueShape'
  BY <1>0, <1>6, HandlerMove DEF WorkArm, HandlerPcs
<1> QED BY <1>3, <1>4, <1>5, <1>7 DEF RestInv

(* The doorbell, or the forced completion of a command of a dead device.   *)
LEMMA WorkSendInv ==
    ASSUME IndInv, NEW e \in Ents, WorkSend(e) \/ WorkPoll(e)
    PROVE  LifeInv' /\ RestInv'
<1>0. /\ idx[e] # NoIdx  /\ hpc[e] \in {"armed", "poll"}  /\ Work(e) \in Ctx
      /\ {"FORCED", "POLLING"} \subseteq CompTypes
  BY DEF WorkSend, WorkPoll, IndInv, EntryShape, Work, Ctx, CompTypes
<1>1. PICK v \in {"comp", "poll", "exit"} : hpc' = [hpc EXCEPT ![e] = v]
  BY DEF WorkSend, WorkPoll
<1>2. /\ Touch(e)
      /\ UNCHANGED <<slotVars, pending, rref, pollCmd, syncVars, wq, cpc,
                     envVars, eqes, fwDone, outVars, throttleSem, timer>>
  BY DEF WorkSend, WorkPoll
<1>3. LifeInv'
  BY <1>0, <1>1, <1>2, Types, CalmLife DEF Touch, IndInv, TypeOK, TypeLife
<1>4. TypePc' /\ EntryShape' /\ QueueShape'
  BY <1>0, <1>1, <1>2, HandlerMove DEF HandlerPcs
<1>5. ret' \in [Ents -> RetCodes]
  BY Types DEF WorkSend, WorkPoll, RetCodes
<1>6. TypeEntry' /\ TypeEnv' /\ TypeOut'
  BY <1>2, <1>5 DEF IndInv, TypeOK, TypeEntry, TypeEnv, TypeOut
<1>7. TypeComp' /\ LookupSafe' /\ CompEnts'
  <2>1. CASE UNCHANGED comp
    BY <1>2, <2>1 DEF Touch, IndInv, TypeOK, TypeComp, LookupSafe, SlotShape, CompEnts
  <2>2. CASE \E t \in {"FORCED", "POLLING"} : CallComp(Work(e), idx[e], t)
    BY <1>0, <1>2, <2>2, SlotOf, CallCompInv DEF Touch
  <2> QED BY <2>1, <2>2 DEF WorkSend, WorkPoll
<1>8. TypeHw' /\ \A s \in Slots : fw'[s] # NoEnt => entArr'[s] \in Ents
  <2>1. UNCHANGED fw \/ fw' = [fw EXCEPT ![idx[e]] = e]
    BY DEF WorkSend, WorkPoll
  <2> QED BY <1>0, <1>2, <2>1, SlotOf DEF IndInv, TypeOK, TypeHw, SlotShape
<1>9. SlotShape'
  BY <1>2, <1>7, <1>8 DEF IndInv, SlotShape, CompEnts
<1> QED BY <1>3, <1>4, <1>6, <1>7, <1>8, <1>9 DEF RestInv

-----------------------------------------------------------------------------
CompRecord == [pc : CompPcs, slot : Slots \cup {NoIdx},
               ent : Ents \cup {NoEnt}, type : CompTypes]

(* mlx5_cmd_comp_handler() moves on in context c.                          *)
LEMMA CompMove ==
    ASSUME IndInv, NEW c \in Ctx, NEW r \in CompRecord,
           comp' = [comp EXCEPT ![c] = r],
           r.pc # "claim",  r.pc # "idle" => r.ent \in Ents,
           UNCHANGED <<slotVars, handling, slotted, pollCmd, pcVars, envVars,
                       hwVars, throttleSem>>,
           bitmask \subseteq bitmask',
           pending' \in [Ents -> BOOLEAN],  rref' \in [Ents -> BOOLEAN],
           ret' \in [Ents -> RetCodes],  done' \in [Ents -> BOOLEAN],
           timer' \in [Ents -> TimerPcs],
           outcome' \in [Ents -> OutcomeCodes],  nOut' \in [Ents -> Nat],
           \A x \in Ents : /\ done[x] => done'[x]
                           /\ timer'[x] # "off" => timer[x] # "off"
    PROVE  RestInv'
<1>0. comp \in [Ctx -> CompRecord]
  BY DEF IndInv, TypeOK, TypeComp, CompRecord
<1>1. TypeEntry' /\ TypePc' /\ TypeEnv' /\ TypeHw' /\ TypeOut'
  BY DEF IndInv, TypeOK, TypeEntry, TypePc, TypeEnv, TypeHw, TypeOut
<1>2. TypeComp'
  BY <1>0 DEF TypeComp, CompRecord
<1>3. EntryShape' /\ QueueShape'
  BY DEF IndInv, EntryShape, QueueShape
<1>4. \A d \in Ctx : comp'[d] = IF d = c THEN r ELSE comp[d]
  BY <1>0
<1>5. SlotShape' /\ LookupSafe'
  BY <1>4 DEF IndInv, SlotShape, LookupSafe
<1> QED BY <1>1, <1>2, <1>3, <1>5 DEF RestInv

(* The record of a context in its next state.                              *)
LEMMA CompAtRecord ==
    ASSUME IndInv, NEW c \in Ctx, NEW p \in CompPcs, CompAt(c, p),
           comp[c].pc \notin {"idle", "claim"}
    PROVE  /\ comp[c].ent \in Ents
           /\ \E r \in CompRecord : /\ comp' = [comp EXCEPT ![c] = r]
                                    /\ r.pc = p  /\ r.ent \in Ents
<1>0. comp \in [Ctx -> CompRecord] /\ comp[c].ent \in Ents
  BY DEF IndInv, TypeOK, TypeComp, CompRecord, SlotShape
<1> DEFINE r == [comp[c] EXCEPT !.pc = p]
<1>1. r \in CompRecord /\ r.pc = p /\ r.ent \in Ents
  BY <1>0 DEF CompRecord
<1>2. comp' = [comp EXCEPT ![c] = r]
  BY DEF CompAt
<1> QED BY <1>0, <1>1, <1>2

(* A context outside mlx5_cmd_comp_handler() has a well-typed record.      *)
LEMMA CompIdleRecord ==
    CompIdle \in CompRecord /\ CompIdle.pc = "idle"
  BY MaxRegAssumption DEF CompIdle, CompRecord, CompPcs, CompTypes, Slots

(* Touching an entry, or dropping a reference.                             *)
LEMMA TouchOrPut ==
    ASSUME IndInv, NEW e \in Ents, Touch(e) \/ cmd_ent_put(e),
           UNCHANGED <<idx, entArr, hpc, got, fgot>>,
           fpc' = "unlock" => fpc = "unlock"
    PROVE  LifeInv' /\ bitmask \subseteq bitmask'
<1>1. CASE Touch(e)
  BY <1>1, CalmLife DEF Touch, IndInv, TypeOK, TypeLife
<1>2. CASE cmd_ent_put(e)
  BY <1>2, PutLife DEF cmd_ent_put, cmd_free_index
<1> QED BY <1>1, <1>2

(* mlx5_cmd_comp_handler() looks up an entry, never NULL.                  *)
LEMMA CompClaimInv ==
    ASSUME IndInv, NEW c \in Ctx, CompClaim(c)
    PROVE  LifeInv' /\ RestInv'
<1> DEFINE e == entArr[comp[c].slot]
<1>0. comp[c] \in CompRecord /\ e \in Ents
  BY DEF CompClaim, IndInv, TypeOK, TypeComp, CompRecord, LookupSafe
<1> DEFINE p == Claimed(c, e)
<1>1. /\ p \in CompPcs \ {"claim"}
      /\ comp' = [comp EXCEPT ![c] = IF p = "idle" THEN CompIdle
                                     ELSE [@ EXCEPT !.pc = p, !.ent = e]]
  BY DEF CompClaim, Claimed, CompPcs
<1>2. /\ Touch(e)  /\ pending' = [pending EXCEPT ![e] = FALSE]
      /\ UNCHANGED <<slotVars, rref, ret, pollCmd, syncVars, pcVars, envVars,
                     hwVars, outVars, throttleSem, timer>>
  BY DEF CompClaim
<1> DEFINE r == IF p = "idle" THEN CompIdle ELSE [comp[c] EXCEPT !.pc = p, !.ent = e]
<1>3. /\ r \in CompRecord  /\ r.pc = p
      /\ p # "idle" => r.ent \in Ents
      /\ comp' = [comp EXCEPT ![c] = r]
  <2>1. comp' = [comp EXCEPT ![c] = r]
    BY <1>1
  <2>2. CASE p = "idle"
    BY <2>1, <2>2, CompIdleRecord
  <2>3. CASE p # "idle"
    BY <2>1, <2>3, <1>0, <1>1 DEF CompRecord
  <2> QED BY <2>2, <2>3
<1>4. LifeInv' /\ bitmask \subseteq bitmask'
  BY <1>0, <1>2, TouchOrPut
<1>5. /\ pending' \in [Ents -> BOOLEAN]  /\ rref' \in [Ents -> BOOLEAN]
      /\ ret' \in [Ents -> RetCodes]  /\ done' \in [Ents -> BOOLEAN]
      /\ timer' \in [Ents -> TimerPcs]
      /\ outcome' \in [Ents -> OutcomeCodes]  /\ nOut' \in [Ents -> Nat]
  BY <1>0, <1>2 DEF IndInv, TypeOK, TypeEntry, TypeOut
<1> HIDE DEF r, p, e
<1> QED BY <1>1, <1>2, <1>3, <1>4, <1>5, CompMove

(* The late put of mlx5_cmd_comp_handler().                                *)
LEMMA CompLatePutInv ==
    ASSUME IndInv, NEW c \in Ctx, CompLatePut(c)
    PROVE  LifeInv' /\ RestInv'
<1>1. comp[c].ent \in Ents
  BY DEF CompLatePut, IndInv, SlotShape
<1>2. LifeInv' /\ bitmask \subseteq bitmask'
  BY <1>1, TouchOrPut DEF CompLatePut
<1>3. /\ pending' \in [Ents -> BOOLEAN]  /\ rref' \in [Ents -> BOOLEAN]
      /\ ret' \in [Ents -> RetCodes]  /\ done' \in [Ents -> BOOLEAN]
      /\ timer' \in [Ents -> TimerPcs]
      /\ outcome' \in [Ents -> OutcomeCodes]  /\ nOut' \in [Ents -> Nat]
  BY DEF CompLatePut, IndInv, TypeOK, TypeEntry, TypeOut
<1> QED BY <1>2, <1>3, CompIdleRecord, CompMove DEF CompLatePut, CompReturn

(* The put of the cancelled timeout.                                       *)
LEMMA CompCancelInv ==
    ASSUME IndInv, NEW c \in Ctx, CompCancel(c)
    PROVE  LifeInv' /\ RestInv'
<1> DEFINE e == comp[c].ent
<1>1. /\ CompAt(c, "rput")  /\ "rput" \in CompPcs
      /\ comp[c].pc \notin {"idle", "claim"}
      /\ UNCHANGED <<entryVars, pcVars, envVars, hwVars, outVars, throttleSem>>
  BY DEF CompCancel, CompPcs
<1>2. e \in Ents
  BY <1>1, CompAtRecord
<1>3. PICK r \in CompRecord : /\ comp' = [comp EXCEPT ![c] = r]
                              /\ r.pc = "rput"  /\ r.ent \in Ents
  BY <1>1, CompAtRecord
<1>4. Touch(e) \/ cmd_ent_put(e)
  BY DEF CompCancel
<1>5. UNCHANGED timer \/ timer' = [timer EXCEPT ![e] = "off"]
  BY DEF CompCancel
<1> HIDE DEF e
<1>6. LifeInv' /\ bitmask \subseteq bitmask'
  BY <1>1, <1>2, <1>4, TouchOrPut
<1>7. /\ pending' \in [Ents -> BOOLEAN]  /\ rref' \in [Ents -> BOOLEAN]
      /\ ret' \in [Ents -> RetCodes]  /\ done' \in [Ents -> BOOLEAN]
      /\ timer' \in [Ents -> TimerPcs]
      /\ outcome' \in [Ents -> OutcomeCodes]  /\ nOut' \in [Ents -> Nat]
      /\ \A x \in Ents : timer'[x] # "off" => timer[x] # "off"
  BY <1>1, <1>2, <1>5 DEF IndInv, TypeOK, TypeEntry, TypeOut, TimerPcs
<1> QED BY <1>1, <1>3, <1>6, <1>7, CompMove

(* The put of the real completion.                                         *)
LEMMA CompRealPutInv ==
    ASSUME IndInv, NEW c \in Ctx, CompRealPut(c)
    PROVE  LifeInv' /\ RestInv'
<1> DEFINE e == comp[c].ent
<1>1. /\ CompAt(c, "finish")  /\ "finish" \in CompPcs
      /\ comp[c].pc \notin {"idle", "claim"}
      /\ UNCHANGED <<slotVars, pending, ret, pollCmd, syncVars, pcVars, envVars,
                     hwVars, outVars, throttleSem, timer>>
  BY DEF CompRealPut, CompPcs
<1>2. e \in Ents
  BY <1>1, CompAtRecord
<1>3. PICK r \in CompRecord : /\ comp' = [comp EXCEPT ![c] = r]
                              /\ r.pc = "finish"  /\ r.ent \in Ents
  BY <1>1, CompAtRecord
<1>4. Touch(e) \/ cmd_ent_put(e)
  BY DEF CompRealPut
<1>5. UNCHANGED rref \/ rref' = [rref EXCEPT ![e] = TRUE]
  BY DEF CompRealPut
<1> HIDE DEF e
<1>6. LifeInv' /\ bitmask \subseteq bitmask'
  BY <1>1, <1>2, <1>4, TouchOrPut
<1>7. /\ pending' \in [Ents -> BOOLEAN]  /\ rref' \in [Ents -> BOOLEAN]
      /\ ret' \in [Ents -> RetCodes]  /\ done' \in [Ents -> BOOLEAN]
      /\ timer' \in [Ents -> TimerPcs]
      /\ outcome' \in [Ents -> OutcomeCodes]  /\ nOut' \in [Ents -> Nat]
  BY <1>1, <1>2, <1>5 DEF IndInv, TypeOK, TypeEntry, TypeOut
<1> QED BY <1>1, <1>3, <1>6, <1>7, CompMove

(* The callback or the wakeup at the end of mlx5_cmd_comp_handler().       *)
LEMMA CompFinishInv ==
    ASSUME IndInv, NEW c \in Ctx, CompFinish(c)
    PROVE  LifeInv' /\ RestInv'
<1> DEFINE e == comp[c].ent
           q == IF Trig(c) THEN "ENXIO" ELSE ret[e]
<1>1. /\ comp[c].pc = "finish"  /\ CompReturn(c)
      /\ ret' = [ret EXCEPT ![e] = q]
      /\ UNCHANGED <<slotVars, pending, rref, pollCmd, handling, slotted, pcVars,
                     envVars, hwVars, throttleSem, timer>>
  BY DEF CompFinish
<1>2. e \in Ents
  BY <1>1 DEF IndInv, SlotShape
<1>3. q \in RetCodes
  BY <1>2, Types DEF RetCodes
<1>4. \/ cmd_ent_put(e) /\ Tell(e, q) /\ UNCHANGED done
      \/ Touch(e) /\ done' = [done EXCEPT ![e] = TRUE] /\ UNCHANGED outVars
  BY DEF CompFinish
<1> HIDE DEF e, q
<1>5. LifeInv' /\ bitmask \subseteq bitmask'
  BY <1>1, <1>2, <1>4, TouchOrPut
<1>6. outcome' \in [Ents -> OutcomeCodes] /\ nOut' \in [Ents -> Nat]
  BY <1>2, <1>3, <1>4 DEF IndInv, TypeOK, TypeOut, Tell, OutcomeCodes
<1>7. /\ pending' \in [Ents -> BOOLEAN]  /\ rref' \in [Ents -> BOOLEAN]
      /\ ret' \in [Ents -> RetCodes]  /\ done' \in [Ents -> BOOLEAN]
      /\ timer' \in [Ents -> TimerPcs]
      /\ \A x \in Ents : done[x] => done'[x]
  BY <1>1, <1>2, <1>3, <1>4 DEF IndInv, TypeOK, TypeEntry
<1> QED BY <1>1, <1>5, <1>6, <1>7, CompIdleRecord, CompMove DEF CompReturn

-----------------------------------------------------------------------------
(* cb_timeout_handler(): the armed timeout belongs to an entry with a      *)
(* slot.                                                                   *)
LEMMA TimerInv ==
    ASSUME IndInv, NEW e \in Ents, TimerFire(e) \/ TimerRecover(e) \/ TimerPut(e)
    PROVE  LifeInv' /\ RestInv'
<1>0. /\ timer[e] # "off"  /\ idx[e] # NoIdx  /\ Tmo(e) \in Ctx  /\ "FORCED" \in CompTypes
      /\ UNCHANGED <<slotVars, pending, rref, pollCmd, syncVars, pcVars, envVars,
                     hwVars, outVars, throttleSem>>
  BY DEF TimerFire, TimerRecover, TimerPut, IndInv, EntryShape, Tmo, Ctx, CompTypes
<1>1. LifeInv' /\ bitmask \subseteq bitmask'
  <2>1. CASE TimerFire(e)
    BY <2>1, Types, CalmLife DEF TimerFire, IndInv, TypeOK, TypeLife
  <2>2. CASE TimerRecover(e) \/ TimerPut(e)
    BY <2>2, <1>0, TouchOrPut DEF TimerRecover, TimerPut
  <2> QED BY <2>1, <2>2
<1>2. PICK v \in TimerPcs : timer' = [timer EXCEPT ![e] = v]
  BY DEF TimerFire, TimerRecover, TimerPut, TimerPcs
<1>3. ret' \in [Ents -> RetCodes]
  BY Types DEF TimerFire, TimerRecover, TimerPut, RetCodes
<1>4. TypeEntry' /\ TypePc' /\ TypeEnv' /\ TypeHw' /\ TypeOut'
  BY <1>0, <1>2, <1>3
  DEF IndInv, TypeOK, TypeEntry, TypePc, TypeEnv, TypeHw, TypeOut
<1>5. EntryShape' /\ QueueShape'
  BY <1>0, <1>2, Types DEF IndInv, EntryShape, QueueShape
<1>6. TypeComp' /\ LookupSafe' /\ CompEnts'
  <2>1. CASE UNCHANGED comp
    BY <1>0, <1>1, <2>1 DEF IndInv, TypeOK, TypeComp, LookupSafe, SlotShape, CompEnts
  <2>2. CASE CallComp(Tmo(e), idx[e], "FORCED") /\ UNCHANGED bitmask
    BY <1>0, <2>2, SlotOf, CallCompInv
  <2> QED BY <2>1, <2>2 DEF TimerFire, TimerRecover, TimerPut, Touch
<1>7. SlotShape'
  BY <1>0, <1>6 DEF IndInv, SlotShape, CompEnts
<1> QED BY <1>1, <1>4, <1>5, <1>6, <1>7 DEF RestInv

(* The firmware reports only slots that had a command.                     *)
LEMMA FwDoneInv ==
    ASSUME IndInv, NEW s \in Slots, FwDone(s)
    PROVE  LifeInv' /\ RestInv'
<1>0. /\ fw \in [Slots -> Ents \cup {NoEnt}]  /\ eqes \in Seq(Slots)
      /\ fwDone \subseteq Ents  /\ fw[s] \in Ents  /\ entArr[s] \in Ents
  BY DEF FwDone, IndInv, TypeOK, TypeHw, SlotShape
<1>1. /\ fw' = [fw EXCEPT ![s] = NoEnt]  /\ fwDone' = fwDone \cup {fw[s]}
      /\ eqes' = eqes \/ eqes' = Append(eqes, s)
      /\ UNCHANGED <<lifeVars, entryVars, pcVars, envVars, outVars, throttleSem,
                     timer, comp>>
  BY DEF FwDone
<1>2. LifeInv'
  BY <1>1, CalmLife DEF IndInv, TypeOK, TypeLife
<1>3. TypeHw'
  BY <1>0, <1>1 DEF TypeHw
<1>4. \A i \in DOMAIN eqes' : eqes'[i] = s \/ (i \in DOMAIN eqes /\ eqes'[i] = eqes[i])
  BY <1>0, <1>1
<1>5. SlotShape'
  BY <1>0, <1>1, <1>4 DEF IndInv, SlotShape
<1>6. /\ TypeEntry'  /\ TypePc'  /\ TypeComp'  /\ TypeEnv'  /\ TypeOut'
      /\ EntryShape'  /\ QueueShape'  /\ LookupSafe'
  BY <1>1 DEF IndInv, TypeOK, TypeEntry, TypePc, TypeComp, TypeEnv, TypeOut,
              EntryShape, QueueShape, LookupSafe
<1> QED BY <1>2, <1>3, <1>5, <1>6 DEF RestInv

(* cmd_comp_notifier() passes on a slot that had a command.                *)
LEMMA IrqTakeInv ==
    ASSUME IndInv, IrqTake
    PROVE  LifeInv' /\ RestInv'
<1>0. /\ eqes \in Seq(Slots)  /\ eqes # << >>  /\ eqes' = Tail(eqes)
      /\ UNCHANGED <<lifeVars, entryVars, pcVars, envVars, fw, fwDone, outVars,
                     throttleSem, timer>>
  BY DEF IrqTake, IndInv, TypeOK, TypeHw
<1>1. /\ Head(eqes) \in Slots  /\ Head(eqes) = eqes[1]  /\ 1 \in DOMAIN eqes
      /\ eqes' \in Seq(Slots)
      /\ \A i \in DOMAIN eqes' : i + 1 \in DOMAIN eqes /\ eqes'[i] = eqes[i + 1]
  BY <1>0
<1>2. entArr[Head(eqes)] \in Ents /\ Irq \in Ctx /\ "EVENT" \in CompTypes
  BY <1>1 DEF IndInv, SlotShape, Ctx, CompTypes
<1>3. LifeInv'
  BY <1>0, CalmLife DEF IndInv, TypeOK, TypeLife
<1>4. TypeComp' /\ LookupSafe' /\ CompEnts'
  <2>1. CASE UNCHANGED comp
    BY <1>0, <2>1 DEF IndInv, TypeOK, TypeComp, LookupSafe, SlotShape, CompEnts
  <2>2. CASE CallComp(Irq, Head(eqes), "EVENT")
    BY <1>0, <1>1, <1>2, <2>2, CallCompInv
  <2> QED BY <2>1, <2>2 DEF IrqTake
<1>5. SlotShape'
  BY <1>0, <1>1, <1>4 DEF IndInv, SlotShape, CompEnts
<1>6. /\ TypeEntry'  /\ TypePc'  /\ TypeHw'  /\ TypeEnv'  /\ TypeOut'
      /\ EntryShape'  /\ QueueShape'
  BY <1>0, <1>1 DEF IndInv, TypeOK, TypeEntry, TypePc, TypeHw, TypeEnv, TypeOut,
              EntryShape, QueueShape
<1> QED BY <1>3, <1>4, <1>5, <1>6 DEF RestInv

-----------------------------------------------------------------------------
(* A step of the flush or the administrator that leaves entries alone.     *)
LEMMA EnvMove ==
    ASSUME IndInv, TypeEnv',
           UNCHANGED <<entryVars, pcVars, fw, fwDone, outVars, throttleSem,
                       timer, comp, bitmask>>,
           eqes' = eqes \/ eqes' = << >>,
           \A s \in Slots : s \in ftodo' \cup fheld' =>
               s \in ftodo \cup fheld \/ s \notin bitmask
    PROVE  RestInv'
<1>1. TypeHw' /\ \A i \in DOMAIN eqes' : i \in DOMAIN eqes /\ eqes'[i] = eqes[i]
  <2>1. CASE eqes' = eqes
    BY <2>1 DEF IndInv, TypeOK, TypeHw
  <2>2. CASE eqes' = << >>
    <3>1. eqes' \in Seq(Slots) /\ DOMAIN eqes' = {}
      BY <2>2
    <3> QED BY <3>1 DEF IndInv, TypeOK, TypeHw
  <2> QED BY <2>1, <2>2
<1>2. /\ TypeEntry'  /\ TypePc'  /\ TypeComp'  /\ TypeOut'  /\ EntryShape'  /\ QueueShape'
  BY DEF IndInv, TypeOK, TypeEntry, TypePc, TypeComp, TypeOut, EntryShape, QueueShape
<1>3. SlotShape' /\ LookupSafe'
  BY <1>1 DEF IndInv, SlotShape, LookupSafe
<1> QED BY <1>1, <1>2, <1>3 DEF RestInv

(* The device fails.                                                       *)
LEMMA ErrorInv ==
    ASSUME IndInv, PciOffline \/ DevError
    PROVE  LifeInv' /\ RestInv'
<1>1. LifeInv'
  BY CalmLife DEF PciOffline, DevError, IndInv, TypeOK, TypeLife
<1>2. TypeEnv'
  BY DEF PciOffline, DevError, IndInv, TypeOK, TypeEnv, FlushPcs
<1> QED BY <1>1, <1>2, EnvMove DEF PciOffline, DevError

(* mlx5_cmd_flush() takes the permits and gives them back.                 *)
LEMMA FlushTryInv ==
    ASSUME IndInv, FlushTry \/ FlushUnlock
    PROVE  LifeInv' /\ RestInv'
<1>1. TypeEnv'
  BY MaxRegAssumption DEF FlushTry, FlushUnlock, IndInv, TypeOK, TypeEnv, FlushPcs
<1> QED BY <1>1, DrainLife, EnvMove DEF FlushTry, FlushUnlock

(* mlx5_cmd_trigger_completions() finds an entry in every slot in use.     *)
LEMMA FlushTriggerInv ==
    ASSUME IndInv, FlushTrigger
    PROVE  LifeInv' /\ RestInv'
<1> DEFINE hit(e) == \E s \in Slots \ bitmask : entArr[s] = e
<1>1. /\ refcnt' = [e \in Ents |-> IF hit(e) THEN cmd_ent_get(e, 1) ELSE refcnt[e]]
      /\ uaf' \in BOOLEAN  /\ ftodo' = Slots \ bitmask  /\ fheld' = Slots \ bitmask
      /\ fpc' \in {"try", "comp"}
      /\ UNCHANGED <<bitmask, sem, pagesSem, entryVars, pcVars, modeVars,
                     devVars, eqVars, adminVars, fgot, hwVars, outVars,
                     throttleSem, timer, comp>>
  BY DEF FlushTrigger
<1> HIDE DEF hit
<1>2. /\ refcnt' \in [Ents -> Nat]
      /\ \A e \in Ents : refcnt'[e] > 0 => refcnt[e] > 0
  BY <1>1 DEF cmd_ent_get, IndInv, TypeOK, TypeLife
<1>3. LifeInv'
  BY <1>1, <1>2, CalmLife
<1>4. TypeEnv'
  BY <1>1 DEF IndInv, TypeOK, TypeEnv, FlushPcs
<1> QED BY <1>1, <1>3, <1>4, EnvMove

(* The forced completions of mlx5_cmd_trigger_completions().               *)
LEMMA FlushCompInv ==
    ASSUME IndInv, FlushComp
    PROVE  LifeInv' /\ RestInv'
<1>1. LifeInv'
  BY CalmLife DEF FlushComp, IndInv, TypeOK, TypeLife
<1>2. TypeEnv' /\ ftodo' \subseteq ftodo /\ fheld' = fheld /\ ftodo \subseteq Slots
  BY DEF FlushComp, IndInv, TypeOK, TypeEnv, FlushPcs
<1>3. CASE ftodo = {}
  BY <1>1, <1>2, <1>3, EnvMove DEF FlushComp
<1>4. CASE ftodo # {}
  <2> DEFINE s == Lowest(ftodo)
  <2>1. /\ s \in Slots  /\ entArr[s] \in Ents  /\ Flush \in Ctx  /\ "FORCED" \in CompTypes
    BY <1>2, <1>4, LowestIn DEF IndInv, LookupSafe, Ctx, CompTypes
  <2>2. /\ CallComp(Flush, s, "FORCED")
        /\ UNCHANGED <<lifeVars, entryVars, pcVars, hwVars, outVars, throttleSem, timer>>
    BY <1>4 DEF FlushComp
  <2> HIDE DEF s
  <2>3. TypeComp' /\ LookupSafe' /\ CompEnts'
    BY <1>2, <2>1, <2>2, CallCompInv
  <2>4. SlotShape'
    BY <2>2, <2>3 DEF IndInv, SlotShape, CompEnts
  <2>5. /\ TypeEntry'  /\ TypePc'  /\ TypeHw'  /\ TypeOut'  /\ EntryShape'  /\ QueueShape'
    BY <2>2 DEF IndInv, TypeOK, TypeEntry, TypePc, TypeHw, TypeOut, EntryShape, QueueShape
  <2> QED BY <1>1, <1>2, <2>3, <2>4, <2>5 DEF RestInv
<1> QED BY <1>3, <1>4

(* The puts of mlx5_cmd_trigger_completions().                             *)
LEMMA FlushPutInv ==
    ASSUME IndInv, FlushPut
    PROVE  LifeInv' /\ RestInv'
<1> DEFINE s == Lowest(fheld)
<1>1. /\ s \in Slots  /\ entArr[s] \in Ents
  BY LowestIn DEF FlushPut, IndInv, TypeOK, TypeEnv, LookupSafe
<1>2. /\ cmd_ent_put(entArr[s])  /\ fheld' \subseteq fheld  /\ fpc' \in {"try", "put"}
      /\ UNCHANGED <<entryVars, pcVars, modeVars, devVars, eqVars, adminVars,
                     fgot, ftodo, hwVars, outVars, throttleSem, timer, comp>>
  BY DEF FlushPut
<1> HIDE DEF s
<1>3. LifeInv' /\ bitmask \subseteq bitmask'
  BY <1>1, <1>2, TouchOrPut
<1>4. /\ TypeEntry'  /\ TypePc'  /\ TypeComp'  /\ TypeEnv'  /\ TypeHw'  /\ TypeOut'
  BY <1>2 DEF IndInv, TypeOK, TypeEntry, TypePc, TypeComp, TypeEnv, TypeHw, TypeOut,
              FlushPcs
<1>5. /\ EntryShape'  /\ QueueShape'  /\ SlotShape'  /\ LookupSafe'
  BY <1>2, <1>3 DEF IndInv, EntryShape, QueueShape, SlotShape, LookupSafe
<1> QED BY <1>3, <1>4, <1>5 DEF RestInv

(* create_async_eqs() and destroy_async_eqs(), with mlx5_cmd_change_mod()  *)
(* and mlx5_cmd_allowed_opcode().                                          *)
LEMMA AdminInv ==
    ASSUME IndInv, AdminNext
    PROVE  LifeInv' /\ RestInv'
<1>1. CASE AdminDown
  <2>1. TypeEnv'
    BY <1>1, MaxRegAssumption DEF AdminDown, IndInv, TypeOK, TypeEnv
  <2> QED BY <1>1, <2>1, DrainLife, EnvMove DEF AdminDown
<1>2. CASE AdminApply
  <2>1. NextPhase[phase] \in Phases
    BY <1>2 DEF AdminApply, NextPhase, Locked, Phases
  <2>2. mode' \in {"POLLING", "EVENTS"} /\ allowed' \in {"ALL", "EQ"}
    BY <1>2 DEF AdminApply, IndInv, TypeOK, TypeEnv
  <2>3. TypeEnv'
    BY <1>2, <2>1, <2>2, MaxRegAssumption DEF AdminApply, IndInv, TypeOK, TypeEnv
  <2> QED BY <1>2, <2>3, DrainLife, EnvMove DEF AdminApply
<1>3. CASE AdminStep
  <2>1. LifeInv'
    BY <1>3, CalmLife DEF AdminStep, IndInv, TypeOK, TypeLife
  <2>2. TypeEnv'
    BY <1>3 DEF AdminStep, IndInv, TypeOK, TypeEnv, Phases
  <2> QED BY <1>3, <2>1, <2>2, EnvMove DEF AdminStep
<1> QED BY <1>1, <1>2, <1>3 DEF AdminNext

-----------------------------------------------------------------------------
(* The two halves are the invariant.                                       *)
LEMMA Halves ==
    ASSUME LifeInv', RestInv'
    PROVE  IndInv'
  BY DEF LifeInv, RestInv, IndInv, TypeOK

(* The state that mlx5_cmd_enable() leaves satisfies the invariant: every  *)
(* permit of sem has its slot.                                             *)
THEOREM InitInd == Init => IndInv
<1> SUFFICES ASSUME Init PROVE IndInv
  OBVIOUS
<1>0. MaxReg \in Nat \ {0} /\ NoEnt \notin Ents /\ Reconfig \in BOOLEAN
  BY MaxRegAssumption, EntsAssumption, SwitchAssumption
<1>1. TypeLife
  BY <1>0 DEF Init, TypeLife
<1>2. TypeEntry /\ TypePc
  <2>1. << >> \in Seq(Ents)
    OBVIOUS
  <2>2. TypePc
    BY <2>1 DEF Init, TypePc, HandlerPcs, CallerPcs
  <2> QED BY <2>2 DEF Init, TypeEntry, RetCodes, TimerPcs
<1>3. TypeComp
  <2>1. comp = [c \in Ctx |-> CompIdle]
    BY DEF Init
  <2> QED BY <2>1, CompIdleRecord DEF TypeComp, CompRecord
<1>4. TypeEnv
  <2>1. eqUp \in BOOLEAN /\ nbReg \in BOOLEAN /\ offline \in BOOLEAN
    BY Zenon DEF Init
  <2>2. CASE Reconfig
    BY <1>0, <2>1, <2>2 DEF Init, TypeEnv, Phases, FlushPcs
  <2>3. CASE ~Reconfig
    BY <1>0, <2>1, <2>3 DEF Init, TypeEnv, Phases, FlushPcs
  <2> QED BY <2>2, <2>3
<1>5. TypeHw
  BY DEF Init, TypeHw
<1>6. TypeOut
  <2>1. ThrottleMax \in Nat
    BY <1>0 DEF ThrottleMax
  <2> QED BY <2>1 DEF Init, TypeOut, OutcomeCodes
<1>7. EntryShape
  BY DEF Init, EntryShape
<1>8. QueueShape
  BY DEF Init, QueueShape
<1>9. SlotShape /\ LookupSafe
  BY CompIdleRecord DEF Init, SlotShape, LookupSafe
<1>10. SlotExclusive /\ PagesExclusive
  BY <1>0 DEF Init, SlotExclusive, PagesExclusive, HoldsPages
<1>11. PermitsBacked
  <2>1. Claimants = {} /\ bitmask \cap Reg = 0 .. MaxReg - 1
    BY <1>0 DEF Init, Claimants, Slots, Reg
  <2>2. Cardinality(Claimants) = 0
    BY <2>1, FS_EmptySet
  <2>3. Cardinality(bitmask \cap Reg) = MaxReg
    <3>1. Cardinality(0 .. MaxReg - 1) = MaxReg
      BY <1>0, FS_Interval
    <3> QED BY <2>1, <3>1, Zenon
  <2>4. sem = MaxReg /\ got = 0 /\ fgot = 0
    BY DEF Init
  <2>5. Drained(got) = 0 /\ Drained(fgot) = 0
    BY <1>0, <2>4 DEF Drained
  <2> QED BY <1>0, <2>2, <2>3, <2>4, <2>5 DEF PermitsBacked
<1> QED BY <1>1, <1>2, <1>3, <1>4, <1>5, <1>6, <1>7, <1>8, <1>9, <1>10, <1>11
        DEF IndInv, TypeOK

(* Every step of every context keeps the invariant, whatever fails.        *)
THEOREM StepInd == IndInv /\ [Next]_vars => IndInv'
<1> SUFFICES ASSUME IndInv, [Next]_vars PROVE IndInv'
  OBVIOUS
<1>1. CASE UNCHANGED vars
  <2>1. LifeInv'
    BY <1>1, CalmLife DEF vars, IndInv, TypeOK, TypeLife
  <2>2. TypeEnv' /\ RestInv'
    <3>1. TypeEnv'
      BY <1>1 DEF vars, IndInv, TypeOK, TypeEnv
    <3> QED BY <1>1, <3>1, EnvMove DEF vars
  <2> QED BY <2>1, <2>2, Halves
<1>2. CASE Next
  <2>1. CASE \E e \in Ents : CmdRefuse(e) \/ CmdExec(e) \/ CallerStep(e)
    BY <2>1, CmdExecInv, WaitInv, SubmitInv, CancelWorkInv, RewaitTimeoutInv, CmdReturnInv, Halves
    DEF CallerStep
  <2>2. CASE \E e \in Ents : HandlerStep(e) \/ TimerStep(e)
    BY <2>2, WorkWaitInv, WorkAllocInv, WorkArmInv, WorkSendInv, TimerInv, Halves
    DEF HandlerStep, TimerStep
  <2>3. CASE \E c \in Ctx : CompStep(c)
    BY <2>3, CompClaimInv, CompLatePutInv, CompCancelInv, CompRealPutInv, CompFinishInv, Halves
    DEF CompStep
  <2>4. CASE \E s \in Slots : FwDone(s)
    BY <2>4, FwDoneInv, Halves
  <2>5. CASE WorkStart \/ IrqTake \/ PciOffline \/ DevError
    BY <2>5, WorkStartInv, IrqTakeInv, ErrorInv, Halves
  <2>6. CASE FlushStep
    BY <2>6, FlushTryInv, FlushTriggerInv, FlushCompInv, FlushPutInv, Halves DEF FlushStep
  <2>7. CASE AdminNext
    BY <2>7, AdminInv, Halves
  <2> QED BY <1>2, <2>1, <2>2, <2>3, <2>4, <2>5, <2>6, <2>7 DEF Next
<1> QED BY <1>1, <1>2

(* The invariant holds in every reachable state, for every number of       *)
(* slots and commands, of every kind, with every fault, on one CPU or on   *)
(* several.                                                                *)
THEOREM Invariance == Spec => []IndInv
  BY InitInd, StepInd, PTL DEF Spec

(* The types of cmd.c's state are kept: no semaphore or reference count    *)
(* goes below zero and every index stays within the slots.                 *)
THEOREM TypeCorrect == Spec => []TypeOK
<1>1. IndInv => TypeOK
  BY DEF IndInv
<1> QED BY <1>1, Invariance, PTL

(* Two live commands never share a slot, and cmd->ent_arr leads back from  *)
(* a slot to its command, even after timeouts, late completions and        *)
(* flushes.                                                                *)
THEOREM Exclusive == Spec => []SlotExclusive
<1>1. IndInv => SlotExclusive
  BY DEF IndInv
<1> QED BY <1>1, Invariance, PTL

(* Whoever gets a permit of sem finds a free slot: cmd_alloc_index() never *)
(* fails in cmd_work_handler().                                            *)
THEOREM Available == Spec => []SlotAvailable
  BY BackedAvailable, Invariance, PTL

(* mlx5_cmd_comp_handler() and the flush never look up an empty slot.      *)
THEOREM LookupsSafe == Spec => []LookupSafe
<1>1. IndInv => LookupSafe
  BY DEF IndInv
<1> QED BY <1>1, Invariance, PTL

-----------------------------------------------------------------------------
(* The rest of FullInv, on top of IndInv.                                  *)

(* What a step may do to the slots and to the references of the entries    *)
(* that have one: nothing that ends a life, one put, or one allocation.    *)
LEMMA SlotSteps ==
    ASSUME IndInv, Next
    PROVE  \/ /\ UNCHANGED <<bitmask, idx>>
              /\ \A e \in Ents : idx[e] # NoIdx /\ refcnt[e] > 0 => refcnt'[e] > 0
           \/ UNCHANGED idx /\ \E e \in Ents : cmd_ent_put(e)
           \/ \E e \in Ents : WorkAlloc(e) /\ cmd_alloc_index(e, Lowest(FreeSlots(e)))
<1> DEFINE Calm == /\ UNCHANGED <<bitmask, idx>>
                   /\ \A e \in Ents : idx[e] # NoIdx /\ refcnt[e] > 0 => refcnt'[e] > 0
           Put == UNCHANGED idx /\ \E e \in Ents : cmd_ent_put(e)
           Alloc == \E e \in Ents : WorkAlloc(e) /\ cmd_alloc_index(e, Lowest(FreeSlots(e)))
<1> SUFFICES Calm \/ Put \/ Alloc
  OBVIOUS
<1>0. refcnt \in [Ents -> Nat]
  BY DEF IndInv, TypeOK, TypeLife
<1>1. ASSUME NEW e \in Ents, CmdRefuse(e) \/ CmdExec(e) \/ CallerStep(e)
      PROVE  Calm \/ Put
  <2>1. CASE Submit(e)
    BY <1>0, <2>1 DEF Submit
  <2>2. CASE CmdReturn(e)
    BY <2>2 DEF CmdReturn
  <2> QED BY <1>1, <2>1, <2>2
          DEF CallerStep, CmdRefuse, CmdExec, ThrottleDown, SubmitFails, WaitStep,
              HandlingTimeout, CancelWork, ExecTimeout, Recover, RewaitTimeout, Touch
<1>2. ASSUME NEW e \in Ents, HandlerStep(e)
      PROVE  Calm \/ Alloc
  <2>1. CASE WorkDownTimeout(e)
    <3>1. idx[e] = NoIdx
      BY <2>1 DEF WorkDownTimeout, IndInv, EntryShape
    <3> QED BY <1>0, <2>1, <3>1 DEF WorkDownTimeout, FailEarly
  <2>2. CASE WorkAlloc(e)
    <3>1. FreeSlots(e) # {}
      BY <2>2, BackedAvailable DEF WorkAlloc, SlotAvailable
    <3> QED BY <2>2, <3>1 DEF WorkAlloc
  <2>3. CASE WorkArm(e)
    BY <1>0, <2>3 DEF WorkArm, cmd_ent_get
  <2> QED BY <1>2, <2>1, <2>2, <2>3
          DEF HandlerStep, WorkDown, WorkSlotErr, WorkSend, WorkPoll, WorkExit, Touch
<1>3. ASSUME NEW e \in Ents, TimerStep(e)
      PROVE  Calm \/ Put
  BY <1>3 DEF TimerStep, TimerFire, TimerRecover, TimerPut, Touch
<1>4. ASSUME NEW c \in Ctx, CompStep(c)
      PROVE  Calm \/ Put
  <2>1. comp[c].pc \notin {"idle", "claim"} => comp[c].ent \in Ents
    BY DEF IndInv, SlotShape
  <2> QED BY <1>4, <2>1 DEF CompStep, CompClaim, CompLatePut, CompCancel,
                            CompRealPut, CompFinish, Touch
<1>5. ASSUME NEW s \in Slots, FwDone(s)
      PROVE  Calm
  BY <1>5 DEF FwDone
<1>6. CASE WorkStart \/ IrqTake \/ PciOffline \/ DevError \/ AdminNext
  BY <1>6 DEF WorkStart, IrqTake, PciOffline, DevError, AdminNext, AdminDown,
              AdminApply, AdminStep, Touch
<1>7. CASE FlushStep
  <2>1. CASE FlushTrigger
    BY <1>0, <2>1 DEF FlushTrigger, cmd_ent_get
  <2>2. CASE FlushPut
    <3>1. fheld \subseteq Slots /\ fheld # {}
      BY <2>2 DEF FlushPut, IndInv, TypeOK, TypeEnv
    <3>2. Lowest(fheld) \in fheld
      BY <3>1, LowestIn
    <3>3. entArr[Lowest(fheld)] \in Ents
      BY <3>1, <3>2 DEF IndInv, LookupSafe
    <3> QED BY <2>2, <3>3 DEF FlushPut
  <2> QED BY <1>7, <2>1, <2>2 DEF FlushStep, FlushTry, FlushComp, FlushUnlock
<1> QED BY <1>1, <1>2, <1>3, <1>4, <1>5, <1>6, <1>7 DEF Next

(* Only the put that frees the pages slot ends the life of the command     *)
(* that has it, and only cmd_work_handler() takes the slot.                *)
LEMMA PagesBackedStep ==
    ASSUME IndInv, PagesBacked, [Next]_vars
    PROVE  PagesBacked'
<1>0. /\ refcnt \in [Ents -> Nat]  /\ idx \in [Ents -> Slots \cup {NoIdx}]
      /\ MaxReg # NoIdx  /\ MaxReg \in Slots
  BY MaxRegAssumption DEF IndInv, TypeOK, TypeLife, TypeEntry, NoIdx, Slots
<1>1. CASE UNCHANGED vars
  BY <1>1 DEF vars, PagesBacked
<1>2. CASE /\ Next  /\ UNCHANGED <<bitmask, idx>>
           /\ \A e \in Ents : idx[e] # NoIdx /\ refcnt[e] > 0 => refcnt'[e] > 0
  BY <1>0, <1>2 DEF PagesBacked, Next
<1>3. ASSUME NEW e \in Ents, Next, UNCHANGED idx, cmd_ent_put(e)
      PROVE  PagesBacked'
  <2>1. SUFFICES ASSUME MaxReg \notin bitmask'
                 PROVE  \E x \in Ents : Kind[x].page /\ refcnt'[x] > 0 /\ idx[x] = MaxReg
    BY <1>3 DEF PagesBacked
  <2>2. MaxReg \notin bitmask
    BY <1>3, <2>1 DEF cmd_ent_put, cmd_free_index
  <2>3. PICK x \in Ents : Kind[x].page /\ refcnt[x] > 0 /\ idx[x] = MaxReg
    BY <1>3, <2>2 DEF PagesBacked, Next
  <2>4. x = e => refcnt[x] # 1
    BY <1>0, <1>3, <2>1, <2>3 DEF cmd_ent_put, cmd_free_index, LastRef
  <2>5. refcnt'[x] > 0
    BY <1>0, <1>3, <2>3, <2>4 DEF cmd_ent_put
  <2> QED BY <2>3, <2>5
<1>4. ASSUME NEW e \in Ents, WorkAlloc(e), cmd_alloc_index(e, Lowest(FreeSlots(e))), Next
      PROVE  PagesBacked'
  <2> DEFINE s == Lowest(FreeSlots(e))
  <2>1. FreeSlots(e) # {} /\ FreeSlots(e) \subseteq Slots
    BY <1>0, <1>4, BackedAvailable, MaxRegAssumption
    DEF WorkAlloc, SlotAvailable, FreeSlots, Slots, Reg
  <2>2. s \in FreeSlots(e)
    BY <2>1, LowestIn
  <2>3. Kind[e].page => s = MaxReg
    BY <2>2 DEF FreeSlots
  <2>4. ~Kind[e].page => s # MaxReg
    BY <2>2, MaxRegAssumption DEF FreeSlots, Reg
  <2>5. refcnt' = refcnt /\ bitmask' = bitmask \ {s} /\ idx' = [idx EXCEPT ![e] = s]
    BY <1>4 DEF cmd_alloc_index
  <2>6. idx[e] = NoIdx
    BY <1>4 DEF WorkAlloc, IndInv, EntryShape
  <2> HIDE DEF s
  <2>7. CASE Kind[e].page
    <3>1. CASE refcnt[e] > 0
      BY <1>0, <2>3, <2>5, <2>7, <3>1 DEF PagesBacked
    <3>2. CASE ~(refcnt[e] > 0)
      <4>1. refcnt[e] = 0
        BY <1>0, <3>2
      <4>2. uaf' = (refcnt[e] = 0)
        BY <1>4 DEF cmd_alloc_index
      <4> QED BY <4>1, <4>2, Zenon DEF PagesBacked
    <3> QED BY <3>1, <3>2
  <2>8. CASE ~Kind[e].page
    BY <1>0, <1>4, <2>4, <2>5, <2>6, <2>8 DEF PagesBacked, Next
  <2> QED BY <2>7, <2>8
<1> QED BY <1>1, <1>2, <1>3, <1>4, SlotSteps

(* A call of mlx5_cmd_comp_handler() begins at its lookup.                 *)
LEMMA CallCompEffect ==
    ASSUME IndInv, NEW c \in Ctx, NEW s, NEW t, CallComp(c, s, t)
    PROVE  \A d \in Ctx : comp'[d] = comp[d] \/ (comp'[d].pc = "claim" /\ comp'[d].type = t)
  BY DEF CallComp, IndInv, TypeOK, TypeComp

(* What a step may do to the pending bits, to where the handlers are and   *)
(* to the completions: the bit is set by cmd_work_handler() alone, once.   *)
LEMMA PendingSteps ==
    ASSUME IndInv, Next
    PROVE  /\ \A e \in Ents : Armed(e) => Armed(e)'
           /\ \/ pending' = pending
              \/ \E e \in Ents : WorkArm(e)
              \/ \E c \in Ctx : CompClaim(c)
           /\ \/ \E c \in Ctx : CompClaim(c)
              \/ \A c \in Ctx : Past(c)' => Past(c) /\ comp'[c].ent = comp[c].ent
<1> DEFINE Kept == \A e \in Ents : Armed(e) => Armed(e)'
           Same == \A c \in Ctx : Past(c)' => Past(c) /\ comp'[c].ent = comp[c].ent
           Claim == \E c \in Ctx : CompClaim(c)
           Arm == \E e \in Ents : WorkArm(e)
<1> SUFFICES Kept /\ (pending' = pending \/ Arm \/ Claim) /\ (Claim \/ Same)
  OBVIOUS
<1>0. /\ hpc \in [Ents -> HandlerPcs]
      /\ comp \in [Ctx -> [pc : CompPcs, slot : Slots \cup {NoIdx},
                            ent : Ents \cup {NoEnt}, type : CompTypes]]
      /\ \A e \in Ents : Work(e) \in Ctx /\ Wait(e) \in Ctx /\ Tmo(e) \in Ctx
      /\ Irq \in Ctx /\ Flush \in Ctx
  BY DEF IndInv, TypeOK, TypePc, TypeComp, Ctx, Work, Wait, Tmo, Irq, Flush
<1>1. ASSUME NEW e \in Ents, CmdRefuse(e) \/ CmdExec(e) \/ CallerStep(e)
      PROVE  Kept /\ pending' = pending /\ Same
  <2>1. CASE Submit(e)
    <3>1. hpc[e] = "none"
      BY <2>1 DEF Submit, IndInv, EntryShape
    <3> QED BY <1>0, <2>1, <3>1 DEF Submit, Armed, Past
  <2>2. CASE RewaitTimeout(e)
    BY <1>0, <2>2 DEF RewaitTimeout, CallComp, Armed, Past
  <2> QED BY <1>1, <2>1, <2>2
          DEF CallerStep, CmdRefuse, CmdExec, ThrottleDown, SubmitFails, WaitStep,
              HandlingTimeout, CancelWork, ExecTimeout, Recover, CmdReturn, Armed, Past
<1>2. ASSUME NEW e \in Ents, HandlerStep(e)
      PROVE  Kept /\ (pending' = pending \/ Arm) /\ Same
  <2>1. CASE WorkSend(e)
    <3>1. Same
      BY <1>0, <2>1, CallCompEffect DEF WorkSend, Past
    <3> QED BY <1>0, <2>1, <3>1 DEF WorkSend, Armed
  <2>2. CASE WorkPoll(e)
    <3>1. Same
      BY <1>0, <2>2, CallCompEffect DEF WorkPoll, Past
    <3> QED BY <1>0, <2>2, <3>1 DEF WorkPoll, Armed
  <2> QED BY <1>0, <1>2, <2>1, <2>2
          DEF HandlerStep, WorkDown, WorkDownTimeout, WorkSlotErr, WorkAlloc,
              WorkArm, WorkExit, Armed, Past
<1>3. ASSUME NEW e \in Ents, TimerStep(e)
      PROVE  Kept /\ pending' = pending /\ Same
  BY <1>0, <1>3 DEF TimerStep, TimerFire, TimerRecover, TimerPut, CallComp, Armed, Past
<1>4. ASSUME NEW c \in Ctx, CompStep(c)
      PROVE  Kept /\ (pending' = pending \/ Claim) /\ (Claim \/ Same)
  <2>1. CASE CompClaim(c)
    BY <2>1 DEF CompClaim, Armed
  <2>2. CASE CompLatePut(c) \/ CompFinish(c)
    BY <1>0, <2>2 DEF CompLatePut, CompFinish, CompReturn, CompIdle, Armed, Past
  <2>3. CASE CompCancel(c)
    BY <1>0, <2>3 DEF CompCancel, CompAt, Armed, Past
  <2>4. CASE CompRealPut(c)
    BY <1>0, <2>4 DEF CompRealPut, CompAt, Armed, Past
  <2> QED BY <1>4, <2>1, <2>2, <2>3, <2>4 DEF CompStep
<1>5. ASSUME NEW s \in Slots, FwDone(s)
      PROVE  Kept /\ pending' = pending /\ Same
  BY <1>5 DEF FwDone, Armed, Past
<1>6. CASE WorkStart
  <2>1. wq \in Seq(Ents) /\ wq # << >>
    BY <1>6 DEF WorkStart, IndInv, TypeOK, TypePc
  <2>2. Head(wq) \in Ents /\ hpc[Head(wq)] = "none"
    BY <2>1 DEF IndInv, QueueShape
  <2> QED BY <1>0, <1>6, <2>2 DEF WorkStart, Armed, Past
<1>7. CASE IrqTake
  BY <1>0, <1>7 DEF IrqTake, CallComp, Armed, Past
<1>8. CASE PciOffline \/ DevError \/ AdminNext
  BY <1>8 DEF PciOffline, DevError, AdminNext, AdminDown, AdminApply, AdminStep,
              Armed, Past
<1>9. CASE FlushStep
  <2>1. CASE FlushComp
    BY <1>0, <2>1 DEF FlushComp, CallComp, Armed, Past
  <2>2. CASE FlushTry \/ FlushTrigger \/ FlushPut \/ FlushUnlock
    BY <2>2 DEF FlushTry, FlushTrigger, FlushPut, FlushUnlock, Armed, Past
  <2> QED BY <1>9, <2>1, <2>2 DEF FlushStep
<1> QED BY <1>1, <1>2, <1>3, <1>4, <1>5, <1>6, <1>7, <1>8, <1>9 DEF Next

(* test_and_clear_bit() makes one context the owner of the completion.     *)
LEMMA ClaimedOnceStep ==
    ASSUME IndInv, ClaimedOnce, [Next]_vars
    PROVE  ClaimedOnce'
<1>0. /\ pending \in [Ents -> BOOLEAN]  /\ hpc \in [Ents -> HandlerPcs]
      /\ comp \in [Ctx -> [pc : CompPcs, slot : Slots \cup {NoIdx},
                            ent : Ents \cup {NoEnt}, type : CompTypes]]
      /\ \A c \in Ctx : Past(c) => comp[c].ent \in Ents
  BY DEF IndInv, TypeOK, TypePc, TypeComp, TypeEntry, SlotShape, Past
<1>1. CASE UNCHANGED vars
  BY <1>1 DEF vars, ClaimedOnce, Past, Armed
<1>2. ASSUME NEW c \in Ctx, CompClaim(c)
      PROVE  ClaimedOnce'
  <2> DEFINE e == entArr[comp[c].slot]
  <2>1. e \in Ents
    BY <1>2 DEF CompClaim, IndInv, LookupSafe
  <2>2. /\ pending' = [pending EXCEPT ![e] = FALSE]  /\ hpc' = hpc
        /\ comp' = [comp EXCEPT ![c] = IF Claimed(c, e) = "idle" THEN CompIdle
                              ELSE [@ EXCEPT !.pc = Claimed(c, e), !.ent = e]]
    BY <1>2 DEF CompClaim
  <2> HIDE DEF e
  <2>3. \A d \in Ctx : d # c => comp'[d] = comp[d]
    BY <1>0, <2>2
  <2>4. Past(c)' => pending[e] /\ comp'[c].ent = e
    BY <1>0, <2>2 DEF Past, Claimed, CompIdle
  <2>5. \A x \in Ents : pending'[x] => pending[x]
    BY <1>0, <2>1, <2>2
  <2>6. ~pending'[e]
    BY <1>0, <2>1, <2>2
  <2>7. \A d \in Ctx : d # c /\ Past(d)' => Past(d) /\ comp'[d].ent = comp[d].ent
    BY <2>3 DEF Past
  <2>8. \A x \in Ents : Armed(x)' <=> Armed(x)
    BY <2>2 DEF Armed
  <2> QED BY <1>0, <2>1, <2>4, <2>5, <2>6, <2>7, <2>8 DEF ClaimedOnce
<1>3. ASSUME NEW e \in Ents, WorkArm(e), Next
      PROVE  ClaimedOnce'
  <2>1. ~Armed(e) /\ Armed(e)' /\ pending' = [pending EXCEPT ![e] = TRUE] /\ comp' = comp
    BY <1>0, <1>3 DEF WorkArm, Armed
  <2>2. \A x \in Ents : Armed(x) => Armed(x)'
    BY <1>3, PendingSteps
  <2>3. \A c \in Ctx : Past(c)' <=> Past(c)
    BY <2>1 DEF Past
  <2> QED BY <1>0, <2>1, <2>2, <2>3 DEF ClaimedOnce
<1>4. CASE /\ pending' = pending  /\ \A e \in Ents : Armed(e) => Armed(e)'
           /\ \A c \in Ctx : Past(c)' => Past(c) /\ comp'[c].ent = comp[c].ent
  BY <1>0, <1>4 DEF ClaimedOnce
<1> QED BY <1>1, <1>2, <1>3, <1>4, PendingSteps

(* The full invariant holds in every reachable state, with no condition on *)
(* the constants but the assumptions.                                      *)
THEOREM FullInvariance == Spec => []FullInv
<1>1. Init => FullInv
  <2>1. SUFFICES ASSUME Init PROVE PagesBacked /\ ClaimedOnce
    BY InitInd DEF FullInv
  <2>2. MaxReg \in bitmask
    BY <2>1, MaxRegAssumption DEF Init, Slots
  <2>3. \A c \in Ctx : ~Past(c)
    BY <2>1 DEF Init, Past, CompIdle
  <2>4. \A e \in Ents : ~pending[e]
    BY <2>1 DEF Init
  <2> QED BY <2>2, <2>3, <2>4 DEF PagesBacked, ClaimedOnce
<1>2. FullInv /\ [Next]_vars => FullInv'
  BY StepInd, PagesBackedStep, ClaimedOnceStep DEF FullInv
<1> QED BY <1>1, <1>2, PTL DEF Spec

(* When nobody holds a permit, no command has a slot: the administrator    *)
(* that has all of them finds the bitmask full.                            *)
LEMMA AllDrained ==
    ASSUME FullInv, ~uaf, got = MaxReg + 1
    PROVE  bitmask = Slots
<1>0. /\ MaxReg \in Nat \ {0}  /\ bitmask \subseteq Slots  /\ sem \in Nat
      /\ idx \in [Ents -> Slots \cup {NoIdx}]
  BY MaxRegAssumption DEF FullInv, IndInv, TypeOK, TypeLife, TypeEntry
<1>1. MaxReg \in bitmask
  BY DEF FullInv, PagesBacked, IndInv, PagesExclusive, HoldsPages
<1>2. Drained(got) = MaxReg
  BY <1>0 DEF Drained
<1>3. Cardinality(bitmask \cap Reg) >= MaxReg
  <2>1. IndInv
    BY DEF FullInv
  <2> QED BY <1>0, <1>2, <2>1, Counts DEF IndInv, PermitsBacked
<1>4. IsFiniteSet(Reg) /\ Cardinality(Reg) = MaxReg
  <2>1. IsFiniteSet(0 .. MaxReg - 1) /\ Cardinality(0 .. MaxReg - 1) = MaxReg
    BY <1>0, FS_Interval
  <2> QED BY <2>1, Zenon DEF Reg
<1>5. /\ bitmask \cap Reg \subseteq Reg
      /\ Cardinality(bitmask \cap Reg) <= Cardinality(Reg)
      /\ Cardinality(bitmask \cap Reg) = Cardinality(Reg) => bitmask \cap Reg = Reg
  BY <1>4, FS_Subset
<1>6. Cardinality(bitmask \cap Reg) \in Nat
  BY CountedFinite
<1>7. bitmask \cap Reg = Reg
  BY <1>0, <1>3, <1>4, <1>5, <1>6
<1>8. Slots = Reg \cup {MaxReg}
  BY <1>0 DEF Slots, Reg
<1> QED BY <1>0, <1>1, <1>7, <1>8

(* Nobody but the administrator changes the mode, the opcodes or its own   *)
(* phase.                                                                  *)
LEMMA OnlyAdmin ==
    ASSUME Next
    PROVE  AdminNext \/ UNCHANGED <<mode, allowed, phase>>
<1>1. ASSUME NEW e \in Ents, CmdRefuse(e) \/ CmdExec(e) \/ CallerStep(e)
      PROVE  UNCHANGED <<mode, allowed, phase>>
  BY <1>1 DEF CallerStep, CmdRefuse, CmdExec, ThrottleDown, SubmitFails, Submit,
              WaitStep, HandlingTimeout, CancelWork, ExecTimeout, Recover,
              RewaitTimeout, CmdReturn
<1>2. ASSUME NEW e \in Ents, HandlerStep(e) \/ TimerStep(e)
      PROVE  UNCHANGED <<mode, allowed, phase>>
  BY <1>2 DEF HandlerStep, WorkDown, WorkDownTimeout, WorkSlotErr, WorkAlloc,
              WorkArm, WorkSend, WorkPoll, WorkExit, TimerStep, TimerFire,
              TimerRecover, TimerPut
<1>3. ASSUME NEW c \in Ctx, CompStep(c)
      PROVE  UNCHANGED <<mode, allowed, phase>>
  BY <1>3 DEF CompStep, CompClaim, CompLatePut, CompCancel, CompRealPut, CompFinish
<1>4. ASSUME NEW s \in Slots, FwDone(s)
      PROVE  UNCHANGED <<mode, allowed, phase>>
  BY <1>4 DEF FwDone
<1>5. CASE WorkStart \/ IrqTake \/ PciOffline \/ DevError \/ FlushStep
  BY <1>5 DEF WorkStart, IrqTake, PciOffline, DevError, FlushStep, FlushTry,
              FlushTrigger, FlushComp, FlushPut, FlushUnlock
<1> QED BY <1>1, <1>2, <1>3, <1>4, <1>5 DEF Next

(* mlx5_cmd_change_mod() and mlx5_cmd_allowed_opcode() never change what   *)
(* the commands under way go by: whenever the mode or the opcodes change,  *)
(* no command has a slot, whatever timed out, leaked or was flushed before.*)
THEOREM SwitchesDrained == Spec => SwitchWhenDrained
<1>1. FullInv /\ [Next]_vars =>
          [<<mode, allowed>>' # <<mode, allowed>> => bitmask = Slots]_vars
  <2>1. SUFFICES ASSUME FullInv, Next, <<mode, allowed>>' # <<mode, allowed>>
                 PROVE  bitmask = Slots
    OBVIOUS
  <2>2. AdminApply
    BY <2>1, OnlyAdmin DEF AdminNext, AdminDown, AdminStep
  <2> QED BY <2>1, <2>2, AllDrained DEF AdminApply, Next
<1> QED BY <1>1, FullInvariance, PTL DEF Spec, SwitchWhenDrained

(* The driver stays in event mode and no command asks to be polled.        *)
EventsOnly == ~Reconfig /\ \A e \in Ents : ~Kind[e].polling

(* Then no completion is a poller's.                                       *)
NoPoll ==
    /\ mode = "EVENTS"  /\ phase = "running"
    /\ \A e \in Ents : ~pollCmd[e] /\ hpc[e] # "poll"
    /\ \A c \in Ctx : comp[c].type # "POLLING"

(* Without a change of mode no handler ever polls.                         *)
LEMMA NoPollStep ==
    ASSUME EventsOnly, IndInv, NoPoll, [Next]_vars
    PROVE  NoPoll'
<1>0. /\ hpc \in [Ents -> HandlerPcs]  /\ pollCmd \in [Ents -> BOOLEAN]
      /\ comp \in [Ctx -> [pc : CompPcs, slot : Slots \cup {NoIdx},
                            ent : Ents \cup {NoEnt}, type : CompTypes]]
      /\ \A e \in Ents : Work(e) \in Ctx /\ Wait(e) \in Ctx /\ Tmo(e) \in Ctx
      /\ Irq \in Ctx /\ Flush \in Ctx
  BY DEF IndInv, TypeOK, TypePc, TypeEntry, TypeComp, Ctx, Work, Wait, Tmo, Irq, Flush
<1> DEFINE Polled == \A e \in Ents : ~pollCmd'[e] /\ hpc'[e] # "poll"
           NonePolls == \A c \in Ctx : comp'[c].type # "POLLING"
<1>1. CASE UNCHANGED vars
  BY <1>1 DEF vars, NoPoll
<1>2. ASSUME Next
      PROVE  UNCHANGED <<mode, phase>>
  BY <1>2, OnlyAdmin
  DEF AdminNext, AdminDown, AdminApply, AdminStep, NoPoll, EventsOnly, Locked
<1>3. ASSUME NEW e \in Ents, CmdRefuse(e) \/ CmdExec(e) \/ CallerStep(e)
      PROVE  Polled /\ NonePolls
  <2>1. CASE Submit(e)
    BY <1>0, <2>1 DEF Submit, NoPoll
  <2>2. CASE RewaitTimeout(e)
    BY <1>0, <2>2 DEF RewaitTimeout, CallComp, NoPoll
  <2> QED BY <1>3, <2>1, <2>2
          DEF CallerStep, CmdRefuse, CmdExec, ThrottleDown, SubmitFails, WaitStep,
              HandlingTimeout, CancelWork, ExecTimeout, Recover, CmdReturn, NoPoll
<1>4. ASSUME NEW e \in Ents, HandlerStep(e)
      PROVE  Polled /\ NonePolls
  <2>1. CASE WorkSend(e)
    BY <1>0, <2>1 DEF WorkSend, CallComp, NoPoll
  <2>2. CASE WorkArm(e)
    BY <1>0, <2>2 DEF WorkArm, NoPoll, EventsOnly
  <2>3. ~WorkPoll(e)
    BY DEF WorkPoll, NoPoll
  <2> QED BY <1>0, <1>4, <2>1, <2>2, <2>3
          DEF HandlerStep, WorkDown, WorkDownTimeout, WorkSlotErr, WorkAlloc,
              WorkExit, NoPoll
<1>5. ASSUME NEW e \in Ents, TimerStep(e)
      PROVE  Polled /\ NonePolls
  BY <1>0, <1>5 DEF TimerStep, TimerFire, TimerRecover, TimerPut, CallComp, NoPoll
<1>6. ASSUME NEW c \in Ctx, CompStep(c)
      PROVE  Polled /\ NonePolls
  <2>1. CASE CompClaim(c)
    <3>1. hpc' = hpc /\ UNCHANGED pollCmd
      BY <2>1 DEF CompClaim
    <3>2. \A d \in Ctx : comp'[d].type \in {comp[d].type, "FORCED"}
      BY <1>0, <2>1 DEF CompClaim, CompIdle
    <3> QED BY <3>1, <3>2 DEF NoPoll
  <2>2. CASE CompLatePut(c) \/ CompFinish(c)
    BY <1>0, <2>2 DEF CompLatePut, CompFinish, CompReturn, CompIdle, NoPoll
  <2>3. CASE CompCancel(c) \/ CompRealPut(c)
    BY <1>0, <2>3 DEF CompCancel, CompRealPut, CompAt, NoPoll
  <2> QED BY <1>6, <2>1, <2>2, <2>3 DEF CompStep
<1>7. ASSUME NEW s \in Slots, FwDone(s)
      PROVE  Polled /\ NonePolls
  BY <1>7 DEF FwDone, NoPoll
<1>8. CASE WorkStart
  <2>1. comp' = comp /\ pollCmd' = pollCmd /\ hpc' = [hpc EXCEPT ![Head(wq)] = "wantSem"]
    BY <1>8 DEF WorkStart
  <2>2. Polled /\ NonePolls
    BY <1>0, <2>1 DEF NoPoll
  <2>3. mode' = mode /\ phase' = phase
    BY <1>8 DEF WorkStart
  <2> QED BY <2>2, <2>3 DEF NoPoll
<1>9. CASE IrqTake
  <2>1. NonePolls
    BY <1>0, <1>9, CallCompEffect DEF IrqTake, NoPoll
  <2> QED BY <1>9, <2>1 DEF IrqTake, NoPoll
<1>10. CASE PciOffline \/ DevError \/ AdminDown \/ AdminApply \/ AdminStep
  <2>1. Polled /\ NonePolls
    BY <1>10 DEF PciOffline, DevError, AdminDown, AdminApply, AdminStep, NoPoll
  <2>2. UNCHANGED <<mode, phase>>
    BY <1>10 DEF PciOffline, DevError, AdminDown, AdminApply, AdminStep, NoPoll,
                 EventsOnly, Locked
  <2> QED BY <2>1, <2>2 DEF NoPoll
<1>11. CASE FlushStep
  <2>1. CASE FlushComp
    BY <1>0, <2>1 DEF FlushComp, CallComp, NoPoll
  <2>2. CASE FlushTry \/ FlushTrigger \/ FlushPut \/ FlushUnlock
    BY <2>2 DEF FlushTry, FlushTrigger, FlushPut, FlushUnlock, NoPoll
  <2> QED BY <1>11, <2>1, <2>2 DEF FlushStep
<1>12. ASSUME Next, Polled, NonePolls
       PROVE  NoPoll'
  BY <1>2, <1>12 DEF NoPoll
<1> QED BY <1>1, <1>3, <1>4, <1>5, <1>6, <1>7, <1>8, <1>9, <1>10, <1>11, <1>12
        DEF Next, AdminNext

(* Where no command is polled, neither by its own flag nor because the     *)
(* driver has not switched to events, a command is completed by one        *)
(* context: callers that time out, late events, the flush of a dead device *)
(* and the handler itself may all try, on any number of CPUs.              *)
THEOREM OneCompletion ==
    ASSUME EventsOnly
    PROVE  Spec => []CompletedOnce
<1>1. Init => NoPoll
  BY DEF EventsOnly, Init, NoPoll, CompIdle
<1>2. IndInv /\ NoPoll /\ [Next]_vars => NoPoll'
  BY NoPollStep
<1>3. NoPoll /\ FullInv => CompletedOnce
  BY DEF NoPoll, FullInv, ClaimedOnce, CompletedOnce, Past
<1> QED BY <1>1, <1>2, <1>3, Invariance, FullInvariance, PTL DEF Spec

-----------------------------------------------------------------------------
(* The references.                                                         *)

(* Where the reference counts are right: no command asks to be polled, the *)
(* EQs can be created and a command with a callback gets its permit in     *)
(* time; commands time out, or the device enters the error state, only on  *)
(* one CPU that keeps its event queues; and no command times out on a      *)
(* device that fails.                                                      *)
Timeouts == "exec" \in Faults
Errors   == "error" \in Faults

Sane ==
    /\ \A e \in Ents : ~Kind[e].polling
    /\ "eqfail" \notin Faults
    /\ "slotwait" \in Faults => \A e \in Ents : ~Kind[e].callback
    /\ Timeouts \/ Errors => ~Smp /\ ~Reconfig
    /\ Timeouts => Faults \cap {"error", "offline"} = {}

(* The places of a completion that has taken the pending bit of its entry, *)
(* and of a caller that waits.                                             *)
PastPcs == {"cancel", "rput", "finish"}
Start   == {"init", "throttle", "submit"}
Waiting == CallerPcs \ (Start \cup {"returned"})

(* The command is not answered yet: it is queued, with its handler, with   *)
(* the firmware, or being completed.                                       *)
Queued(e) == \E i \in DOMAIN wq : wq[i] = e
Finishing(e) == \E c \in Ctx : comp[c].ent = e /\ comp[c].pc \in PastPcs
Under(e) ==
    \/ Queued(e)  \/ hpc[e] \in {"wantSem", "gotSem", "slotted"}
    \/ pending[e]  \/ Finishing(e)

(* The firmware has the slot, or its answer is on the way.                 *)
Reported(s) == \E i \in DOMAIN eqes : eqes[i] = s
Asked(s) == comp[Irq].pc = "claim" /\ comp[Irq].slot = s
Busy(s) == fw[s] # NoEnt \/ Reported(s) \/ Asked(s)

(* The four references of an entry: of its caller, or of its callback; of  *)
(* the timeout; of the real completion, which after a timeout only the     *)
(* event of the firmware drops; and of the flush.                          *)
BaseRef(e) == IF Kind[e].callback THEN Under(e) ELSE cpc[e] \in Waiting

TimerRef(e) == timer[e] # "off"

Dropped == mlx5_cmd_is_down \/ ~opcode_allowed
Putting(e) == \E c \in Ctx : /\ comp[c].ent = e  /\ comp[c].pc \in {"cancel", "rput"}
                             /\ comp[c].type # "FORCED" \/ Dropped
Late(e) == comp[Irq].ent = e /\ comp[Irq].pc = "lateput"
Due(e) == Late(e) \/ \E s \in Slots : idx[e] = s /\ entArr[s] = e /\ Busy(s)
RealRef(e) == pending[e] \/ Putting(e) \/ (Timeouts /\ Due(e))

FlushRef(e) == \E s \in fheld : idx[e] = s /\ entArr[s] = e

One(b) == IF b THEN 1 ELSE 0
Refs(e) ==
    refcnt[e] = One(BaseRef(e)) + One(TimerRef(e)) + One(RealRef(e)) + One(FlushRef(e))

(* A caller waits until its command is answered.                           *)
Waits(e) ==
    ~Kind[e].callback =>
        /\ Under(e) => /\ ~done[e]  /\ cpc[e] \in Waiting \ {"out"}
                       /\ cpc[e] = "forced" => comp[Wait(e)].pc # "idle"
        /\ cpc[e] \in Start => ~done[e]
        /\ hpc[e] \in {"none", "wantSem", "gotSem", "slotErr", "slotted"} => ~slotted[e]
        /\ cpc[e] \in {"waitDone", "waitDoneT", "recover", "rewait", "forced"} => slotted[e]
        /\ hpc[e] = "slotErr" => cpc[e] \in {"inline", "waitHandling", "cancel", "waitSlotted"}
        /\ timer[e] = "off"

(* What the handler of an entry may rely on.                               *)
Places(e) ==
    /\ Kind[e].callback => hpc[e] # "slotErr"
    /\ ~Armed(e) => timer[e] = "off"
    /\ hpc[e] \in {"armed", "poll"} => pending[e]
    /\ hpc[e] = "armed" => pollCmd[e] = (mode = "POLLING")
    /\ hpc[e] = "poll" => mode = "POLLING" /\ opcode_allowed
    /\ hpc[e] = "comp" /\ comp[Work(e)].pc # "claim" => ~pending[e]
    /\ Timeouts /\ pending[e] /\ hpc[e] = "exit" => \E s \in Slots : idx[e] = s /\ Busy(s)
    /\ Timeouts \/ (ret[e] # "ETIMEDOUT" /\ timer[e] \in {"off", "armed"}
                    /\ cpc[e] \notin {"recover", "rewait", "forced"})

(* Who completes a command: its handler, its caller, its timeout...        *)
CompWork(e) ==
    LET x == comp[Work(e)]
    IN  x.pc # "idle" =>
          /\ hpc[e] = "comp"  /\ x.slot = idx[e]  /\ idx[e] # NoIdx
          /\ x.pc \in {"claim"} \cup PastPcs
          /\ IF x.pc = "claim" THEN pending[e] ELSE x.ent = e
          /\ \/ x.type = "FORCED" /\ Dropped
             \/ x.type = "POLLING" /\ mode = "POLLING"
CompWait(e) ==
    LET x == comp[Wait(e)]
    IN  x.pc # "idle" =>
          /\ Timeouts  /\ cpc[e] = "forced"  /\ ~Kind[e].callback
          /\ x.slot = idx[e]  /\ idx[e] # NoIdx
          /\ x.pc \in {"claim"} \cup PastPcs  /\ x.type = "FORCED"
          /\ x.pc # "claim" => x.ent = e
CompTmo(e) ==
    LET x == comp[Tmo(e)]
    IN  x.pc # "idle" =>
          /\ Timeouts  /\ timer[e] = "forced"
          /\ x.slot = idx[e]  /\ idx[e] # NoIdx
          /\ x.pc \in {"claim"} \cup PastPcs  /\ x.type = "FORCED"
          /\ x.pc # "claim" => x.ent = e

(* ... the interrupt, or the flush.                                        *)
CompIrq ==
    LET x == comp[Irq]
    IN  x.pc # "idle" =>
          /\ devState = "UP"  /\ mode = "EVENTS"  /\ opcode_allowed
          /\ x.type = "EVENT"  /\ x.slot # NoIdx  /\ x.pc \in {"claim", "lateput"} \cup PastPcs
          /\ x.pc = "lateput" => Timeouts
          /\ x.pc # "claim" => x.slot = idx[x.ent] /\ hpc[x.ent] = "exit"
          /\ x.pc \in {"lateput", "cancel", "rput"} => ~Busy(x.slot)
CompFlush ==
    LET x == comp[Flush]
    IN  x.pc # "idle" =>
          /\ devState # "UP"  /\ fpc = "comp"  /\ x.slot \in fheld
          /\ x.pc \in {"claim"} \cup PastPcs  /\ x.type = "FORCED"
          /\ x.pc # "claim" => x.ent = entArr[x.slot]
Held ==
    /\ ftodo \subseteq fheld
    /\ fpc # "comp" => ftodo = {}
    /\ fheld # {} => fpc \in {"comp", "put"}
    /\ \A s \in fheld : entArr[s] \in Ents /\ idx[entArr[s]] = s /\ Armed(entArr[s])
    /\ devState = "UP" => fpc = "idle"

(* A completion knows its entry once it has looked it up.                  *)
CompEnt == \A c \in Ctx : comp[c].pc \in {"idle", "claim"} => comp[c].ent = NoEnt

(* The answers of the firmware: one for each command it was given, which   *)
(* keeps its slot until then.                                              *)
OneAnswer ==
    /\ \A i, j \in DOMAIN eqes : eqes[i] = eqes[j] => i = j
    /\ \A s \in Slots : /\ fw[s] # NoEnt => ~Reported(s) /\ ~Asked(s)
                        /\ Asked(s) => ~Reported(s)
Answers ==
    devState = "UP" =>
        \A s \in Slots : Busy(s) =>
            /\ entArr[s] \in Ents  /\ idx[entArr[s]] = s  /\ fw[s] \in {NoEnt, entArr[s]}
            /\ hpc[entArr[s]] = IF mode = "POLLING" THEN "poll" ELSE "exit"
            /\ Timeouts \/ pending[entArr[s]]

(* The mode of the interface in the phases of create_async_eqs() and       *)
(* destroy_async_eqs(), none of which fails, and the state of the device.  *)
Modes ==
    /\ mode = "POLLING" => eqes = << >>
    /\ ~opcode_allowed => \A s \in Slots : ~Busy(s)
    /\ mode = "POLLING" /\ opcode_allowed => ~eqUp
    /\ mode = "EVENTS" => eqUp /\ nbReg
    /\ phase \in {"boot", "allowCreate", "off"} => mode = "POLLING" /\ opcode_allowed
    /\ phase \in {"create", "events", "unregister", "destroy", "allowBoot"} =>
          mode = "POLLING" /\ ~opcode_allowed
    /\ phase \in {"allowAll", "polling"} => mode = "EVENTS" /\ ~opcode_allowed
    /\ phase \in {"running", "allowDestroy"} => mode = "EVENTS" /\ opcode_allowed
    /\ phase = "events" => eqUp /\ nbReg
    /\ phase \in {"boot", "allowCreate", "allowBoot", "off"} => ~eqUp
    /\ ~Reconfig => phase = "running"
    /\ devState # "UP" => Errors
    /\ offline => "offline" \in Faults

(* A slot in use belongs to a live command.                                *)
Owned ==
    \A s \in Slots : s \notin bitmask =>
        entArr[s] \in Ents /\ idx[entArr[s]] = s /\ refcnt[entArr[s]] > 0

RefInv ==
    /\ ~uaf
    /\ \A e \in Ents : /\ Refs(e)  /\ Waits(e)  /\ Places(e)
                       /\ CompWork(e)  /\ CompWait(e)  /\ CompTmo(e)
    /\ CompIrq  /\ CompFlush  /\ Held  /\ CompEnt
    /\ OneAnswer  /\ Answers  /\ Modes  /\ Owned
-----------------------------------------------------------------------------
(* The contexts are different from each other.                             *)
LEMMA Contexts ==
    /\ Irq \in Ctx  /\ Flush \in Ctx  /\ Irq # Flush  /\ Other \notin Ctx
    /\ \A e \in Ents : Work(e) \in Ctx /\ Wait(e) \in Ctx /\ Tmo(e) \in Ctx
    /\ \A e, f \in Ents : /\ Work(e) \notin {Wait(f), Tmo(f), Irq, Flush}
                          /\ Wait(e) \notin {Work(f), Tmo(f), Irq, Flush}
                          /\ Tmo(e) \notin {Work(f), Wait(f), Irq, Flush}
                          /\ Work(e) = Work(f) => e = f
                          /\ Wait(e) = Wait(f) => e = f
                          /\ Tmo(e) = Tmo(f) => e = f
    /\ \A c \in Ctx : c \in {Irq, Flush} \/ \E e \in Ents : c \in {Work(e), Wait(e), Tmo(e)}
<1>1. /\ Irq \in Ctx  /\ Flush \in Ctx  /\ Irq # Flush  /\ Other \notin Ctx
      /\ \A e \in Ents : Work(e) \in Ctx  /\ Wait(e) \in Ctx  /\ Tmo(e) \in Ctx
      /\ \A c \in Ctx : c \in {Irq, Flush} \/ \E e \in Ents : c \in {Work(e), Wait(e), Tmo(e)}
  BY DEF Ctx, Work, Wait, Tmo, Irq, Flush, Other
<1>2. /\ \A e, f \in Ents : Work(e) \notin {Wait(f), Tmo(f), Irq, Flush}
      /\ \A e, f \in Ents : Wait(e) \notin {Work(f), Tmo(f), Irq, Flush}
      /\ \A e, f \in Ents : Tmo(e) \notin {Work(f), Wait(f), Irq, Flush}
      /\ \A e, f \in Ents : Work(e) = Work(f) => e = f
  BY DEF Work, Wait, Tmo, Irq, Flush
<1>3. \A e, f \in Ents : Wait(e) = Wait(f) => e = f
  BY DEF Wait
<1>4. \A e, f \in Ents : Tmo(e) = Tmo(f) => e = f
  BY DEF Tmo
<1> QED BY <1>1, <1>2, <1>3, <1>4

(* The types that the proofs below need.                                   *)
Typed ==
    /\ refcnt \in [Ents -> Nat]  /\ idx \in [Ents -> Slots \cup {NoIdx}]
    /\ entArr \in [Slots -> Ents \cup {NoEnt}]
    /\ pending \in [Ents -> BOOLEAN]  /\ pollCmd \in [Ents -> BOOLEAN]
    /\ slotted \in [Ents -> BOOLEAN]  /\ done \in [Ents -> BOOLEAN]
    /\ ret \in [Ents -> RetCodes]  /\ rref \in [Ents -> BOOLEAN]
    /\ timer \in [Ents -> TimerPcs]  /\ hpc \in [Ents -> HandlerPcs]
    /\ cpc \in [Ents -> CallerPcs]  /\ wq \in Seq(Ents)
    /\ comp \in [Ctx -> [pc : CompPcs, slot : Slots \cup {NoIdx},
                         ent : Ents \cup {NoEnt}, type : CompTypes]]
    /\ fw \in [Slots -> Ents \cup {NoEnt}]  /\ eqes \in Seq(Slots)
    /\ NoEnt \notin Ents  /\ NoIdx \notin Slots
    /\ fheld \subseteq Slots  /\ ftodo \subseteq Slots  /\ bitmask \subseteq Slots

LEMMA IsTyped ==
    ASSUME FullInv
    PROVE  Typed
  BY EntsAssumption, MaxRegAssumption
  DEF FullInv, IndInv, TypeOK, TypeLife, TypeEntry, TypePc, TypeComp, TypeHw, TypeEnv, Typed,
      NoIdx, Slots

(* Where commands time out, or the device fails, the driver stays in event *)
(* mode.                                                                   *)
LEMMA Steady ==
    ASSUME Sane, RefInv, Timeouts \/ Errors
    PROVE  /\ mode = "EVENTS"  /\ opcode_allowed  /\ eqUp  /\ nbReg  /\ phase = "running"
           /\ ~Smp  /\ ~Reconfig
           /\ Timeouts => devState = "UP" /\ ~offline /\ ~Dropped
<1>1. ~Smp  /\ ~Reconfig  /\ phase = "running" /\ mode = "EVENTS" /\ opcode_allowed /\ eqUp /\ nbReg
  BY DEF Sane, RefInv, Modes
<1>2. Timeouts => devState = "UP" /\ ~offline
  BY DEF Sane, RefInv, Modes, Errors
<1> QED BY <1>1, <1>2 DEF Dropped, mlx5_cmd_is_down

(* On one CPU nobody else is inside code that does not sleep when a        *)
(* context other than the interrupt takes a step.                          *)
LEMMA CpuAlone ==
    ASSUME ~Smp, NEW c, c # Irq, Cpu(c)
    PROVE  /\ \A d \in Ctx : d # c => comp[d].pc = "idle"
           /\ \A e \in Ents : Work(e) # c => hpc[e] \notin {"slotErr", "slotted", "armed"}
           /\ c # Flush => fpc \notin {"comp", "put"}
<1>1. \A d \in Ctx \cup {Other} : d # c => ~Inside(d)
  BY DEF Cpu
<1>2. \A d \in Ctx : d # c => comp[d].pc = "idle"
  BY <1>1, Contexts DEF Inside
<1>3. \A e \in Ents : Work(e) # c => hpc[e] \notin {"slotErr", "slotted", "armed"}
  BY <1>1, Contexts DEF Inside
<1>4. c # Flush => fpc \notin {"comp", "put"}
  BY <1>1, Contexts DEF Inside
<1> QED BY <1>2, <1>3, <1>4

(* Whom a completion that is past its lookup belongs to.                   *)
LEMMA Belongs ==
    ASSUME FullInv, RefInv, NEW c \in Ctx, comp[c].pc \notin {"idle", "claim"}
    PROVE  /\ comp[c].ent \in Ents
           /\ \A e \in Ents : c \in {Work(e), Wait(e), Tmo(e)} => comp[c].ent = e
           /\ comp[c].pc \in PastPcs \/ (c = Irq /\ comp[c].pc = "lateput")
<1>1. comp[c].ent \in Ents
  BY DEF FullInv, IndInv, SlotShape
<1>2. ASSUME NEW e \in Ents, c \in {Work(e), Wait(e), Tmo(e)}
      PROVE  comp[c].ent = e /\ comp[c].pc \in PastPcs
  BY <1>2 DEF RefInv, CompWork, CompWait, CompTmo
<1>3. ASSUME c \in {Irq, Flush}
      PROVE  comp[c].pc \in PastPcs \/ (c = Irq /\ comp[c].pc = "lateput")
  BY <1>3 DEF RefInv, CompIrq, CompFlush
<1> QED BY <1>1, <1>2, <1>3, Contexts

(* No two completions are past the pending bit of one entry.               *)
LEMMA Unique ==
    ASSUME Sane, FullInv, RefInv
    PROVE  CompletedOnce
<1>0. Typed
  BY IsTyped
<1>1. ASSUME NEW c \in Ctx, comp[c].pc \in PastPcs, comp[c].type = "POLLING"
      PROVE  mode = "POLLING" /\ \E e \in Ents : c = Work(e) /\ comp[c].ent = e
  BY <1>1, Contexts DEF RefInv, CompWork, CompWait, CompTmo, CompIrq, CompFlush, PastPcs
<1>2. ASSUME NEW c \in Ctx, comp[c].pc \in PastPcs, mode = "POLLING"
      PROVE  \E e \in Ents : c = Work(e) /\ comp[c].ent = e
  <2>1. ~Timeouts /\ devState = "UP"
    BY <1>2, Steady DEF RefInv, Modes
  <2>2. c # Irq /\ c # Flush
    BY <1>2, <2>1 DEF RefInv, CompIrq, CompFlush, PastPcs
  <2>3. \A e \in Ents : c # Wait(e) /\ c # Tmo(e)
    BY <1>2, <2>1 DEF RefInv, CompWait, CompTmo, PastPcs
  <2> QED BY <1>2, <2>2, <2>3, Contexts DEF RefInv, CompWork, PastPcs
<1>3. SUFFICES ASSUME NEW c \in Ctx, NEW d \in Ctx, c # d,
                      comp[c].pc \in PastPcs, comp[d].pc \in PastPcs
               PROVE  comp[c].ent # comp[d].ent
  BY DEF CompletedOnce, PastPcs
<1>4. CASE comp[c].type = "POLLING" \/ comp[d].type = "POLLING"
  BY <1>1, <1>2, <1>3, <1>4
<1>5. CASE comp[c].type # "POLLING" /\ comp[d].type # "POLLING"
  BY <1>3, <1>5 DEF FullInv, ClaimedOnce, Past, PastPcs
<1> QED BY <1>4, <1>5

(* An entry lives as long as it has one of its references.                 *)
LEMMA Alive ==
    ASSUME FullInv, RefInv, NEW e \in Ents,
           BaseRef(e) \/ TimerRef(e) \/ RealRef(e) \/ FlushRef(e)
    PROVE  /\ refcnt[e] > 0
           /\ \A s \in Slots : idx[e] = s => entArr[s] = e /\ s \notin bitmask
<1>1. Refs(e)
  BY DEF RefInv
<1>2. refcnt[e] > 0
  BY <1>1 DEF Refs, One
<1>3. Typed
  BY IsTyped
<1> QED BY <1>2, <1>3 DEF FullInv, IndInv, SlotExclusive, Typed

LEMMA UnderBase ==
    ASSUME FullInv, RefInv, NEW e \in Ents, Under(e)
    PROVE  BaseRef(e)
  BY DEF RefInv, Waits, BaseRef

LEMMA PastUnder ==
    ASSUME FullInv, RefInv, NEW c \in Ctx, comp[c].pc \in PastPcs
    PROVE  comp[c].ent \in Ents /\ Under(comp[c].ent)
<1>1. comp[c].ent \in Ents
  BY DEF FullInv, IndInv, SlotShape, PastPcs
<1> QED BY <1>1 DEF Under, Finishing

(* A completion finds a live entry, and knows which.                       *)
LEMMA ClaimAlive ==
    ASSUME Sane, FullInv, RefInv, NEW c \in Ctx, comp[c].pc = "claim"
    PROVE  LET e == entArr[comp[c].slot]
           IN  /\ e \in Ents  /\ comp[c].slot \in Slots  /\ idx[e] = comp[c].slot
               /\ refcnt[e] > 0  /\ Armed(e)
               /\ \A x \in Ents : c \in {Work(x), Wait(x), Tmo(x)} => x = e
<1>0. Typed
  BY IsTyped
<1> DEFINE s == comp[c].slot
<1>1. s \in Slots /\ entArr[s] \in Ents
  BY DEF FullInv, IndInv, LookupSafe
<1>2. ASSUME NEW x \in Ents, c \in {Work(x), Wait(x), Tmo(x)}
      PROVE  idx[x] = s /\ entArr[s] = x /\ refcnt[x] > 0 /\ Armed(x)
  <2>1. CASE c = Work(x)
    <3>1. pending[x] /\ idx[x] = s /\ hpc[x] = "comp"
      BY <1>2, <2>1 DEF RefInv, CompWork
    <3> QED BY <1>1, <3>1, Alive DEF RealRef, Armed
  <2>2. CASE c = Wait(x)
    <3>1. cpc[x] = "forced" /\ ~Kind[x].callback /\ idx[x] = s
      BY <1>2, <2>2 DEF RefInv, CompWait
    <3>2. BaseRef(x)
      BY <3>1 DEF BaseRef, Waiting, CallerPcs, Start
    <3>3. slotted[x]
      BY <3>1 DEF RefInv, Waits
    <3>4. Armed(x)
      BY <1>0, <3>1, <3>3 DEF RefInv, Waits, Armed, Typed, HandlerPcs
    <3> QED BY <1>1, <3>1, <3>2, <3>4, Alive
  <2>3. CASE c = Tmo(x)
    <3>1. timer[x] = "forced" /\ idx[x] = s
      BY <1>2, <2>3 DEF RefInv, CompTmo
    <3>2. Armed(x)
      BY <3>1 DEF RefInv, Places
    <3> QED BY <1>1, <3>1, <3>2, Alive DEF TimerRef
  <2> QED BY <1>2, <2>1, <2>2, <2>3
<1>3. ASSUME c = Irq
      PROVE  idx[entArr[s]] = s /\ refcnt[entArr[s]] > 0 /\ Armed(entArr[s])
  <2>1. Busy(s) /\ devState = "UP"
    BY <1>3 DEF Busy, Asked, RefInv, CompIrq
  <2>2. /\ idx[entArr[s]] = s
        /\ Timeouts \/ pending[entArr[s]]
        /\ hpc[entArr[s]] \in {"poll", "exit"}
    BY <1>1, <2>1 DEF RefInv, Answers
  <2>3. RealRef(entArr[s])
    BY <1>1, <2>1, <2>2 DEF RealRef, Due
  <2> QED BY <1>1, <2>2, <2>3, Alive DEF Armed
<1>4. ASSUME c = Flush
      PROVE  idx[entArr[s]] = s /\ refcnt[entArr[s]] > 0 /\ Armed(entArr[s])
  <2>1. s \in fheld /\ idx[entArr[s]] = s /\ Armed(entArr[s])
    BY <1>4 DEF RefInv, CompFlush, Held
  <2>2. FlushRef(entArr[s])
    BY <1>1, <2>1 DEF FlushRef
  <2> QED BY <1>1, <2>1, <2>2, Alive
<1> QED BY <1>1, <1>2, <1>3, <1>4, Contexts

(* Who touches an entry has a reference that keeps it alive.               *)
LEMMA CallerAlive ==
    ASSUME FullInv, RefInv, NEW e \in Ents, cpc[e] \in Waiting
    PROVE  refcnt[e] > 0 /\ ~Kind[e].callback
<1>1. ~Kind[e].callback
  BY DEF FullInv, IndInv, EntryShape, Waiting, Start
<1> QED BY <1>1, Alive DEF BaseRef

LEMMA HandlerAlive ==
    ASSUME FullInv, RefInv, NEW e \in Ents, hpc[e] \notin {"none", "comp", "exit"}
    PROVE  /\ refcnt[e] > 0
           /\ \A s \in Slots : idx[e] = s => entArr[s] = e /\ s \notin bitmask
<1>0. Typed
  BY IsTyped
<1>1. CASE hpc[e] \in {"wantSem", "gotSem", "slotted"}
  BY <1>1, Alive, UnderBase DEF Under
<1>2. CASE hpc[e] \in {"armed", "poll"}
  BY <1>2, Alive DEF RefInv, Places, RealRef
<1>3. CASE hpc[e] = "slotErr"
  <2>1. BaseRef(e)
    BY <1>3 DEF RefInv, Places, Waits, BaseRef, Waiting, CallerPcs, Start
  <2> QED BY <2>1, Alive
<1> QED BY <1>0, <1>1, <1>2, <1>3 DEF Typed, HandlerPcs

LEMMA QueuedAlive ==
    ASSUME FullInv, RefInv, wq # << >>
    PROVE  Head(wq) \in Ents /\ Queued(Head(wq)) /\ refcnt[Head(wq)] > 0 /\ hpc[Head(wq)] = "none"
<1>1. wq \in Seq(Ents)
  BY IsTyped DEF Typed
<1>2. Head(wq) \in Ents /\ Queued(Head(wq)) /\ hpc[Head(wq)] = "none"
  BY <1>1 DEF Queued, FullInv, IndInv, QueueShape
<1> QED BY <1>2, Alive, UnderBase DEF Under

LEMMA CompAlive ==
    ASSUME FullInv, RefInv, NEW c \in Ctx, comp[c].pc \notin {"idle", "claim"}
    PROVE  /\ comp[c].ent \in Ents  /\ refcnt[comp[c].ent] > 0
           /\ comp[c].pc \in PastPcs => BaseRef(comp[c].ent)
           /\ comp[c].pc = "lateput" => c = Irq /\ Timeouts /\ RealRef(comp[c].ent)
           /\ comp[c].pc # "trigput"
<1>1. comp[c].ent \in Ents
  BY Belongs
<1>2. CASE comp[c].pc \in PastPcs
  <2>1. BaseRef(comp[c].ent)
    BY <1>1, <1>2, PastUnder, UnderBase
  <2> QED BY <1>1, <1>2, <2>1, Alive DEF PastPcs
<1>3. CASE c = Irq /\ comp[c].pc = "lateput"
  <2>1. Timeouts /\ RealRef(comp[c].ent)
    BY <1>1, <1>3 DEF RefInv, CompIrq, RealRef, Due, Late
  <2> QED BY <1>1, <1>3, <2>1, Alive DEF PastPcs
<1> QED BY <1>2, <1>3, Belongs

LEMMA FlushAlive ==
    ASSUME FullInv, RefInv, fheld # {}
    PROVE  /\ Lowest(fheld) \in fheld
           /\ entArr[Lowest(fheld)] \in Ents  /\ idx[entArr[Lowest(fheld)]] = Lowest(fheld)
           /\ refcnt[entArr[Lowest(fheld)]] > 0
<1>1. Lowest(fheld) \in fheld
  BY LowestIn, IsTyped DEF Typed
<1>2. entArr[Lowest(fheld)] \in Ents  /\ idx[entArr[Lowest(fheld)]] = Lowest(fheld)
  BY <1>1 DEF RefInv, Held
<1>3. FlushRef(entArr[Lowest(fheld)])
  BY <1>1, <1>2 DEF FlushRef
<1> QED BY <1>1, <1>2, <1>3, Alive

(* So nobody touches a freed entry.                                        *)
LEMMA UafStep ==
    ASSUME Sane, FullInv, RefInv, Next
    PROVE  ~uaf'
<1>0. Typed /\ ~uaf
  BY IsTyped DEF RefInv
<1>a. ASSUME NEW e, refcnt[e] > 0, uaf' = (refcnt[e] = 0)
      PROVE  ~uaf'
  <2>1. refcnt[e] # 0
    BY <1>a
  <2> QED BY <1>a, <2>1, Zenon
<1>1. ASSUME NEW e \in Ents, CmdRefuse(e) \/ CmdExec(e) \/ CallerStep(e)
      PROVE  ~uaf'
  <2>1. CASE WaitStep(e) \/ CancelWork(e) \/ RewaitTimeout(e) \/ CmdReturn(e)
    <3>1. refcnt[e] > 0
      BY <2>1, CallerAlive DEF WaitStep, CancelWork, RewaitTimeout, CmdReturn, Waiting, CallerPcs, Start
    <3>2. uaf' = (refcnt[e] = 0)
      BY <2>1, Zenon DEF WaitStep, CancelWork, RewaitTimeout, CmdReturn, Touch, cmd_ent_put
    <3> QED BY <1>a, <3>1, <3>2
  <2> QED BY <1>0, <1>1, <2>1
          DEF CallerStep, CmdRefuse, CmdExec, ThrottleDown, SubmitFails, Submit,
              HandlingTimeout, ExecTimeout, Recover
<1>2. ASSUME NEW e \in Ents, HandlerStep(e)
      PROVE  ~uaf'
  <2>1. CASE WorkDown(e) \/ WorkExit(e)
    BY <1>0, <2>1 DEF WorkDown, WorkExit
  <2>2. CASE ~(WorkDown(e) \/ WorkExit(e))
    <3>1. refcnt[e] > 0
      BY <1>2, <2>2, HandlerAlive DEF HandlerStep, WorkDownTimeout, WorkSlotErr, WorkAlloc,
                                      WorkArm, WorkSend, WorkPoll
    <3>2. uaf' = (refcnt[e] = 0)
      BY <1>2, <2>2, Zenon
      DEF HandlerStep, WorkDownTimeout, WorkSlotErr, WorkAlloc, WorkArm, WorkSend, WorkPoll,
          FailEarly, cmd_alloc_index, Touch
    <3> QED BY <1>a, <3>1, <3>2
  <2> QED BY <2>1, <2>2
<1>3. ASSUME NEW e \in Ents, TimerStep(e)
      PROVE  ~uaf'
  <2>1. refcnt[e] > 0
    BY <1>3, Alive DEF TimerStep, TimerFire, TimerRecover, TimerPut, TimerRef
  <2>2. uaf' = uaf \/ uaf' = (refcnt[e] = 0)
    BY <1>3, Zenon DEF TimerStep, TimerFire, TimerRecover, TimerPut, Touch, cmd_ent_put, lifeVars
  <2> QED BY <1>0, <1>a, <2>1, <2>2
<1>4. ASSUME NEW c \in Ctx, CompStep(c)
      PROVE  ~uaf'
  <2>1. CASE CompClaim(c)
    <3>1. refcnt[entArr[comp[c].slot]] > 0
      BY <2>1, ClaimAlive DEF CompClaim
    <3>2. uaf' = (refcnt[entArr[comp[c].slot]] = 0)
      BY <2>1, Zenon DEF CompClaim, Touch
    <3> QED BY <1>a, <3>1, <3>2
  <2>2. CASE ~CompClaim(c)
    <3>1. refcnt[comp[c].ent] > 0
      BY <1>4, <2>2, CompAlive
      DEF CompStep, CompLatePut, CompCancel, CompRealPut, CompFinish
    <3>2. uaf' = (refcnt[comp[c].ent] = 0)
      BY <1>4, <2>2, Zenon
      DEF CompStep, CompLatePut, CompCancel, CompRealPut, CompFinish, Touch, cmd_ent_put
    <3> QED BY <1>a, <3>1, <3>2
  <2> QED BY <2>1, <2>2
<1>5. ASSUME NEW s \in Slots, FwDone(s)
      PROVE  ~uaf'
  BY <1>0, <1>5 DEF FwDone
<1>6. CASE WorkStart
  <2>1. refcnt[Head(wq)] > 0
    BY <1>6, QueuedAlive DEF WorkStart
  <2>2. uaf' = (refcnt[Head(wq)] = 0)
    BY <1>6, Zenon DEF WorkStart, Touch
  <2> QED BY <1>a, <2>1, <2>2
<1>7. CASE IrqTake \/ PciOffline \/ DevError \/ AdminNext
  BY <1>0, <1>7 DEF IrqTake, PciOffline, DevError, AdminNext, AdminDown, AdminApply, AdminStep
<1>8. CASE FlushStep
  <2>1. CASE FlushTrigger
    <3>1. \A s \in Slots \ bitmask : refcnt[entArr[s]] # 0
      BY DEF RefInv, Owned
    <3>2. ~\E e \in Ents : (\E s \in Slots \ bitmask : entArr[s] = e) /\ refcnt[e] = 0
      BY <3>1
    <3>3. uaf' = \E e \in Ents : (\E s \in Slots \ bitmask : entArr[s] = e) /\ refcnt[e] = 0
      BY <2>1, Zenon DEF FlushTrigger
    <3> QED BY <3>2, <3>3, Zenon
  <2>2. CASE FlushPut
    <3>1. refcnt[entArr[Lowest(fheld)]] > 0
      BY <2>2, FlushAlive DEF FlushPut
    <3>2. uaf' = (refcnt[entArr[Lowest(fheld)]] = 0)
      BY <2>2, Zenon DEF FlushPut, cmd_ent_put
    <3> QED BY <1>a, <3>1, <3>2
  <2> QED BY <1>0, <1>8, <2>1, <2>2 DEF FlushStep, FlushTry, FlushComp, FlushUnlock
<1> QED BY <1>1, <1>2, <1>3, <1>4, <1>5, <1>6, <1>7, <1>8 DEF Next
-----------------------------------------------------------------------------
(* What a queue holds after a step.                                        *)
LEMMA AppendElements ==
    ASSUME NEW S, NEW q \in Seq(S), NEW x \in S
    PROVE  /\ Append(q, x) \in Seq(S)
           /\ \A y : (\E i \in DOMAIN Append(q, x) : Append(q, x)[i] = y)
                         <=> (\E i \in DOMAIN q : q[i] = y) \/ y = x
<1>1. /\ DOMAIN Append(q, x) = 1 .. Len(q) + 1  /\ DOMAIN q = 1 .. Len(q)  /\ Len(q) \in Nat
      /\ \A i \in 1 .. Len(q) : Append(q, x)[i] = q[i]
      /\ Append(q, x)[Len(q) + 1] = x
  OBVIOUS
<1>2. \A i \in 1 .. Len(q) + 1 : i \in 1 .. Len(q) \/ i = Len(q) + 1
  BY <1>1
<1>3. \A i \in 1 .. Len(q) : i \in 1 .. Len(q) + 1
  BY <1>1
<1>4. Len(q) + 1 \in 1 .. Len(q) + 1
  BY <1>1
<1>5. \A y : (\E i \in DOMAIN Append(q, x) : Append(q, x)[i] = y)
                 => (\E i \in DOMAIN q : q[i] = y) \/ y = x
  BY <1>1, <1>2
<1>6. \A y : (\E i \in DOMAIN q : q[i] = y) \/ y = x
                 => (\E i \in DOMAIN Append(q, x) : Append(q, x)[i] = y)
  BY <1>1, <1>3, <1>4
<1> QED BY <1>5, <1>6

LEMMA TailElements ==
    ASSUME NEW S, NEW q \in Seq(S), q # << >>
    PROVE  /\ Tail(q) \in Seq(S)  /\ Head(q) \in S
           /\ \A y : (\E i \in DOMAIN q : q[i] = y)
                         <=> y = Head(q) \/ (\E i \in DOMAIN Tail(q) : Tail(q)[i] = y)
           /\ (\A i, j \in DOMAIN q : q[i] = q[j] => i = j) =>
                  /\ \A i \in DOMAIN Tail(q) : Tail(q)[i] # Head(q)
                  /\ \A i, j \in DOMAIN Tail(q) : Tail(q)[i] = Tail(q)[j] => i = j
<1>1. /\ DOMAIN Tail(q) = 1 .. Len(q) - 1  /\ DOMAIN q = 1 .. Len(q)  /\ Len(q) \in Nat \ {0}
      /\ \A i \in 1 .. Len(q) - 1 : Tail(q)[i] = q[i + 1]
      /\ Head(q) = q[1]  /\ Head(q) \in S  /\ Tail(q) \in Seq(S)
  OBVIOUS
<1>2. \A i \in 1 .. Len(q) : i = 1 \/ (i - 1 \in 1 .. Len(q) - 1 /\ Tail(q)[i - 1] = q[i])
  BY <1>1
<1>3. \A y : (\E i \in DOMAIN q : q[i] = y) =>
                 y = Head(q) \/ (\E i \in DOMAIN Tail(q) : Tail(q)[i] = y)
  BY <1>1, <1>2
<1>4. \A i \in 1 .. Len(q) - 1 : i + 1 \in DOMAIN q /\ 1 \in DOMAIN q /\ i + 1 # 1
  BY <1>1
<1>5. 1 \in DOMAIN q
  BY <1>1
<1>6. \A y : y = Head(q) \/ (\E i \in DOMAIN Tail(q) : Tail(q)[i] = y) =>
                 (\E i \in DOMAIN q : q[i] = y)
  BY <1>1, <1>4, <1>5
<1>7. ASSUME \A i, j \in DOMAIN q : q[i] = q[j] => i = j
      PROVE  \A i \in DOMAIN Tail(q) : Tail(q)[i] # Head(q)
  BY <1>1, <1>4, <1>7
<1>8. ASSUME \A i, j \in DOMAIN q : q[i] = q[j] => i = j
      PROVE  \A i, j \in DOMAIN Tail(q) : Tail(q)[i] = Tail(q)[j] => i = j
  BY <1>1, <1>4, <1>8
<1> QED BY <1>1, <1>3, <1>6, <1>7, <1>8

LEMMA WithoutElements ==
    ASSUME NEW S, NEW q \in Seq(S), NEW k \in DOMAIN q
    PROVE  /\ \A y : (\E i \in DOMAIN Without(q, k) : Without(q, k)[i] = y) =>
                     (\E i \in DOMAIN q : i # k /\ q[i] = y)
           /\ \A y : (\E i \in DOMAIN q : q[i] = y) =>
                     y = q[k] \/ (\E i \in DOMAIN Without(q, k) : Without(q, k)[i] = y)
<1>1. /\ DOMAIN q = 1 .. Len(q)  /\ Len(q) \in Nat  /\ k \in 1 .. Len(q)
      /\ DOMAIN Without(q, k) = 1 .. Len(q) - 1
      /\ \A i \in 1 .. Len(q) - 1 : Without(q, k)[i] = IF i < k THEN q[i] ELSE q[i + 1]
  BY DEF Without
<1>2. \A i \in 1 .. Len(q) - 1 : \E j \in DOMAIN q : j # k /\ q[j] = Without(q, k)[i]
  BY <1>1
<1>3. \A j \in 1 .. Len(q) : j < k => j \in DOMAIN Without(q, k) /\ Without(q, k)[j] = q[j]
  BY <1>1
<1>4. \A j \in 1 .. Len(q) : j > k =>
          j - 1 \in DOMAIN Without(q, k) /\ Without(q, k)[j - 1] = q[j]
  BY <1>1
<1>5. \A j \in 1 .. Len(q) : j < k \/ j = k \/ j > k
  BY <1>1
<1>6. \A y : (\E i \in DOMAIN q : q[i] = y) =>
               y = q[k] \/ (\E i \in DOMAIN Without(q, k) : Without(q, k)[i] = y)
  BY <1>1, <1>3, <1>4, <1>5
<1> QED BY <1>1, <1>2, <1>6

(* A step after which the same completions are on an entry.                *)
CompSame(f) ==
    \A c \in Ctx : comp'[c] = comp[c] \/ (comp[c].ent # f /\ comp'[c].ent # f)

LEMMA CompFrame ==
    ASSUME NEW f, CompSame(f)
    PROVE  /\ Finishing(f)' <=> Finishing(f)
           /\ Late(f)' <=> Late(f)
           /\ (Dropped' <=> Dropped) => (Putting(f)' <=> Putting(f))
<1>1. Finishing(f)' <=> Finishing(f)
  BY DEF CompSame, Finishing
<1>2. Late(f)' <=> Late(f)
  <2>1. Irq \in Ctx
    BY Contexts
  <2> QED BY <2>1 DEF CompSame, Late
<1>3. ASSUME Dropped' <=> Dropped
      PROVE  Putting(f)' <=> Putting(f)
  BY <1>3 DEF CompSame, Putting
<1> QED BY <1>1, <1>2, <1>3

(* A call of mlx5_cmd_comp_handler() is on no entry yet.                   *)
LEMMA CallFrame ==
    ASSUME FullInv, RefInv, NEW c \in Ctx, NEW s, NEW t, comp[c].pc = "idle", CallComp(c, s, t)
    PROVE  /\ \A f \in Ents : CompSame(f)
           /\ comp'[c] = [pc |-> "claim", slot |-> s, ent |-> NoEnt, type |-> t]
           /\ \A d \in Ctx : d # c => comp'[d] = comp[d]
<1>0. Typed
  BY IsTyped
<1>1. /\ comp'[c] = [pc |-> "claim", slot |-> s, ent |-> NoEnt, type |-> t]
      /\ \A d \in Ctx : d # c => comp'[d] = comp[d]
  BY <1>0 DEF CallComp, Typed
<1>2. comp[c].ent = NoEnt
  BY DEF RefInv, CompEnt
<1> QED BY <1>0, <1>1, <1>2 DEF CompSame, Typed

(* The entry that a completion handles, and how the completion moves.      *)
Handled(c) == IF comp[c].pc = "claim" THEN entArr[comp[c].slot] ELSE comp[c].ent

LEMMA CompStepFrame ==
    ASSUME Sane, FullInv, RefInv, NEW c \in Ctx, CompStep(c)
    PROVE  /\ Handled(c) \in Ents  /\ Armed(Handled(c))
           /\ \A d \in Ctx : d # c => comp'[d] = comp[d]
           /\ \A f \in Ents : f # Handled(c) => CompSame(f)
           /\ UNCHANGED <<idx, entArr, hpc, cpc, wq, mode, allowed, devState, offline,
                          fw, eqes, fheld, ftodo, fpc, pollCmd, slotted, handling, phase,
                          eqUp, nbReg, fgot, got, fwDone>>
<1>0. Typed
  BY IsTyped
<1>1. CASE CompClaim(c)
  <2> DEFINE e == entArr[comp[c].slot]
  <2>1. e \in Ents /\ Handled(c) = e /\ Armed(e)
    BY <1>1, ClaimAlive DEF CompClaim, Handled
  <2>2. comp' = [comp EXCEPT ![c] = IF Claimed(c, e) = "idle" THEN CompIdle
                                    ELSE [@ EXCEPT !.pc = Claimed(c, e), !.ent = e]]
    BY <1>1 DEF CompClaim
  <2> HIDE DEF e
  <2>3. comp[c].ent = NoEnt
    BY <1>1 DEF CompClaim, RefInv, CompEnt
  <2>4. \A d \in Ctx : d # c => comp'[d] = comp[d]
    BY <1>0, <2>2 DEF Typed
  <2>5. comp'[c].ent \in {NoEnt, e}
    BY <1>0, <2>2 DEF Typed, CompIdle
  <2> QED BY <1>0, <1>1, <2>1, <2>3, <2>4, <2>5 DEF CompClaim, CompSame, Typed
<1>2. CASE ~CompClaim(c)
  <2>1. comp[c].pc \notin {"idle", "claim"} /\ Handled(c) = comp[c].ent
    BY <1>2 DEF CompStep, CompLatePut, CompCancel, CompRealPut, CompFinish, Handled
  <2>2. comp[c].ent \in Ents
    BY <2>1, Belongs
  <2>3. /\ \A d \in Ctx : d # c => comp'[d] = comp[d]
        /\ comp'[c].ent \in {NoEnt, comp[c].ent}
    BY <1>0, <1>2 DEF CompStep, CompLatePut, CompCancel, CompRealPut, CompFinish,
                      CompReturn, CompAt, CompIdle, Typed
  <2>4. Armed(comp[c].ent)
    <3>1. CASE c = Irq
      BY <2>1, <3>1 DEF RefInv, CompIrq, Armed
    <3>2. ASSUME NEW e \in Ents, c = Work(e)
          PROVE  Armed(comp[c].ent)
      BY <2>1, <3>2 DEF RefInv, CompWork, Armed
    <3>3. CASE comp[c].type # "POLLING" /\ c # Irq
      BY <2>1, <3>3, Belongs DEF FullInv, ClaimedOnce, Past, PastPcs
    <3>4. CASE comp[c].type = "POLLING" /\ c # Irq
      BY <2>1, <3>2, <3>4, Contexts
      DEF RefInv, CompWait, CompTmo, CompFlush
    <3> QED BY <3>1, <3>3, <3>4
  <2> QED BY <1>0, <1>2, <2>1, <2>2, <2>3, <2>4
          DEF CompStep, CompLatePut, CompCancel, CompRealPut, CompFinish, CompSame, Typed
<1> QED BY <1>1, <1>2

(* The pending bit is cleared by the context that goes on to complete.     *)
LEMMA ClaimEffect ==
    ASSUME Sane, FullInv, RefInv, NEW c \in Ctx, CompClaim(c), NEW e, e = Handled(c)
    PROVE  /\ e \in Ents  /\ pending' = [pending EXCEPT ![e] = FALSE]
           /\ comp[c].pc = "claim"
           /\ idx[e] = comp[c].slot  /\ idx[e] \in Slots  /\ entArr[idx[e]] = e
           /\ pending[e] => comp'[c].pc = "cancel" /\ comp'[c].ent = e
           /\ ~pending[e] /\ comp[c].type = "EVENT" =>
                 comp'[c].pc = "lateput" /\ comp'[c].ent = e
           /\ ~pending[e] /\ comp[c].type # "EVENT" => comp'[c] = CompIdle
           /\ comp[c].type = "POLLING" => pending[e]
           /\ comp'[c].pc # "idle" =>
                 comp'[c].slot = comp[c].slot /\ comp'[c].type = comp[c].type
           /\ UNCHANGED <<refcnt, bitmask, timer, ret, done, rref>>
<1>0. Typed
  BY IsTyped
<1>1. /\ e \in Ents  /\ e = entArr[comp[c].slot]
      /\ idx[e] = comp[c].slot  /\ comp[c].slot \in Slots
      /\ \A x \in Ents : c \in {Work(x), Wait(x), Tmo(x)} => x = e
  BY ClaimAlive DEF CompClaim, Handled
<1>2. /\ comp' = [comp EXCEPT ![c] = IF Claimed(c, e) = "idle" THEN CompIdle
                                    ELSE [@ EXCEPT !.pc = Claimed(c, e), !.ent = e]]
      /\ pending' = [pending EXCEPT ![e] = FALSE]  /\ comp[c].pc = "claim"
      /\ UNCHANGED <<refcnt, bitmask, timer, ret, done, rref>>
  BY <1>1 DEF CompClaim, Touch
<1>3. ~Kind[e].polling
  BY <1>1 DEF Sane
<1>4. Trig(c) => ret[e] # "ETIMEDOUT"
  <2>1. Trig(c) => ~Timeouts
    BY <1>2, Steady DEF Trig, RefInv, CompFlush
  <2> QED BY <1>1, <2>1 DEF RefInv, Places
<1>5. comp[c].type = "POLLING" => pending[e]
  BY <1>1, <1>2, Contexts DEF RefInv, CompWork, CompWait, CompTmo, CompIrq, CompFlush
<1>6. comp[c].type \in CompTypes /\ pending[e] \in BOOLEAN
  BY <1>0, <1>1 DEF Typed
<1>7. /\ pending[e] => Claimed(c, e) = "cancel"
      /\ ~pending[e] /\ comp[c].type = "EVENT" => Claimed(c, e) = "lateput"
      /\ ~pending[e] /\ comp[c].type # "EVENT" => Claimed(c, e) = "idle"
  BY <1>3, <1>4, <1>5, <1>6 DEF Claimed, CompTypes
<1>8. /\ Claimed(c, e) = "idle" => comp'[c] = CompIdle
      /\ Claimed(c, e) # "idle" =>
            /\ comp'[c].pc = Claimed(c, e)  /\ comp'[c].ent = e
            /\ comp'[c].slot = comp[c].slot  /\ comp'[c].type = comp[c].type
  BY <1>0, <1>2 DEF Typed
<1>9. comp'[c].pc # "idle" => Claimed(c, e) # "idle"
  BY <1>8 DEF CompIdle
<1> QED BY <1>1, <1>2, <1>5, <1>7, <1>8, <1>9

(* Who completes, with the pending bit clear.                              *)
LEMMA PastNotPending ==
    ASSUME FullInv, RefInv, NEW c \in Ctx, comp[c].pc \in PastPcs
    PROVE  ~pending[comp[c].ent]
<1>1. CASE comp[c].type # "POLLING"
  BY <1>1 DEF FullInv, ClaimedOnce, Past, PastPcs
<1>2. CASE comp[c].type = "POLLING"
  <2>1. PICK e \in Ents : c = Work(e)
    BY <1>2, Contexts DEF RefInv, CompWait, CompTmo, CompIrq, CompFlush, PastPcs
  <2>2. comp[c].ent = e /\ hpc[e] = "comp"
    BY <2>1 DEF RefInv, CompWork, PastPcs
  <2> QED BY <2>1, <2>2 DEF RefInv, Places, PastPcs
<1> QED BY <1>1, <1>2

LEMMA PastArmed ==
    ASSUME FullInv, RefInv, NEW c \in Ctx, comp[c].pc \in PastPcs
    PROVE  comp[c].ent \in Ents /\ Armed(comp[c].ent)
<1>0. comp[c].ent \in Ents
  BY Belongs DEF PastPcs
<1>1. CASE comp[c].type # "POLLING"
  BY <1>0, <1>1 DEF FullInv, ClaimedOnce, Past, PastPcs
<1>2. CASE comp[c].type = "POLLING"
  <2>1. PICK e \in Ents : c = Work(e)
    BY <1>2, Contexts DEF RefInv, CompWait, CompTmo, CompIrq, CompFlush, PastPcs
  <2>2. comp[c].ent = e /\ hpc[e] = "comp"
    BY <2>1 DEF RefInv, CompWork, PastPcs
  <2> QED BY <1>0, <2>1, <2>2 DEF Armed
<1> QED BY <1>1, <1>2

(* An armed command is neither queued nor on its way to a slot.            *)
LEMMA ArmedUnder ==
    ASSUME FullInv, RefInv, NEW e \in Ents, Armed(e)
    PROVE  Under(e) <=> pending[e] \/ Finishing(e)
  BY DEF Under, Queued, Armed, FullInv, IndInv, QueueShape

(* The end of a completion.                                                *)
LEMMA FinishEffect ==
    ASSUME Sane, FullInv, RefInv, NEW c \in Ctx, CompFinish(c),
           NEW e, e = comp[c].ent
    PROVE  /\ e \in Ents  /\ Handled(c) = e  /\ comp[c].pc = "finish"
           /\ comp' = [comp EXCEPT ![c] = CompIdle]
           /\ ~pending[e]  /\ ~Finishing(e)'  /\ ~Putting(e)  /\ ~Putting(e)'
           /\ UNCHANGED <<pending, timer, slotted, rref>>
           /\ Kind[e].callback => refcnt' = [refcnt EXCEPT ![e] = refcnt[e] - 1] /\ done' = done
           /\ ~Kind[e].callback => refcnt' = refcnt /\ done' = [done EXCEPT ![e] = TRUE]
           /\ ret' = [ret EXCEPT ![e] = IF Trig(c) THEN "ENXIO" ELSE ret[e]]
<1>0. Typed /\ comp[c].pc = "finish"
  BY IsTyped DEF CompFinish
<1>1. e \in Ents /\ Handled(c) = e /\ comp[c].pc \in PastPcs /\ refcnt[e] > 0
  BY <1>0, CompAlive DEF Handled, PastPcs
<1>2. ~pending[e]
  BY <1>1, PastNotPending
<1>3. comp' = [comp EXCEPT ![c] = CompIdle] /\ UNCHANGED <<pending, timer, slotted, rref>>
  BY DEF CompFinish, CompReturn
<1>4. /\ Kind[e].callback => refcnt' = [refcnt EXCEPT ![e] = refcnt[e] - 1] /\ done' = done
      /\ ~Kind[e].callback => refcnt' = refcnt /\ done' = [done EXCEPT ![e] = TRUE]
      /\ ret' = [ret EXCEPT ![e] = IF Trig(c) THEN "ENXIO" ELSE ret[e]]
  BY <1>1 DEF CompFinish, cmd_ent_put, Touch
<1>5. \A d \in Ctx : d # c /\ comp[d].ent = e => comp[d].pc \notin PastPcs
  BY <1>0, <1>1, Unique DEF CompletedOnce, PastPcs
<1>6. \A d \in Ctx : d # c => comp'[d] = comp[d]
  BY <1>0, <1>3 DEF Typed
<1>7. comp'[c].pc = "idle"
  BY <1>0, <1>3 DEF Typed, CompIdle
<1>8. ~Finishing(e)'
  BY <1>5, <1>6, <1>7 DEF Finishing, PastPcs
<1>9. ~Putting(e) /\ ~Putting(e)'
  BY <1>0, <1>5, <1>6, <1>7 DEF Putting, PastPcs
<1> QED BY <1>0, <1>1, <1>2, <1>3, <1>4, <1>8, <1>9

(* A command comes under way with mlx5_cmd_invoke() and stays until it is  *)
(* cancelled, fails to get a slot or is completed.                         *)
LEMMA UnderSteps ==
    ASSUME Sane, FullInv, RefInv, Next, NEW f \in Ents
    PROVE  /\ Under(f)' => Under(f) \/ Submit(f)
           /\ Under(f) => \/ Under(f)'  \/ CancelWork(f)  \/ WorkDownTimeout(f)
                          \/ \E c \in Ctx : CompFinish(c) /\ comp[c].ent = f
<1>0. Typed
  BY IsTyped
<1> DEFINE Same == Under(f)' <=> Under(f)
           Ends == Under(f)' => Under(f)
<1>a. ASSUME hpc'[f] = hpc[f], pending'[f] = pending[f], CompSame(f), Queued(f)' <=> Queued(f)
      PROVE  Same
  BY <1>a, CompFrame DEF Under
<1>b. ASSUME comp' = comp
      PROVE  CompSame(f)
  BY <1>b DEF CompSame
<1>c. ASSUME wq' = wq
      PROVE  Queued(f)' <=> Queued(f)
  BY <1>c DEF Queued
<1>1. ASSUME NEW e \in Ents, CmdRefuse(e) \/ CmdExec(e) \/ CallerStep(e)
      PROVE  \/ Same  \/ (e = f /\ Submit(e))  \/ (e = f /\ CancelWork(e) /\ Ends)
  <2>1. CASE Submit(e)
    <3>1. pending' = pending /\ comp' = comp
      BY <2>1 DEF Submit
    <3>2. CASE e # f
      <4>1. hpc'[f] = hpc[f]
        BY <1>0, <2>1, <3>2 DEF Submit, Typed
      <4>2. wq' = wq \/ wq' = Append(wq, e)
        BY <2>1 DEF Submit
      <4>3. CASE wq' = Append(wq, e)
        <5>1. wq \in Seq(Ents)
          BY <1>0 DEF Typed
        <5>2. (\E i \in DOMAIN Append(wq, e) : Append(wq, e)[i] = f)
                  <=> (\E i \in DOMAIN wq : wq[i] = f) \/ f = e
          BY <5>1, AppendElements
        <5>3. Queued(f)' <=> Queued(f)
          BY <3>2, <4>3, <5>2 DEF Queued
        <5> QED BY <1>a, <1>b, <3>1, <4>1, <5>3
      <4>4. CASE wq' = wq
        BY <1>a, <1>b, <1>c, <3>1, <4>1, <4>4
      <4> QED BY <4>2, <4>3, <4>4
    <3> QED BY <2>1, <3>2
  <2>2. CASE CancelWork(e)
    <3>1. pending' = pending /\ comp' = comp /\ hpc' = hpc
      BY <2>2 DEF CancelWork
    <3>2. wq' = wq \/ \E k \in DOMAIN wq : wq[k] = e /\ wq' = Without(wq, k)
      BY <2>2 DEF CancelWork
    <3>3. /\ Queued(f)' => Queued(f)
          /\ f # e => (Queued(f)' <=> Queued(f))
      <4>1. CASE wq' = wq
        BY <1>c, <4>1
      <4>2. ASSUME NEW k \in DOMAIN wq, wq[k] = e, wq' = Without(wq, k)
            PROVE  (Queued(f)' => Queued(f)) /\ (f # e => (Queued(f)' <=> Queued(f)))
        <5>1. wq \in Seq(Ents)
          BY <1>0 DEF Typed
        <5>2. /\ (\E i \in DOMAIN Without(wq, k) : Without(wq, k)[i] = f) =>
                     (\E i \in DOMAIN wq : i # k /\ wq[i] = f)
              /\ (\E i \in DOMAIN wq : wq[i] = f) =>
                     f = wq[k] \/ (\E i \in DOMAIN Without(wq, k) : Without(wq, k)[i] = f)
          BY <5>1, WithoutElements, SMTT(30)
        <5> QED BY <4>2, <5>2 DEF Queued
      <4> QED BY <3>2, <4>1, <4>2
    <3>4. Under(f)' => Under(f)
      BY <1>b, <3>1, <3>3, CompFrame DEF Under
    <3> QED BY <1>a, <1>b, <2>2, <3>1, <3>3, <3>4
  <2>3. CASE RewaitTimeout(e)
    <3>1. comp[Wait(e)].pc = "idle"
      BY <2>3 DEF RewaitTimeout, RefInv, CompWait
    <3>2. CompSame(f)
      BY <2>3, <3>1, CallFrame, Contexts DEF RewaitTimeout
    <3> QED BY <1>a, <1>c, <2>3, <3>2 DEF RewaitTimeout
  <2>4. CASE ~(Submit(e) \/ CancelWork(e) \/ RewaitTimeout(e))
    <3>1. UNCHANGED <<hpc, pending, comp, wq>>
      BY <1>1, <2>4 DEF CallerStep, CmdRefuse, CmdExec, ThrottleDown, SubmitFails, WaitStep,
              HandlingTimeout, ExecTimeout, Recover, CmdReturn
    <3> QED BY <1>a, <1>b, <1>c, <3>1
  <2> QED BY <2>1, <2>2, <2>3, <2>4
<1>2. ASSUME NEW e \in Ents, HandlerStep(e)
      PROVE  \/ Same  \/ (e = f /\ WorkDownTimeout(e) /\ Ends)
  <2>0. wq' = wq
    BY <1>2 DEF HandlerStep, WorkDown, WorkDownTimeout, WorkSlotErr, WorkAlloc, WorkArm,
                WorkSend, WorkPoll, WorkExit
  <2>1. CompSame(f)
    <3>1. CASE WorkSend(e) \/ WorkPoll(e)
      <4>1. comp[Work(e)].pc = "idle"
        BY <3>1 DEF WorkSend, WorkPoll, RefInv, CompWork
      <4> QED BY <1>b, <3>1, <4>1, CallFrame, Contexts DEF WorkSend, WorkPoll
    <3>2. CASE ~(WorkSend(e) \/ WorkPoll(e))
      BY <1>2, <1>b, <3>2
      DEF HandlerStep, WorkDown, WorkDownTimeout, WorkSlotErr, WorkAlloc, WorkArm, WorkExit
    <3> QED BY <3>1, <3>2
  <2>2. /\ e # f => hpc'[f] = hpc[f] /\ pending'[f] = pending[f]
        /\ e = f => \/ hpc[e] = "wantSem" /\ hpc'[e] = "gotSem" /\ pending'[e] = pending[e]
                    \/ WorkDownTimeout(e) /\ hpc[e] = "wantSem" /\ pending'[e] = pending[e]
                       /\ hpc'[e] = "slotErr"
                    \/ hpc[e] = "slotErr" /\ hpc'[e] = "exit" /\ pending'[e] = pending[e]
                    \/ WorkAlloc(e) /\ hpc[e] = "gotSem" /\ pending'[e] = pending[e]
                    \/ hpc[e] = "slotted" /\ hpc'[e] = "armed" /\ pending'[e]
                    \/ hpc[e] \in {"armed", "poll", "comp"} /\ hpc'[e] \in {"poll", "comp", "exit"}
                       /\ pending'[e] = pending[e]
    BY <1>0, <1>2 DEF HandlerStep, WorkDown, WorkDownTimeout, WorkSlotErr, WorkAlloc, WorkArm,
                WorkSend, WorkPoll, WorkExit, Typed
  <2>3. WorkAlloc(e) => hpc'[e] = "slotted"
    BY <1>0, BackedAvailable DEF WorkAlloc, SlotAvailable, FullInv, Typed
  <2>4. Finishing(f)' <=> Finishing(f)
    BY <2>1, CompFrame
  <2>5. Queued(f)' <=> Queued(f)
    BY <1>c, <2>0
  <2> QED BY <2>2, <2>3, <2>4, <2>5 DEF Under
<1>3. ASSUME NEW e \in Ents, TimerStep(e)
      PROVE  Same
  <2>1. CompSame(f)
    <3>1. CASE TimerRecover(e)
      <4>1. comp[Tmo(e)].pc = "idle"
        BY <3>1 DEF TimerRecover, RefInv, CompTmo
      <4> QED BY <1>b, <3>1, <4>1, CallFrame, Contexts DEF TimerRecover
    <3> QED BY <1>3, <1>b, <3>1 DEF TimerStep, TimerFire, TimerPut
  <2> QED BY <1>3, <1>a, <1>c, <2>1 DEF TimerStep, TimerFire, TimerPut, TimerRecover
<1>4. ASSUME NEW c \in Ctx, CompStep(c)
      PROVE  \/ Same  \/ (CompFinish(c) /\ comp[c].ent = f /\ Ends)
  <2>0. Handled(c) \in Ents /\ Armed(Handled(c)) /\ wq' = wq /\ hpc' = hpc
    BY <1>4, CompStepFrame
  <2>1. CASE f # Handled(c)
    <3>1. CompSame(f)
      BY <1>4, <2>1, CompStepFrame
    <3>2. pending'[f] = pending[f]
      <4>1. CASE CompClaim(c)
        BY <1>0, <2>0, <2>1, <4>1, ClaimEffect DEF Typed
      <4>2. CASE ~CompClaim(c)
        BY <1>4, <4>2 DEF CompStep, CompLatePut, CompCancel, CompRealPut, CompFinish
      <4> QED BY <4>1, <4>2
    <3> QED BY <1>a, <1>c, <2>0, <3>1, <3>2
  <2>2. CASE f = Handled(c)
    <3>1. Under(f) <=> pending[f] \/ Finishing(f)
      BY <2>0, <2>2, ArmedUnder
    <3>2. Under(f)' <=> pending'[f] \/ Finishing(f)'
      <4>1. ~Queued(f)' /\ hpc'[f] \notin {"wantSem", "gotSem", "slotted"}
        BY <1>c, <2>0, <2>2 DEF Queued, Armed, FullInv, IndInv, QueueShape
      <4> QED BY <4>1 DEF Under
    <3>3. CASE CompClaim(c)
      <4>1. CASE pending[f]
        <5>1. comp'[c].ent = f /\ comp'[c].pc \in PastPcs
          BY <1>0, <2>2, <3>3, <4>1, ClaimEffect DEF PastPcs, Typed
        <5>2. Finishing(f)'
          BY <5>1 DEF Finishing
        <5> QED BY <3>1, <3>2, <4>1, <5>2
      <4>2. CASE ~pending[f]
        <5>1. ~pending'[f]
          BY <1>0, <2>0, <2>2, <3>3, ClaimEffect DEF Typed
        <5>2. comp'[c].pc \notin PastPcs /\ comp[c].pc \notin PastPcs
          <6>1. comp[c].pc = "claim" /\ (comp'[c].pc = "lateput" \/ comp'[c] = CompIdle)
            BY <2>2, <3>3, <4>2, ClaimEffect
          <6> QED BY <6>1 DEF PastPcs, CompIdle
        <5>3. \A d \in Ctx : d # c => comp'[d] = comp[d]
          BY <1>4, CompStepFrame
        <5>4. Finishing(f)' <=> Finishing(f)
          BY <5>2, <5>3 DEF Finishing
        <5> QED BY <3>1, <3>2, <4>2, <5>1, <5>4
      <4> QED BY <4>1, <4>2
    <3>4. CASE CompFinish(c)
      BY <2>2, <3>1, <3>2, <3>4, FinishEffect
    <3>5. CASE CompLatePut(c) \/ CompCancel(c) \/ CompRealPut(c)
      <4>1. pending' = pending
        BY <3>5 DEF CompLatePut, CompCancel, CompRealPut
      <4>2. /\ \A d \in Ctx : d # c => comp'[d] = comp[d]
            /\ comp[c].pc \in PastPcs <=> comp'[c].pc \in PastPcs
            /\ comp[c].pc \in PastPcs => comp'[c].ent = comp[c].ent
        BY <1>0, <3>5 DEF CompLatePut, CompCancel, CompRealPut, CompReturn, CompAt, CompIdle, Typed, PastPcs
      <4>3. Finishing(f)' <=> Finishing(f)
        BY <4>2 DEF Finishing
      <4> QED BY <3>1, <3>2, <4>1, <4>3
    <3> QED BY <1>4, <3>3, <3>4, <3>5 DEF CompStep
  <2> QED BY <2>1, <2>2
<1>5. ASSUME NEW s \in Slots, FwDone(s)
      PROVE  Same
  BY <1>5, <1>a, <1>b, <1>c DEF FwDone
<1>6. ASSUME WorkStart
      PROVE  Same
  <2>1. Head(wq) \in Ents /\ Queued(Head(wq)) /\ pending' = pending /\ comp' = comp
    BY <1>6, QueuedAlive DEF WorkStart
  <2>2. hpc' = [hpc EXCEPT ![Head(wq)] = "wantSem"] /\ wq' = Tail(wq) /\ wq # << >>
    BY <1>6 DEF WorkStart
  <2>3. CASE f = Head(wq)
    <3>1. hpc'[f] = "wantSem"
      BY <1>0, <2>1, <2>2, <2>3 DEF Typed
    <3> QED BY <2>1, <2>3, <3>1 DEF Under
  <2>4. CASE f # Head(wq)
    <3>1. hpc'[f] = hpc[f]
      BY <1>0, <2>1, <2>2, <2>4 DEF Typed
    <3>2. Queued(f)' <=> Queued(f)
      <4>1. wq \in Seq(Ents)
        BY <1>0 DEF Typed
      <4>2. (\E i \in DOMAIN wq : wq[i] = f)
                <=> f = Head(wq) \/ (\E i \in DOMAIN Tail(wq) : Tail(wq)[i] = f)
        BY <2>2, <4>1, TailElements
      <4> QED BY <2>2, <2>4, <4>2 DEF Queued
    <3> QED BY <1>a, <1>b, <2>1, <3>1, <3>2
  <2> QED BY <2>3, <2>4
<1>7. ASSUME IrqTake
      PROVE  Same
  <2>1. CompSame(f)
    BY <1>7, <1>b, CallFrame, Contexts DEF IrqTake
  <2> QED BY <1>7, <1>a, <1>c, <2>1 DEF IrqTake
<1>8. ASSUME PciOffline \/ DevError \/ AdminNext
      PROVE  Same
  <2>1. UNCHANGED <<hpc, pending, comp, wq>>
    BY <1>8 DEF PciOffline, DevError, AdminNext, AdminDown, AdminApply, AdminStep
  <2> QED BY <1>a, <1>b, <1>c, <2>1
<1>9. ASSUME FlushStep
      PROVE  Same
  <2>1. CompSame(f)
    <3>1. CASE FlushComp
      BY <1>b, <3>1, CallFrame, Contexts DEF FlushComp
    <3> QED BY <1>9, <1>b, <3>1 DEF FlushStep, FlushTry, FlushTrigger, FlushPut, FlushUnlock
  <2>2. UNCHANGED <<hpc, pending, wq>>
    BY <1>9 DEF FlushStep, FlushTry, FlushTrigger, FlushPut, FlushUnlock, FlushComp
  <2> QED BY <1>a, <1>c, <2>1, <2>2
<1> HIDE DEF Same, Ends
<1>10. Same \/ Submit(f) \/ (CancelWork(f) /\ Ends) \/ (WorkDownTimeout(f) /\ Ends)
            \/ \E c \in Ctx : CompFinish(c) /\ comp[c].ent = f /\ Ends
  BY <1>1, <1>2, <1>3, <1>4, <1>5, <1>6, <1>7, <1>8, <1>9 DEF Next
<1>11. CASE Submit(f)
  <2>1. Under(f)'
    <3>1. CASE Kind[f].page
      BY <1>0, <1>11, <3>1 DEF Submit, Under, Typed
    <3>2. CASE ~Kind[f].page
      <4>1. wq' = Append(wq, f)
        BY <1>11, <3>2 DEF Submit
      <4>2. Queued(f)'
        <5>1. wq \in Seq(Ents)
          BY <1>0 DEF Typed
        <5>2. \E i \in DOMAIN Append(wq, f) : Append(wq, f)[i] = f
          BY <5>1, AppendElements
        <5> QED BY <4>1, <5>2 DEF Queued
      <4> QED BY <4>2 DEF Under
    <3> QED BY <3>1, <3>2
  <2> QED BY <1>11, <2>1
<1> QED BY <1>10, <1>11 DEF Same, Ends
-----------------------------------------------------------------------------
(* What keeps the parts of the invariant.                                  *)
EntInv(f) == Waits(f) /\ Places(f) /\ CompWork(f) /\ CompWait(f) /\ CompTmo(f)
EnvInv == CompIrq /\ CompFlush /\ Held /\ CompEnt /\ OneAnswer /\ Answers /\ Modes

LEMMA RefInvParts ==
    /\ RefInv <=> ~uaf /\ (\A f \in Ents : Refs(f) /\ EntInv(f)) /\ EnvInv /\ Owned
    /\ RefInv' <=> ~uaf' /\ (\A f \in Ents : Refs(f)' /\ EntInv(f)') /\ EnvInv' /\ Owned'
  BY DEF RefInv, EntInv, EnvInv

LEMMA BusyFrame ==
    ASSUME UNCHANGED <<fw, eqes>>, comp'[Irq] = comp[Irq]
    PROVE  \A s : /\ Reported(s)' <=> Reported(s)
                  /\ Asked(s)' <=> Asked(s)
                  /\ Busy(s)' <=> Busy(s)
  BY DEF Busy, Reported, Asked

LEMMA EnvFrame ==
    ASSUME EnvInv,
           UNCHANGED <<fw, eqes, idx, entArr, fheld, ftodo, fpc, devState, offline, mode,
                       allowed, eqUp, nbReg, phase>>,
           comp'[Irq] = comp[Irq], comp'[Flush] = comp[Flush], CompEnt',
           \A f \in Ents : /\ Armed(f) => Armed(f)'
                           /\ pending[f] => pending'[f]
                           /\ hpc[f] \in {"poll", "exit"} => hpc'[f] = hpc[f],
           SlotShape, Typed
    PROVE  EnvInv'
<1>1. \A s : /\ Reported(s)' <=> Reported(s)
             /\ Asked(s)' <=> Asked(s)
             /\ Busy(s)' <=> Busy(s)
  BY BusyFrame
<1>2. CompIrq'
  <2>1. Irq \in Ctx
    BY Contexts
  <2>2. comp[Irq].pc \notin {"idle", "claim"} => comp[Irq].ent \in Ents
    BY <2>1 DEF SlotShape
  <2> QED BY <1>1, <2>2 DEF EnvInv, CompIrq, opcode_allowed
<1>3. CompFlush' /\ Held'
  BY DEF EnvInv, CompFlush, Held
<1>4. OneAnswer'
  BY <1>1 DEF EnvInv, OneAnswer
<1>5. Answers'
  BY <1>1 DEF EnvInv, Answers
<1>6. Modes'
  BY <1>1 DEF EnvInv, Modes, opcode_allowed
<1> QED BY <1>2, <1>3, <1>4, <1>5, <1>6 DEF EnvInv

LEMMA EntFrame ==
    ASSUME NEW f \in Ents, EntInv(f), Under(f)' => Under(f),
           hpc'[f] = hpc[f], cpc'[f] = cpc[f], timer'[f] = timer[f], pending'[f] = pending[f],
           pollCmd'[f] = pollCmd[f], ret'[f] = ret[f], done'[f] = done[f],
           slotted'[f] = slotted[f], idx'[f] = idx[f],
           comp'[Work(f)] = comp[Work(f)], comp'[Wait(f)] = comp[Wait(f)],
           comp'[Tmo(f)] = comp[Tmo(f)],
           UNCHANGED <<mode, allowed, devState, offline>>,
           Timeouts /\ pending[f] => \A s \in Slots : idx[f] = s /\ Busy(s) => Busy(s)'
    PROVE  EntInv(f)'
<1>1. Waits(f)'
  BY DEF EntInv, Waits
<1>2. Places(f)'
  BY DEF EntInv, Places, Armed, opcode_allowed
<1>3. CompWork(f)'
  BY DEF EntInv, CompWork, Dropped, mlx5_cmd_is_down, opcode_allowed
<1>4. CompWait(f)' /\ CompTmo(f)'
  BY DEF EntInv, CompWait, CompTmo
<1> QED BY <1>1, <1>2, <1>3, <1>4 DEF EntInv

LEMMA RefsFrame ==
    ASSUME NEW f \in Ents, Refs(f), refcnt'[f] = refcnt[f],
           BaseRef(f)' <=> BaseRef(f), timer'[f] = timer[f],
           RealRef(f)' <=> RealRef(f), FlushRef(f)' <=> FlushRef(f)
    PROVE  Refs(f)'
<1>1. TimerRef(f)' <=> TimerRef(f)
  BY DEF TimerRef
<1> QED BY <1>1 DEF Refs, One

LEMMA BaseFrame ==
    ASSUME NEW f \in Ents, cpc'[f] = cpc[f], Under(f)' <=> Under(f)
    PROVE  BaseRef(f)' <=> BaseRef(f)
  BY DEF BaseRef

LEMMA FlushFrame ==
    ASSUME NEW f, UNCHANGED <<idx, entArr, fheld>>
    PROVE  FlushRef(f)' <=> FlushRef(f)
  BY DEF FlushRef

LEMMA RealFrame ==
    ASSUME NEW f, pending'[f] = pending[f], CompSame(f),
           UNCHANGED <<idx, entArr, allowed, offline, devState>>,
           Timeouts => UNCHANGED <<fw, eqes>> /\ comp'[Irq] = comp[Irq]
    PROVE  RealRef(f)' <=> RealRef(f)
<1>1. Dropped' <=> Dropped
  BY DEF Dropped, mlx5_cmd_is_down, opcode_allowed
<1>2. (Putting(f)' <=> Putting(f)) /\ (Late(f)' <=> Late(f))
  BY <1>1, CompFrame
<1>3. Timeouts => (Due(f)' <=> Due(f))
  BY <1>2, BusyFrame DEF Due
<1> QED BY <1>2, <1>3 DEF RealRef

LEMMA UnderSame ==
    ASSUME Sane, FullInv, RefInv, Next, NEW f \in Ents, cpc'[f] = cpc[f], hpc'[f] = hpc[f],
           CompSame(f)
    PROVE  Under(f)' <=> Under(f)
<1>0. Typed
  BY IsTyped
<1>1. ~Submit(f)
  BY <1>0 DEF Submit, Typed
<1>2. ~CancelWork(f)
  BY <1>0 DEF CancelWork, Typed
<1>3. ~WorkDownTimeout(f)
  BY <1>0 DEF WorkDownTimeout, Typed
<1>4. ASSUME NEW c \in Ctx, CompFinish(c), comp[c].ent = f
      PROVE  FALSE
  <2>1. comp[c].pc = "finish" /\ comp'[c].pc = "idle"
    BY <1>0, <1>4 DEF CompFinish, CompReturn, CompIdle, Typed
  <2> QED BY <1>4, <2>1 DEF CompSame
<1> QED BY <1>1, <1>2, <1>3, <1>4, UnderSteps

(* All of an entry that a step does not concern.                           *)
Untouched(f) ==
    /\ hpc'[f] = hpc[f]  /\ cpc'[f] = cpc[f]  /\ timer'[f] = timer[f]
    /\ pending'[f] = pending[f]  /\ pollCmd'[f] = pollCmd[f]  /\ ret'[f] = ret[f]
    /\ done'[f] = done[f]  /\ slotted'[f] = slotted[f]  /\ refcnt'[f] = refcnt[f]
    /\ comp'[Work(f)] = comp[Work(f)]  /\ comp'[Wait(f)] = comp[Wait(f)]
    /\ comp'[Tmo(f)] = comp[Tmo(f)]
    /\ CompSame(f)
Still ==
    /\ UNCHANGED <<idx, entArr, fheld, fw, eqes, allowed, mode, offline, devState>>
    /\ comp'[Irq] = comp[Irq]

LEMMA OtherEnt ==
    ASSUME Sane, FullInv, RefInv, Next, NEW f \in Ents, Untouched(f), Still
    PROVE  Refs(f)' /\ EntInv(f)'
<1>0. Refs(f) /\ EntInv(f)
  BY RefInvParts
<1>u. Under(f)' <=> Under(f)
  BY UnderSame DEF Untouched
<1>1. BaseRef(f)' <=> BaseRef(f)
  BY <1>u, BaseFrame DEF Untouched
<1>2. FlushRef(f)' <=> FlushRef(f)
  BY FlushFrame DEF Still
<1>3. RealRef(f)' <=> RealRef(f)
  BY RealFrame DEF Untouched, Still
<1>4. Refs(f)'
  BY <1>0, <1>1, <1>2, <1>3, RefsFrame DEF Untouched
<1>5. \A s : Busy(s)' <=> Busy(s)
  BY BusyFrame DEF Still
<1>6. EntInv(f)'
  BY <1>0, <1>u, <1>5, EntFrame DEF Untouched, Still
<1> QED BY <1>4, <1>6

(* The owner of a slot in use.                                             *)
LEMMA OwnedFrame ==
    ASSUME Owned, UNCHANGED <<idx, entArr, bitmask>>,
           \A f \in Ents : refcnt[f] > 0 => refcnt'[f] > 0
    PROVE  Owned'
  BY DEF Owned

LEMMA OwnedPut ==
    ASSUME Owned, Typed, NEW e \in Ents, cmd_ent_put(e), UNCHANGED <<idx, entArr>>, refcnt[e] > 0
    PROVE  /\ Owned'  /\ refcnt' = [refcnt EXCEPT ![e] = refcnt[e] - 1]
           /\ refcnt'[e] = refcnt[e] - 1  /\ \A f \in Ents : f # e => refcnt'[f] = refcnt[f]
<1>1. refcnt' = [refcnt EXCEPT ![e] = refcnt[e] - 1]
  <2>1. (IF refcnt[e] = 0 THEN 0 ELSE refcnt[e] - 1) = refcnt[e] - 1
    OBVIOUS
  <2>2. refcnt' = [refcnt EXCEPT ![e] = IF refcnt[e] = 0 THEN 0 ELSE refcnt[e] - 1]
    BY DEF cmd_ent_put
  <2> QED BY <2>1, <2>2
<1>2. refcnt'[e] = refcnt[e] - 1  /\ \A f \in Ents : f # e => refcnt'[f] = refcnt[f]
  BY <1>1 DEF Typed
<1>3. bitmask' = IF LastRef(e) THEN bitmask \cup {idx[e]} ELSE bitmask
  BY DEF cmd_ent_put, cmd_free_index
<1>4. ASSUME NEW s \in Slots, s \notin bitmask'
      PROVE  entArr[s] \in Ents /\ idx[entArr[s]] = s /\ refcnt'[entArr[s]] > 0
  <2>1. s \notin bitmask /\ entArr[s] \in Ents /\ idx[entArr[s]] = s /\ refcnt[entArr[s]] > 0
    BY <1>3, <1>4 DEF Owned
  <2>2. CASE entArr[s] = e
    <3>1. ~LastRef(e)
      BY <1>3, <1>4, <2>1, <2>2
    <3>2. refcnt[e] # 1
      BY <2>1, <2>2, <3>1 DEF LastRef, Typed
    <3> QED BY <1>2, <2>1, <2>2, <3>2 DEF Typed
  <2> QED BY <1>2, <2>1, <2>2
<1> QED BY <1>1, <1>2, <1>4 DEF Owned
-----------------------------------------------------------------------------
(* The caller.                                                             *)
LEMMA CallerElse ==
    ASSUME Sane, FullInv, RefInv, Next, NEW e \in Ents,
           CmdRefuse(e) \/ CmdExec(e) \/ CallerStep(e)
    PROVE  /\ Still  /\ EnvInv'  /\ ~uaf'  /\ \A f \in Ents : CompSame(f)
           /\ \A f \in Ents : f # e => Refs(f)' /\ EntInv(f)'
           /\ UNCHANGED <<pending, slotted, done, pollCmd, timer>>
           /\ \A s : Busy(s)' <=> Busy(s)
           /\ \A f \in Ents : (RealRef(f)' <=> RealRef(f)) /\ (FlushRef(f)' <=> FlushRef(f))
           /\ comp'[Work(e)] = comp[Work(e)] /\ comp'[Tmo(e)] = comp[Tmo(e)]
<1>0. Typed /\ EnvInv /\ SlotShape /\ CompEnt /\ ~uaf'
  BY IsTyped, RefInvParts, UafStep DEF FullInv, IndInv, EnvInv
<1>1. UNCHANGED <<idx, entArr, fheld, ftodo, fpc, fw, eqes, allowed, mode, offline, devState,
                  eqUp, nbReg, phase, pending, slotted, done, pollCmd, timer>>
  BY DEF CallerStep, CmdRefuse, CmdExec, ThrottleDown, SubmitFails, Submit, WaitStep, CancelWork,
         HandlingTimeout, ExecTimeout, Recover, RewaitTimeout, CmdReturn
<1>2. \A f \in Ents : f # e =>
          /\ cpc'[f] = cpc[f]  /\ hpc'[f] = hpc[f]  /\ ret'[f] = ret[f]  /\ refcnt'[f] = refcnt[f]
  BY <1>0 DEF CallerStep, CmdRefuse, CmdExec, ThrottleDown, SubmitFails, Submit, WaitStep, CancelWork,
         HandlingTimeout, ExecTimeout, Recover, RewaitTimeout, CmdReturn, Touch, cmd_ent_put, Typed
<1>3. hpc'[e] = hpc[e] \/ hpc[e] = "none"
  BY <1>0 DEF CallerStep, CmdRefuse, CmdExec, ThrottleDown, SubmitFails, Submit, WaitStep, CancelWork,
         HandlingTimeout, ExecTimeout, Recover, RewaitTimeout, CmdReturn, FullInv, IndInv, EntryShape
<1>4. /\ \A f \in Ents : CompSame(f)
      /\ \A d \in Ctx : d # Wait(e) => comp'[d] = comp[d]
      /\ CompEnt'
  <2>1. CASE RewaitTimeout(e)
    <3>1. comp[Wait(e)].pc = "idle" /\ Wait(e) \in Ctx
      BY <2>1, Contexts DEF RewaitTimeout, RefInv, CompWait
    <3>2. CallComp(Wait(e), idx[e], "FORCED")
      BY <2>1 DEF RewaitTimeout
    <3>3. /\ \A f \in Ents : CompSame(f)
          /\ comp'[Wait(e)] = [pc |-> "claim", slot |-> idx[e], ent |-> NoEnt, type |-> "FORCED"]
          /\ \A d \in Ctx : d # Wait(e) => comp'[d] = comp[d]
      BY <3>1, <3>2, CallFrame
    <3> QED BY <1>0, <3>3 DEF CompEnt
  <2>2. CASE ~RewaitTimeout(e)
    <3>1. comp' = comp
      BY <2>2 DEF CallerStep, CmdRefuse, CmdExec, ThrottleDown, SubmitFails, Submit, WaitStep, CancelWork,
           HandlingTimeout, ExecTimeout, Recover, CmdReturn
    <3> QED BY <1>0, <3>1 DEF CompSame, CompEnt
  <2> QED BY <2>1, <2>2
<1>5. comp'[Irq] = comp[Irq] /\ comp'[Flush] = comp[Flush]
  BY <1>4, Contexts
<1>6. EnvInv'
  <2>1. \A f \in Ents : /\ Armed(f) => Armed(f)'
                        /\ pending[f] => pending'[f]
                        /\ hpc[f] \in {"poll", "exit"} => hpc'[f] = hpc[f]
    BY <1>1, <1>2, <1>3 DEF Armed
  <2> QED BY <1>0, <1>1, <1>4, <1>5, <2>1, EnvFrame
<1>7. Still
  BY <1>1, <1>5 DEF Still
<1>8. ASSUME NEW f \in Ents, f # e
      PROVE  Refs(f)' /\ EntInv(f)'
  <2>1. /\ comp'[Work(f)] = comp[Work(f)]  /\ comp'[Wait(f)] = comp[Wait(f)]
        /\ comp'[Tmo(f)] = comp[Tmo(f)]
    BY <1>4, <1>8, Contexts
  <2>2. Untouched(f)
    BY <1>1, <1>2, <1>4, <1>8, <2>1 DEF Untouched
  <2> QED BY <1>7, <2>2, OtherEnt
<1>9. \A s : Busy(s)' <=> Busy(s)
  BY <1>7, BusyFrame DEF Still
<1>10. ASSUME NEW f \in Ents
       PROVE  (RealRef(f)' <=> RealRef(f)) /\ (FlushRef(f)' <=> FlushRef(f))
  BY <1>1, <1>4, <1>5, RealFrame, FlushFrame
<1>11. comp'[Work(e)] = comp[Work(e)] /\ comp'[Tmo(e)] = comp[Tmo(e)]
  BY <1>4, Contexts
<1> QED BY <1>0, <1>1, <1>4, <1>6, <1>7, <1>8, <1>9, <1>10, <1>11

(* The steps that only move the caller.                                    *)
LEMMA CallerMoveRef ==
    ASSUME Sane, FullInv, RefInv, Next, NEW e \in Ents,
           \/ CmdRefuse(e)  \/ CmdExec(e)  \/ ThrottleDown(e)  \/ SubmitFails(e)  \/ WaitStep(e)
           \/ HandlingTimeout(e)  \/ ExecTimeout(e)  \/ Recover(e)
    PROVE  RefInv'
<1>0. Typed /\ Refs(e) /\ EntInv(e) /\ Owned
  BY IsTyped, RefInvParts
<1>1. /\ Still  /\ EnvInv'  /\ ~uaf'  /\ CompSame(e)
      /\ \A f \in Ents : f # e => Refs(f)' /\ EntInv(f)'
      /\ UNCHANGED <<pending, slotted, done, pollCmd, timer>>
      /\ \A s : Busy(s)' <=> Busy(s)
      /\ RealRef(e)' <=> RealRef(e)
      /\ FlushRef(e)' <=> FlushRef(e)
  <2>1. CmdRefuse(e) \/ CmdExec(e) \/ CallerStep(e)
    BY DEF CallerStep
  <2> QED BY <2>1, CallerElse
<1>2. UNCHANGED <<refcnt, bitmask, idx, entArr, hpc, wq, ret, comp, mode, allowed, devState, offline>>
  BY DEF CmdRefuse, CmdExec, ThrottleDown, SubmitFails, WaitStep, HandlingTimeout, ExecTimeout,
         Recover, Touch
<1>3. Under(e)' <=> Under(e)
  BY <1>1, <1>2 DEF Under, Queued, Finishing
<1>4. /\ cpc[e] \in Waiting <=> cpc'[e] \in Waiting
      /\ cpc[e] # "returned"
      /\ cpc'[e] \in Start => cpc[e] \in Start
      /\ cpc[e] \in Start => cpc'[e] \in Start \cup {"returned"}
      /\ cpc'[e] = "out" => done[e] \/ (cpc[e] = "forced" /\ comp[Wait(e)].pc = "idle")
      /\ cpc'[e] = "out" => cpc[e] \in {"waitDone", "waitDoneT", "rewait", "forced"}
      /\ cpc'[e] # "forced"
      /\ cpc[e] = "forced" => comp[Wait(e)].pc = "idle"
      /\ cpc'[e] \in {"waitDone", "waitDoneT", "recover", "rewait"} =>
            slotted[e] \/ cpc[e] \in {"waitDone", "waitDoneT", "recover", "rewait"}
      /\ cpc'[e] \in {"recover", "rewait"} => Timeouts \/ cpc[e] \in {"recover", "rewait"}
  BY <1>0 DEF CmdRefuse, CmdExec, ThrottleDown, SubmitFails, WaitStep, HandlingTimeout, ExecTimeout,
         Recover, Waiting, Start, CallerPcs, Typed, Timeouts
<1>5. Refs(e)'
  <2>1. BaseRef(e)' <=> BaseRef(e)
    BY <1>3, <1>4 DEF BaseRef
  <2> QED BY <1>0, <1>1, <1>2, <2>1, RefsFrame
<1>6. Waits(e)'
  <2>1. SUFFICES ASSUME ~Kind[e].callback
                 PROVE  Waits(e)'
    BY DEF Waits
  <2>2. Waits(e) /\ cpc'[e] \in CallerPcs
    BY <1>0 DEF EntInv, CmdRefuse, CmdExec, ThrottleDown, SubmitFails, WaitStep, HandlingTimeout, ExecTimeout,
         Recover, CallerPcs, Typed
  <2>3. Under(e) => ~done[e]  /\ cpc'[e] \in Waiting \ {"out"}
    BY <1>4, <2>1, <2>2 DEF Waits
  <2>4. hpc[e] = "slotErr" => cpc'[e] \in {"inline", "waitHandling", "cancel", "waitSlotted"}
    <3>1. SUFFICES ASSUME hpc[e] = "slotErr"
                   PROVE  cpc'[e] \in {"inline", "waitHandling", "cancel", "waitSlotted"}
      OBVIOUS
    <3>2. cpc[e] \in {"inline", "waitHandling", "cancel", "waitSlotted"} /\ ~slotted[e]
      BY <2>1, <2>2, <3>1 DEF Waits
    <3>3. cpc'[e] \in Waiting
      BY <1>4, <3>2 DEF Waiting, Start, CallerPcs
    <3> QED BY <1>4, <2>2, <3>2, <3>3 DEF Waiting, Start, CallerPcs
  <2>5. cpc'[e] \in {"waitDone", "waitDoneT", "recover", "rewait", "forced"} => slotted[e]
    BY <1>4, <2>1, <2>2 DEF Waits
  <2>6. cpc'[e] \in Start => ~done[e]
    BY <1>4, <2>1, <2>2 DEF Waits
  <2> QED BY <1>1, <1>2, <1>3, <1>4, <2>1, <2>2, <2>3, <2>4, <2>5, <2>6 DEF Waits
<1>7. Places(e)'
  BY <1>0, <1>1, <1>2, <1>4 DEF EntInv, Places, Armed, opcode_allowed
<1>8. CompWork(e)' /\ CompTmo(e)'
  BY <1>0, <1>1, <1>2 DEF EntInv, CompWork, CompTmo, Dropped, mlx5_cmd_is_down, opcode_allowed
<1>9. CompWait(e)'
  BY <1>0, <1>1, <1>2, <1>4 DEF EntInv, CompWait
<1>10. Owned'
  BY <1>0, <1>2, OwnedFrame
<1> QED BY <1>1, <1>5, <1>6, <1>7, <1>8, <1>9, <1>10, RefInvParts DEF EntInv

(* An entry that has no slot has only the reference of its caller.         *)
LEMMA Slotless ==
    ASSUME FullInv, RefInv, NEW e \in Ents, ~Armed(e), idx[e] = NoIdx
    PROVE  ~TimerRef(e) /\ ~RealRef(e) /\ ~FlushRef(e) /\ ~pending[e] /\ ~Finishing(e)
<1>0. Typed
  BY IsTyped
<1>1. ~TimerRef(e)
  BY DEF RefInv, Places, TimerRef
<1>2. ~pending[e]
  BY DEF FullInv, ClaimedOnce
<1>3. ~Finishing(e)
  BY PastArmed DEF Finishing
<1>4. ~Putting(e)
  BY <1>3 DEF Finishing, Putting, PastPcs
<1>5. ~Late(e)
  BY DEF RefInv, CompIrq, Late, Armed
<1>6. ~FlushRef(e) /\ ~Due(e)
  BY <1>0, <1>5 DEF FlushRef, Due, Typed
<1> QED BY <1>1, <1>2, <1>3, <1>4, <1>6 DEF RealRef

LEMMA SubmitRef ==
    ASSUME Sane, FullInv, RefInv, Next, NEW e \in Ents, Submit(e)
    PROVE  RefInv'
<1>0. Typed /\ Refs(e) /\ EntInv(e) /\ Owned
  BY IsTyped, RefInvParts
<1>1. /\ Still  /\ EnvInv'  /\ ~uaf'  /\ CompSame(e)
      /\ \A f \in Ents : f # e => Refs(f)' /\ EntInv(f)'
      /\ UNCHANGED <<pending, slotted, done, pollCmd, timer>>
      /\ \A s : Busy(s)' <=> Busy(s)
      /\ RealRef(e)' <=> RealRef(e)
      /\ FlushRef(e)' <=> FlushRef(e)
  <2>1. CallerStep(e)
    BY DEF CallerStep
  <2> QED BY <2>1, CallerElse
<1>2. /\ UNCHANGED <<bitmask, idx, entArr, ret, comp, mode, allowed, devState, offline>>
      /\ refcnt' = [refcnt EXCEPT ![e] = 1]  /\ cpc[e] = "submit"
      /\ hpc'[e] \in {hpc[e], "wantSem"}
  BY <1>0 DEF Submit, Typed
<1>3. hpc[e] = "none" /\ idx[e] = NoIdx
  BY <1>2 DEF FullInv, IndInv, EntryShape
<1>4. ~TimerRef(e) /\ ~RealRef(e) /\ ~FlushRef(e)
  BY <1>3, Slotless DEF Armed
<1>5. refcnt'[e] = 1 /\ \A f \in Ents : f # e => refcnt'[f] = refcnt[f]
  BY <1>0, <1>2 DEF Typed
<1>6. Under(e)'
  <2>1. CASE Kind[e].page
    BY <1>0, <2>1 DEF Submit, Under, Typed
  <2>2. CASE ~Kind[e].page
    <3>1. wq' = Append(wq, e)
      BY <2>2 DEF Submit
    <3>2. wq \in Seq(Ents)
      BY <1>0 DEF Typed
    <3>3. \E i \in DOMAIN Append(wq, e) : Append(wq, e)[i] = e
      BY <3>2, AppendElements
    <3> QED BY <3>1, <3>3 DEF Under, Queued
  <2> QED BY <2>1, <2>2
<1>7. ~Kind[e].callback => cpc'[e] \in {"inline", "waitHandling"}
  BY <1>0 DEF Submit, Typed
<1>8. Refs(e)'
  <2>1. BaseRef(e)'
    BY <1>6, <1>7 DEF BaseRef, Waiting, Start, CallerPcs
  <2>2. ~TimerRef(e)'
    BY <1>1, <1>4 DEF TimerRef
  <2> QED BY <1>1, <1>4, <1>5, <2>1, <2>2 DEF Refs, One
<1>9. Waits(e)'
  BY <1>0, <1>1, <1>2, <1>3, <1>7 DEF EntInv, Waits, Waiting, Start, CallerPcs
<1>10. Places(e)' /\ CompWork(e)' /\ CompWait(e)' /\ CompTmo(e)'
  <2>1. ~Armed(e)' /\ hpc'[e] \in {"none", "wantSem"}
    BY <1>2, <1>3 DEF Armed
  <2>2. comp[Work(e)].pc = "idle" /\ comp[Wait(e)].pc = "idle"
    BY <1>0, <1>2, <1>3 DEF EntInv, CompWork, CompWait
  <2>3. timer[e] = "off"
    BY <1>4 DEF TimerRef
  <2>4. CompWork(e)' /\ CompWait(e)' /\ CompTmo(e)'
    BY <1>0, <1>1, <1>2, <2>2, <2>3 DEF EntInv, CompWork, CompWait, CompTmo
  <2>5. cpc'[e] \notin {"recover", "rewait", "forced"}
    BY <1>0 DEF Submit, Typed
  <2> QED BY <1>0, <1>1, <1>2, <2>1, <2>3, <2>4, <2>5 DEF EntInv, Places
<1>11. Owned'
  BY <1>0, <1>2, <1>5, OwnedFrame
<1> QED BY <1>1, <1>8, <1>9, <1>10, <1>11, RefInvParts DEF EntInv

LEMMA CancelWorkRef ==
    ASSUME Sane, FullInv, RefInv, Next, NEW e \in Ents, CancelWork(e)
    PROVE  RefInv'
<1>0. Typed /\ Refs(e) /\ EntInv(e) /\ Owned
  BY IsTyped, RefInvParts
<1>1. /\ Still  /\ EnvInv'  /\ ~uaf'  /\ CompSame(e)
      /\ \A f \in Ents : f # e => Refs(f)' /\ EntInv(f)'
      /\ UNCHANGED <<pending, slotted, done, pollCmd, timer>>
      /\ \A s : Busy(s)' <=> Busy(s)
      /\ RealRef(e)' <=> RealRef(e)
      /\ FlushRef(e)' <=> FlushRef(e)
  <2>1. CallerStep(e)
    BY DEF CallerStep
  <2> QED BY <2>1, CallerElse
<1>2. /\ UNCHANGED <<refcnt, bitmask, idx, entArr, hpc, comp, mode, allowed, devState, offline>>
      /\ cpc[e] = "cancel"
      /\ \/ cpc'[e] = "out" /\ ret'[e] = "ECANCELED"
            /\ \E k \in DOMAIN wq : wq[k] = e /\ wq' = Without(wq, k)
         \/ cpc'[e] = "waitSlotted" /\ hpc[e] = "exit" /\ wq' = wq /\ ret' = ret
  BY <1>0 DEF CancelWork, Touch, Typed
<1>3. ~Kind[e].callback
  BY <1>2 DEF FullInv, IndInv, EntryShape
<1>4. Refs(e)'
  <2>1. BaseRef(e)' <=> BaseRef(e)
    BY <1>2, <1>3 DEF BaseRef, Waiting, Start, CallerPcs
  <2> QED BY <1>0, <1>1, <1>2, <2>1, RefsFrame
<1>5. ASSUME cpc'[e] = "waitSlotted"
      PROVE  Waits(e)'
  <2>1. Under(e)' <=> Under(e)
    BY <1>1, <1>2, <1>5 DEF Under, Queued, Finishing
  <2> QED BY <1>0, <1>1, <1>2, <1>3, <1>5, <2>1 DEF EntInv, Waits, Waiting, Start, CallerPcs
<1>6. ASSUME cpc'[e] = "out"
      PROVE  Waits(e)'
  <2>1. PICK k \in DOMAIN wq : wq[k] = e /\ wq' = Without(wq, k)
    BY <1>2, <1>6
  <2>2. /\ hpc[e] = "none"  /\ \A i \in DOMAIN wq : wq[i] = e => i = k
    BY <2>1 DEF FullInv, IndInv, QueueShape
  <2>3. ~Queued(e)'
    <3>1. wq \in Seq(Ents)
      BY <1>0 DEF Typed
    <3>2. ~\E i \in DOMAIN Without(wq, k) : Without(wq, k)[i] = e
      BY <2>2, <3>1, WithoutElements
    <3> QED BY <2>1, <3>2 DEF Queued
  <2>4. ~pending[e] /\ ~Finishing(e)
    <3>1. idx[e] = NoIdx
      BY <2>2 DEF FullInv, IndInv, EntryShape
    <3> QED BY <2>2, <3>1, Slotless DEF Armed
  <2>5. ~Under(e)'
    BY <1>1, <1>2, <2>2, <2>3, <2>4 DEF Under, Finishing
  <2> QED BY <1>0, <1>1, <1>2, <1>3, <1>6, <2>2, <2>5 DEF EntInv, Waits, Waiting, Start, CallerPcs
<1>7. Waits(e)'
  BY <1>2, <1>5, <1>6
<1>8. Places(e)'
  BY <1>0, <1>1, <1>2 DEF EntInv, Places, Armed, opcode_allowed
<1>9. CompWork(e)' /\ CompTmo(e)' /\ CompWait(e)'
  BY <1>0, <1>1, <1>2
  DEF EntInv, CompWork, CompTmo, CompWait, Dropped, mlx5_cmd_is_down, opcode_allowed
<1>10. Owned'
  BY <1>0, <1>2, OwnedFrame
<1> QED BY <1>1, <1>4, <1>7, <1>8, <1>9, <1>10, RefInvParts DEF EntInv

LEMMA RewaitTimeoutRef ==
    ASSUME Sane, FullInv, RefInv, Next, NEW e \in Ents, RewaitTimeout(e)
    PROVE  RefInv'
<1>0. Typed /\ Refs(e) /\ EntInv(e) /\ Owned
  BY IsTyped, RefInvParts
<1>1. /\ Still  /\ EnvInv'  /\ ~uaf'  /\ CompSame(e)
      /\ \A f \in Ents : f # e => Refs(f)' /\ EntInv(f)'
      /\ UNCHANGED <<pending, slotted, done, pollCmd, timer>>
      /\ \A s : Busy(s)' <=> Busy(s)
      /\ RealRef(e)' <=> RealRef(e)
      /\ FlushRef(e)' <=> FlushRef(e)
      /\ comp'[Work(e)] = comp[Work(e)]
      /\ comp'[Tmo(e)] = comp[Tmo(e)]
  <2>1. CallerStep(e)
    BY DEF CallerStep
  <2> QED BY <2>1, CallerElse
<1>2. /\ UNCHANGED <<refcnt, bitmask, idx, entArr, hpc, wq, mode, allowed, devState, offline>>
      /\ cpc[e] = "rewait"  /\ ~done[e]  /\ cpc'[e] = "forced"  /\ ret'[e] = "ETIMEDOUT"
      /\ CallComp(Wait(e), idx[e], "FORCED")
  BY <1>0 DEF RewaitTimeout, Touch, Typed
<1>3. ~Kind[e].callback /\ Timeouts /\ slotted[e]
  BY <1>0, <1>2 DEF FullInv, IndInv, EntryShape, EntInv, Places
<1>4. idx[e] # NoIdx
  BY <1>2, <1>3 DEF FullInv, IndInv, EntryShape
<1>5. comp'[Wait(e)] = [pc |-> "claim", slot |-> idx[e], ent |-> NoEnt, type |-> "FORCED"]
  <2>1. Wait(e) \in Ctx /\ comp[Wait(e)].pc = "idle"
    BY <1>0, <1>2, Contexts DEF EntInv, CompWait
  <2> QED BY <1>2, <2>1, CallFrame
<1>6. Refs(e)'
  <2>1. BaseRef(e)' <=> BaseRef(e)
    BY <1>2, <1>3 DEF BaseRef, Waiting, Start, CallerPcs
  <2> QED BY <1>0, <1>1, <1>2, <2>1, RefsFrame
<1>7. Under(e)' <=> Under(e)
  BY <1>1, <1>2, CompFrame DEF Under, Queued
<1>8. Waits(e)'
  <2>1. comp'[Wait(e)].pc # "idle"
    BY <1>5
  <2> QED BY <1>0, <1>1, <1>2, <1>3, <1>7, <2>1 DEF EntInv, Waits, Waiting, Start, CallerPcs
<1>9. Places(e)'
  BY <1>0, <1>1, <1>2, <1>3 DEF EntInv, Places, Armed, opcode_allowed
<1>10. CompWork(e)' /\ CompTmo(e)'
  BY <1>0, <1>1, <1>2 DEF EntInv, CompWork, CompTmo, Dropped, mlx5_cmd_is_down, opcode_allowed
<1>11. CompWait(e)'
  BY <1>2, <1>3, <1>4, <1>5 DEF CompWait
<1>12. Owned'
  BY <1>0, <1>2, OwnedFrame
<1> QED BY <1>1, <1>6, <1>8, <1>9, <1>10, <1>11, <1>12, RefInvParts DEF EntInv

LEMMA CmdReturnRef ==
    ASSUME Sane, FullInv, RefInv, Next, NEW e \in Ents, CmdReturn(e)
    PROVE  RefInv'
<1>0. Typed /\ Refs(e) /\ EntInv(e) /\ Owned
  BY IsTyped, RefInvParts
<1>1. /\ Still  /\ EnvInv'  /\ ~uaf'  /\ CompSame(e)
      /\ \A f \in Ents : f # e => Refs(f)' /\ EntInv(f)'
      /\ UNCHANGED <<pending, slotted, done, pollCmd, timer>>
      /\ \A s : Busy(s)' <=> Busy(s)
      /\ RealRef(e)' <=> RealRef(e)
      /\ FlushRef(e)' <=> FlushRef(e)
  <2>1. CallerStep(e)
    BY DEF CallerStep
  <2> QED BY <2>1, CallerElse
<1>2. /\ UNCHANGED <<idx, entArr, hpc, wq, ret, comp, mode, allowed, devState, offline>>
      /\ cpc[e] = "out"  /\ cpc'[e] = "returned"  /\ cmd_ent_put(e)
  BY <1>0 DEF CmdReturn, Typed
<1>3. ~Kind[e].callback /\ refcnt[e] > 0
  BY <1>2, CallerAlive DEF Waiting, Start, CallerPcs
<1>4. Owned' /\ refcnt'[e] = refcnt[e] - 1
  BY <1>0, <1>2, <1>3, OwnedPut
<1>5. Refs(e)'
  <2>1. BaseRef(e) /\ ~BaseRef(e)'
    BY <1>2, <1>3 DEF BaseRef, Waiting, Start, CallerPcs
  <2>2. TimerRef(e)' <=> TimerRef(e)
    BY <1>1 DEF TimerRef
  <2> QED BY <1>0, <1>1, <1>4, <2>1, <2>2 DEF Refs, One
<1>6. Under(e)' <=> Under(e)
  BY <1>1, <1>2 DEF Under, Queued, Finishing
<1>7. Waits(e)'
  BY <1>0, <1>1, <1>2, <1>3, <1>6 DEF EntInv, Waits, Waiting, Start, CallerPcs
<1>8. Places(e)'
  BY <1>0, <1>1, <1>2 DEF EntInv, Places, Armed, opcode_allowed
<1>9. CompWork(e)' /\ CompTmo(e)' /\ CompWait(e)'
  BY <1>0, <1>1, <1>2
  DEF EntInv, CompWork, CompTmo, CompWait, Dropped, mlx5_cmd_is_down, opcode_allowed
<1> QED BY <1>1, <1>4, <1>5, <1>7, <1>8, <1>9, RefInvParts DEF EntInv
-----------------------------------------------------------------------------
(* The handler.                                                            *)
LEMMA HandlerElse ==
    ASSUME Sane, FullInv, RefInv, Next, NEW e \in Ents,
           \/ WorkDown(e)  \/ WorkDownTimeout(e)  \/ WorkSlotErr(e)  \/ WorkArm(e)  \/ WorkExit(e)
           \/ WorkStart /\ e = Head(wq)
    PROVE  /\ EnvInv'  /\ ~uaf'
           /\ \A f \in Ents : f # e => Refs(f)' /\ EntInv(f)'
           /\ UNCHANGED <<comp, cpc, idx, entArr, fheld, bitmask, mode, allowed, devState, offline,
                          fw, eqes>>
           /\ \A s : Busy(s)' <=> Busy(s)
           /\ FlushRef(e)' <=> FlushRef(e)
           /\ pending'[e] = pending[e] => (RealRef(e)' <=> RealRef(e))
           /\ Finishing(e)' <=> Finishing(e)
<1>0. Typed /\ EnvInv /\ SlotShape /\ CompEnt /\ ~uaf'
  BY IsTyped, RefInvParts, UafStep DEF FullInv, IndInv, EnvInv
<1>1. UNCHANGED <<comp, cpc, idx, entArr, bitmask, fheld, ftodo, fpc, fw, eqes, allowed, mode,
                  offline, devState, eqUp, nbReg, phase>>
  BY DEF WorkDown, WorkDownTimeout, WorkSlotErr, WorkArm, WorkExit, WorkStart, FailEarly, Touch
<1>2. \A f \in Ents : f # e =>
          /\ hpc'[f] = hpc[f]  /\ ret'[f] = ret[f]  /\ refcnt'[f] = refcnt[f]
          /\ timer'[f] = timer[f]  /\ done'[f] = done[f]  /\ slotted'[f] = slotted[f]
          /\ pollCmd'[f] = pollCmd[f]  /\ pending'[f] = pending[f]
  BY <1>0 DEF WorkDown, WorkDownTimeout, WorkSlotErr, WorkArm, WorkExit, WorkStart, FailEarly, Touch,
              Typed
<1>3. /\ Armed(e) => Armed(e)'
      /\ pending[e] => pending'[e]
      /\ hpc[e] \notin {"poll", "exit"}
  <2>1. WorkStart /\ e = Head(wq) => hpc[e] = "none"
    BY QueuedAlive DEF WorkStart
  <2> QED BY <1>0, <2>1
          DEF WorkDown, WorkDownTimeout, WorkSlotErr, WorkArm, WorkExit, WorkStart, Armed, Typed
<1>4. CompEnt' /\ \A f : CompSame(f)
  BY <1>0, <1>1 DEF CompEnt, CompSame
<1>5. Still
  BY <1>1 DEF Still
<1>6. EnvInv'
  <2>1. \A f \in Ents : /\ Armed(f) => Armed(f)'
                        /\ pending[f] => pending'[f]
                        /\ hpc[f] \in {"poll", "exit"} => hpc'[f] = hpc[f]
    BY <1>2, <1>3 DEF Armed
  <2> QED BY <1>0, <1>1, <1>4, <2>1, EnvFrame
<1>7. ASSUME NEW f \in Ents, f # e
      PROVE  Refs(f)' /\ EntInv(f)'
  <2>1. Untouched(f)
    BY <1>1, <1>2, <1>4, <1>7 DEF Untouched
  <2> QED BY <1>5, <2>1, OtherEnt
<1>8. \A s : Busy(s)' <=> Busy(s)
  BY <1>5, BusyFrame DEF Still
<1>9. FlushRef(e)' <=> FlushRef(e)
  BY <1>1, FlushFrame
<1>10. ASSUME pending'[e] = pending[e]
       PROVE  RealRef(e)' <=> RealRef(e)
  BY <1>1, <1>4, <1>10, RealFrame
<1>11. Finishing(e)' <=> Finishing(e)
  BY <1>1 DEF Finishing
<1> QED BY <1>0, <1>1, <1>6, <1>7, <1>8, <1>9, <1>10, <1>11

LEMMA WorkMoveRef ==
    ASSUME Sane, FullInv, RefInv, Next, NEW e \in Ents,
           WorkDown(e) \/ WorkSlotErr(e) \/ WorkExit(e) \/ (WorkStart /\ e = Head(wq))
    PROVE  RefInv'
<1>0. Typed /\ Refs(e) /\ EntInv(e) /\ Owned
  BY IsTyped, RefInvParts
<1>1. /\ EnvInv'  /\ ~uaf'
      /\ \A f \in Ents : f # e => Refs(f)' /\ EntInv(f)'
      /\ UNCHANGED <<comp, cpc, idx, entArr, fheld, bitmask, mode, allowed, devState, offline>>
      /\ \A s : Busy(s)' <=> Busy(s)
      /\ FlushRef(e)' <=> FlushRef(e)
      /\ pending'[e] = pending[e] => (RealRef(e)' <=> RealRef(e))
      /\ Finishing(e)' <=> Finishing(e)
  BY HandlerElse
<1>2. UNCHANGED <<refcnt, pending, ret, pollCmd, done, timer>>
  BY DEF WorkDown, WorkSlotErr, WorkExit, WorkStart, Touch
<1>3. WorkStart /\ e = Head(wq) => hpc[e] = "none" /\ Queued(e)
  BY QueuedAlive DEF WorkStart
<1>4. \/ hpc[e] \in {"none", "wantSem"} /\ hpc'[e] \in {"wantSem", "gotSem"} /\ slotted' = slotted
         /\ (hpc[e] = "none" => Queued(e))
      \/ hpc[e] = "slotErr" /\ hpc'[e] = "exit" /\ slotted'[e] = TRUE
      \/ hpc[e] = "comp" /\ hpc'[e] = "exit" /\ slotted' = slotted /\ comp[Work(e)].pc = "idle"
  BY <1>0, <1>3 DEF WorkDown, WorkSlotErr, WorkExit, WorkStart, Typed
<1>5. hpc[e] \in {"slotErr", "comp"} => ~pending[e]
  <2>1. hpc[e] = "slotErr" => ~pending[e]
    BY DEF FullInv, ClaimedOnce, Armed
  <2> QED BY <1>0, <1>4, <2>1 DEF EntInv, Places
<1>6. Under(e)' <=> Under(e)
  <2>1. CASE hpc[e] \in {"none", "wantSem"}
    BY <1>4, <2>1 DEF Under
  <2>2. CASE hpc[e] \in {"slotErr", "comp"}
    <3>1. wq' = wq
      BY <1>3, <2>2 DEF WorkDown, WorkSlotErr, WorkExit, WorkStart
    <3> QED BY <1>1, <1>2, <1>4, <2>2, <3>1 DEF Under, Queued
  <2> QED BY <1>4, <2>1, <2>2
<1>7. Refs(e)'
  <2>1. BaseRef(e)' <=> BaseRef(e)
    BY <1>1, <1>6 DEF BaseRef
  <2> QED BY <1>0, <1>1, <1>2, <2>1, RefsFrame
<1>8. Waits(e)'
  BY <1>0, <1>1, <1>2, <1>4, <1>6 DEF EntInv, Waits
<1>9. Places(e)'
  <2>1. ~Armed(e)' => ~Armed(e)
    BY <1>4 DEF Armed
  <2>2. hpc'[e] \notin {"slotErr", "armed", "poll", "comp"}
    BY <1>4
  <2>3. hpc'[e] = "exit" => ~pending'[e]
    BY <1>2, <1>4, <1>5
  <2> QED BY <1>0, <1>1, <1>2, <2>1, <2>2, <2>3 DEF EntInv, Places
<1>10. CompWork(e)'
  BY <1>0, <1>1, <1>4 DEF EntInv, CompWork
<1>11. CompWait(e)' /\ CompTmo(e)'
  BY <1>0, <1>1, <1>2 DEF EntInv, CompWait, CompTmo
<1>12. Owned'
  BY <1>0, <1>1, <1>2, OwnedFrame
<1> QED BY <1>1, <1>7, <1>8, <1>9, <1>10, <1>11, <1>12, RefInvParts DEF EntInv

LEMMA WorkDownTimeoutRef ==
    ASSUME Sane, FullInv, RefInv, Next, NEW e \in Ents, WorkDownTimeout(e)
    PROVE  RefInv'
<1>0. Typed /\ Refs(e) /\ EntInv(e) /\ Owned
  BY IsTyped, RefInvParts
<1>1. /\ EnvInv'  /\ ~uaf'
      /\ \A f \in Ents : f # e => Refs(f)' /\ EntInv(f)'
      /\ UNCHANGED <<comp, cpc, idx, entArr, fheld, bitmask, mode, allowed, devState, offline>>
      /\ \A s : Busy(s)' <=> Busy(s)
      /\ FlushRef(e)' <=> FlushRef(e)
      /\ pending'[e] = pending[e] => (RealRef(e)' <=> RealRef(e))
      /\ Finishing(e)' <=> Finishing(e)
  BY HandlerElse
<1>2. ~Kind[e].callback
  BY DEF Sane, WorkDownTimeout
<1>3. /\ UNCHANGED <<refcnt, pending, pollCmd, slotted, timer, wq>>
      /\ hpc[e] = "wantSem"  /\ hpc'[e] = "slotErr"  /\ done'[e] = TRUE  /\ ret'[e] = "EBUSY"
  BY <1>0, <1>2 DEF WorkDownTimeout, FailEarly, Typed
<1>4. idx[e] = NoIdx /\ ~Armed(e)
  BY <1>3 DEF FullInv, IndInv, EntryShape, Armed
<1>5. ~pending[e] /\ ~Finishing(e)
  BY <1>4, Slotless
<1>6. ~Queued(e)
  BY <1>3 DEF Queued, FullInv, IndInv, QueueShape
<1>7. ~Under(e)'
  BY <1>1, <1>3, <1>5, <1>6 DEF Under, Queued
<1>8. Refs(e)'
  <2>1. BaseRef(e)' <=> BaseRef(e)
    BY <1>1, <1>2 DEF BaseRef
  <2> QED BY <1>0, <1>1, <1>3, <2>1, RefsFrame
<1>9. Waits(e)'
  <2>1. Under(e)
    BY <1>3 DEF Under
  <2>2. cpc[e] \in {"inline", "waitHandling", "cancel", "waitSlotted"} /\ ~slotted[e] /\ timer[e] = "off"
    BY <1>0, <1>2, <1>3, <2>1 DEF EntInv, Waits, Waiting, Start, CallerPcs
  <2> QED BY <1>1, <1>3, <1>7, <2>2 DEF Waits, Start
<1>10. Places(e)'
  BY <1>0, <1>1, <1>2, <1>3, <1>4 DEF EntInv, Places, Armed
<1>11. CompWork(e)' /\ CompWait(e)' /\ CompTmo(e)'
  BY <1>0, <1>1, <1>3 DEF EntInv, CompWork, CompWait, CompTmo
<1>12. Owned'
  BY <1>0, <1>1, <1>3, OwnedFrame
<1> QED BY <1>1, <1>8, <1>9, <1>10, <1>11, <1>12, RefInvParts DEF EntInv

LEMMA WorkArmRef ==
    ASSUME Sane, FullInv, RefInv, Next, NEW e \in Ents, WorkArm(e)
    PROVE  RefInv'
<1>0. Typed /\ Refs(e) /\ EntInv(e) /\ Owned
  BY IsTyped, RefInvParts
<1>1. /\ EnvInv'  /\ ~uaf'
      /\ \A f \in Ents : f # e => Refs(f)' /\ EntInv(f)'
      /\ UNCHANGED <<comp, cpc, idx, entArr, fheld, bitmask, mode, allowed, devState, offline>>
      /\ \A s : Busy(s)' <=> Busy(s)
      /\ FlushRef(e)' <=> FlushRef(e)
  BY HandlerElse
<1>2. /\ UNCHANGED <<ret, done, wq>>
      /\ hpc[e] = "slotted"  /\ hpc'[e] = "armed"  /\ pending'[e] = TRUE  /\ slotted'[e] = TRUE
      /\ refcnt' = [refcnt EXCEPT ![e] = cmd_ent_get(e, IF Kind[e].callback THEN 2 ELSE 1)]
      /\ IF Kind[e].callback THEN timer'[e] = "armed" ELSE timer'[e] = timer[e]
  BY <1>0 DEF WorkArm, Typed
<1>3. pollCmd'[e] = (mode = "POLLING")
  <2>1. pollCmd'[e] = (mode = "POLLING" \/ Kind[e].polling)
    BY <1>0, Zenon DEF WorkArm, Typed
  <2>2. ~Kind[e].polling
    BY DEF Sane
  <2> QED BY <2>1, <2>2, Zenon
<1>4. ~Armed(e) /\ refcnt[e] > 0 /\ \A s \in Slots : idx[e] = s => entArr[s] = e
  BY <1>2, HandlerAlive DEF Armed
<1>5. refcnt'[e] = refcnt[e] + (IF Kind[e].callback THEN 2 ELSE 1)
  BY <1>0, <1>2, <1>4 DEF cmd_ent_get, Typed
<1>6. timer[e] = "off" /\ ~RealRef(e)
  <2>1. timer[e] = "off" /\ ~pending[e]
    BY <1>0, <1>4 DEF EntInv, Places, FullInv, ClaimedOnce
  <2>2. ~Putting(e)
    BY <1>4, PastArmed DEF Putting, PastPcs
  <2>3. ~Late(e)
    BY <1>2 DEF Late, RefInv, CompIrq
  <2>4. ~(Timeouts /\ Due(e))
    <3>1. Timeouts => devState = "UP"
      BY Steady
    <3>2. ASSUME devState = "UP", NEW s \in Slots, entArr[s] = e, Busy(s)
          PROVE  FALSE
      BY <1>2, <3>2 DEF RefInv, Answers
    <3> QED BY <2>3, <3>1, <3>2 DEF Due
  <2> QED BY <2>1, <2>2, <2>4 DEF RealRef
<1>7. Under(e) /\ Under(e)'
  BY <1>2 DEF Under
<1>8. Refs(e)'
  <2>1. BaseRef(e)' <=> BaseRef(e)
    BY <1>1, <1>7 DEF BaseRef
  <2>2. RealRef(e)'
    BY <1>2 DEF RealRef
  <2>3. ~TimerRef(e) /\ (TimerRef(e)' <=> Kind[e].callback)
    BY <1>2, <1>6 DEF TimerRef
  <2> QED BY <1>0, <1>1, <1>5, <1>6, <2>1, <2>2, <2>3 DEF Refs, One, Typed
<1>9. Waits(e)'
  BY <1>0, <1>1, <1>2, <1>6, <1>7 DEF EntInv, Waits
<1>10. Places(e)'
  <2>1. Timeouts \/ (ret[e] # "ETIMEDOUT" /\ cpc[e] \notin {"recover", "rewait", "forced"})
    BY <1>0 DEF EntInv, Places
  <2>2. Armed(e)' /\ timer'[e] \in {"off", "armed"}
    BY <1>2, <1>6 DEF Armed
  <2> QED BY <1>1, <1>2, <1>3, <2>1, <2>2 DEF Places
<1>11. CompWork(e)' /\ CompWait(e)' /\ CompTmo(e)'
  BY <1>0, <1>1, <1>2, <1>6 DEF EntInv, CompWork, CompWait, CompTmo
<1>12. Owned'
  <2>1. \A f \in Ents : f # e => refcnt'[f] = refcnt[f]
    BY <1>0, <1>2 DEF Typed
  <2>2. refcnt'[e] > 0
    BY <1>0, <1>4, <1>5 DEF Typed
  <2> QED BY <1>0, <1>1, <2>1, <2>2, OwnedFrame
<1> QED BY <1>1, <1>8, <1>9, <1>10, <1>11, <1>12, RefInvParts DEF EntInv

(* cmd_alloc_index() finds a slot that no live entry and no answer uses.   *)
LEMMA FreshSlot ==
    ASSUME Sane, FullInv, RefInv, NEW e \in Ents, WorkAlloc(e), NEW s, s = Lowest(FreeSlots(e))
    PROVE  /\ s \in Slots  /\ s \in bitmask  /\ cmd_alloc_index(e, s)
           /\ hpc' = [hpc EXCEPT ![e] = "slotted"]  /\ UNCHANGED <<ret, done>>
           /\ s \notin fheld
           /\ devState = "UP" => ~Busy(s)
           /\ \A f \in Ents : idx[f] = s /\ entArr[s] = f =>
                 ~FlushRef(f) /\ ~RealRef(f) /\ ~TimerRef(f) /\ ~BaseRef(f)
<1>0. Typed /\ hpc[e] = "gotSem"
  BY IsTyped DEF WorkAlloc
<1>1. FreeSlots(e) # {}
  BY <1>0, BackedAvailable DEF FullInv, SlotAvailable
<1>2. s \in FreeSlots(e) /\ s \in Slots
  <2>1. FreeSlots(e) \subseteq Slots
    <3>1. bitmask \subseteq Slots
      BY <1>0 DEF Typed
    <3>2. MaxReg \in Slots
      BY MaxRegAssumption DEF Slots
    <3> QED BY <3>1, <3>2 DEF FreeSlots
  <2> QED BY <1>1, <2>1, LowestIn
<1>3. idx[e] = NoIdx
  BY <1>0 DEF FullInv, IndInv, EntryShape
<1>4. s \in bitmask
  <2>1. CASE ~Kind[e].page
    BY <1>2, <2>1 DEF FreeSlots
  <2>2. CASE Kind[e].page
    <3>1. s = MaxReg
      BY <1>2, <2>2 DEF FreeSlots
    <3>2. HoldsPages(e)
      BY <1>0, <2>2 DEF HoldsPages
    <3>3. ASSUME NEW x \in Ents, Kind[x].page, refcnt[x] > 0, idx[x] = MaxReg
          PROVE  FALSE
      <4>1. HoldsPages(x)
        BY <3>3 DEF HoldsPages
      <4>2. x = e
        BY <3>2, <4>1 DEF FullInv, IndInv, PagesExclusive
      <4> QED BY <1>3, <3>3, <4>2, MaxRegAssumption DEF NoIdx
    <3> QED BY <3>1, <3>3 DEF FullInv, PagesBacked, RefInv
  <2> QED BY <2>1, <2>2
<1>5. \A f \in Ents : idx[f] = s /\ entArr[s] = f =>
          ~FlushRef(f) /\ ~RealRef(f) /\ ~TimerRef(f) /\ ~BaseRef(f)
  BY <1>2, <1>4, Alive
<1>6. s \notin fheld
  <2>1. SUFFICES ASSUME s \in fheld
                 PROVE  FALSE
    OBVIOUS
  <2>2. entArr[s] \in Ents /\ idx[entArr[s]] = s
    BY <2>1 DEF RefInv, Held
  <2>3. FlushRef(entArr[s])
    BY <2>1, <2>2 DEF FlushRef
  <2> QED BY <1>5, <2>2, <2>3
<1>7. ASSUME devState = "UP", Busy(s)
      PROVE  FALSE
  <2>1. entArr[s] \in Ents /\ idx[entArr[s]] = s /\ (Timeouts \/ pending[entArr[s]])
    BY <1>2, <1>7 DEF RefInv, Answers
  <2>2. RealRef(entArr[s])
    BY <1>2, <1>7, <2>1 DEF RealRef, Due
  <2> QED BY <1>5, <2>1, <2>2
<1>8. cmd_alloc_index(e, s) /\ hpc' = [hpc EXCEPT ![e] = "slotted"] /\ UNCHANGED <<ret, done>>
  BY <1>1 DEF WorkAlloc
<1> QED BY <1>2, <1>4, <1>5, <1>6, <1>7, <1>8

LEMMA WorkAllocRef ==
    ASSUME Sane, FullInv, RefInv, Next, NEW e \in Ents, WorkAlloc(e)
    PROVE  RefInv'
<1>0. Typed /\ EnvInv /\ Owned /\ (\A f \in Ents : Refs(f) /\ EntInv(f)) /\ ~uaf'
  BY IsTyped, RefInvParts, UafStep
<1>1. PICK s : s = Lowest(FreeSlots(e))
  OBVIOUS
<1>2. /\ s \in Slots  /\ s \in bitmask  /\ cmd_alloc_index(e, s)
      /\ hpc' = [hpc EXCEPT ![e] = "slotted"]  /\ UNCHANGED <<ret, done>>
      /\ s \notin fheld
      /\ devState = "UP" => ~Busy(s)
      /\ \A f \in Ents : idx[f] = s /\ entArr[s] = f =>
            ~FlushRef(f) /\ ~RealRef(f) /\ ~TimerRef(f) /\ ~BaseRef(f)
  BY <1>1, FreshSlot
<1>3. hpc[e] = "gotSem" /\ idx[e] = NoIdx /\ ~Armed(e)
  BY DEF WorkAlloc, FullInv, IndInv, EntryShape, Armed
<1>4. /\ bitmask' = bitmask \ {s}
      /\ idx'[e] = s  /\ \A f \in Ents : f # e => idx'[f] = idx[f]
      /\ entArr'[s] = e  /\ \A t \in Slots : t # s => entArr'[t] = entArr[t]
      /\ refcnt' = refcnt
  BY <1>0, <1>2 DEF cmd_alloc_index, Typed
<1>5. /\ UNCHANGED <<pending, pollCmd, slotted, wq, cpc, timer, comp, fw, eqes, allowed, mode,
                     offline, devState, eqUp, nbReg, phase, fpc, fheld, ftodo>>
      /\ hpc'[e] = "slotted"
      /\ \A f \in Ents : f # e => hpc'[f] = hpc[f]
  BY <1>0, <1>2 DEF WorkAlloc, Typed
<1>6. /\ \A f \in Ents : CompSame(f)
      /\ \A t : /\ Busy(t)' <=> Busy(t)
                /\ Reported(t)' <=> Reported(t)
                /\ Asked(t)' <=> Asked(t)
      /\ \A f \in Ents : /\ Finishing(f)' <=> Finishing(f)
                         /\ Late(f)' <=> Late(f)
                         /\ Putting(f)' <=> Putting(f)
  BY <1>5 DEF Busy, Reported, Asked, Finishing, Late, Putting, Dropped, mlx5_cmd_is_down, opcode_allowed,
              CompSame
<1>7. \A f \in Ents : Under(f)' <=> Under(f)
  <2>1. Under(e) /\ Under(e)'
    BY <1>3, <1>5 DEF Under
  <2> QED BY <1>5, <1>6, <2>1 DEF Under, Queued
<1>8. \A f \in Ents : BaseRef(f)' <=> BaseRef(f)
  BY <1>5, <1>7 DEF BaseRef
<1>9. Timeouts => ~Busy(s)
  BY <1>2, Steady
<1>10. ASSUME NEW f \in Ents
       PROVE  (RealRef(f)' <=> RealRef(f)) /\ (FlushRef(f)' <=> FlushRef(f))
  <2>1. CASE f = e
    <3>1. ~RealRef(f) /\ ~FlushRef(f)
      BY <1>3, <2>1, Slotless
    <3>2. ~FlushRef(f)'
      BY <1>2, <1>4, <1>5, <2>1 DEF FlushRef
    <3>3. Timeouts => ~Due(f)'
      BY <1>4, <1>6, <1>9, <2>1, <3>1 DEF Due, RealRef
    <3> QED BY <1>5, <1>6, <3>1, <3>2, <3>3 DEF RealRef
  <2>2. CASE f # e
    <3>1. ASSUME NEW t \in Slots
          PROVE  (idx'[f] = t /\ entArr'[t] = f) <=> (idx[f] = t /\ entArr[t] = f /\ t # s)
      BY <1>4, <2>2
    <3>2. FlushRef(f)' <=> FlushRef(f)
      BY <1>0, <1>2, <1>5, <3>1 DEF FlushRef, Typed
    <3>3. CASE idx[f] = s /\ entArr[s] = f
      <4>1. ~RealRef(f)
        BY <1>2, <3>3
      <4>2. ~Due(f)' \/ ~Timeouts
        BY <1>6, <3>1, <3>3, <4>1 DEF Due, RealRef
      <4> QED BY <1>5, <1>6, <3>2, <4>1, <4>2 DEF RealRef
    <3>4. CASE ~(idx[f] = s /\ entArr[s] = f)
      <4>1. Due(f)' <=> Due(f)
        BY <1>6, <3>1, <3>4 DEF Due
      <4> QED BY <1>5, <1>6, <3>2, <4>1 DEF RealRef
    <3> QED BY <3>3, <3>4
  <2> QED BY <2>1, <2>2
<1>11. \A f \in Ents : Refs(f)'
  BY <1>0, <1>4, <1>5, <1>8, <1>10, RefsFrame
<1>12. ASSUME NEW f \in Ents, f # e
       PROVE  EntInv(f)'
  BY <1>0, <1>2, <1>4, <1>5, <1>6, <1>7, <1>12, EntFrame
<1>13. EntInv(e)'
  <2>1. comp[Work(e)].pc = "idle" /\ comp[Wait(e)].pc = "idle" /\ comp[Tmo(e)].pc = "idle"
    BY <1>0, <1>3 DEF EntInv, CompWork, CompWait, CompTmo
  <2>2. CompWork(e)' /\ CompWait(e)' /\ CompTmo(e)'
    BY <1>5, <2>1 DEF CompWork, CompWait, CompTmo
  <2>3. Waits(e)'
    BY <1>0, <1>2, <1>3, <1>5, <1>7 DEF EntInv, Waits
  <2>4. Places(e)'
    BY <1>0, <1>2, <1>3, <1>5 DEF EntInv, Places, Armed
  <2> QED BY <2>2, <2>3, <2>4 DEF EntInv
<1>14. EnvInv'
  <2>1. CompIrq'
    <3>1. comp[Irq].pc \notin {"idle", "claim"} => comp[Irq].ent \in Ents /\ comp[Irq].ent # e
      BY <1>0, <1>3, Contexts DEF FullInv, IndInv, SlotShape, EnvInv, CompIrq
    <3> QED BY <1>0, <1>4, <1>5, <1>6, <3>1 DEF EnvInv, CompIrq, opcode_allowed
  <2>2. CompFlush'
    BY <1>0, <1>2, <1>4, <1>5 DEF EnvInv, CompFlush, Typed
  <2>3. Held'
    <3>1. ASSUME NEW t \in fheld
          PROVE  entArr'[t] \in Ents /\ idx'[entArr'[t]] = t /\ Armed(entArr[t])' /\ entArr'[t] = entArr[t]
      <4>1. entArr[t] \in Ents /\ idx[entArr[t]] = t /\ Armed(entArr[t]) /\ t \in Slots
        BY <1>0 DEF EnvInv, Held, Typed
      <4>2. entArr'[t] = entArr[t] /\ entArr[t] # e
        BY <1>2, <1>3, <1>4, <4>1
      <4>3. hpc'[entArr[t]] = hpc[entArr[t]] /\ idx'[entArr[t]] = t
        BY <1>4, <1>5, <4>1, <4>2
      <4> QED BY <4>1, <4>2, <4>3 DEF Armed
    <3> QED BY <1>0, <1>5, <3>1 DEF EnvInv, Held
  <2>4. CompEnt' /\ OneAnswer' /\ Modes'
    BY <1>0, <1>5, <1>6 DEF EnvInv, CompEnt, OneAnswer, Modes, opcode_allowed
  <2>5. Answers'
    <3>1. SUFFICES ASSUME devState = "UP", NEW t \in Slots, Busy(t)
                   PROVE  /\ entArr'[t] \in Ents  /\ idx'[entArr'[t]] = t
                          /\ fw[t] \in {NoEnt, entArr'[t]}
                          /\ hpc'[entArr'[t]] = IF mode = "POLLING" THEN "poll" ELSE "exit"
                          /\ Timeouts \/ pending[entArr'[t]]
      BY <1>5, <1>6 DEF Answers
    <3>2. t # s
      BY <1>2, <3>1
    <3>3. /\ entArr[t] \in Ents  /\ idx[entArr[t]] = t
          /\ fw[t] \in {NoEnt, entArr[t]}
          /\ hpc[entArr[t]] = IF mode = "POLLING" THEN "poll" ELSE "exit"
          /\ Timeouts \/ pending[entArr[t]]
      BY <1>0, <3>1 DEF EnvInv, Answers
    <3>4. entArr[t] # e
      BY <1>3, <3>3
    <3> QED BY <1>4, <1>5, <3>2, <3>3, <3>4
  <2> QED BY <2>1, <2>2, <2>3, <2>4, <2>5 DEF EnvInv
<1>15. Owned'
  <2>1. refcnt[e] > 0
    BY <1>3, HandlerAlive
  <2>2. idx[e] \notin Slots
    BY <1>0, <1>3 DEF Typed
  <2> QED BY <1>0, <1>4, <2>1, <2>2 DEF Owned
<1> QED BY <1>0, <1>11, <1>12, <1>13, <1>14, <1>15, RefInvParts

(* The slot of a command that is not sent yet is not with the firmware.    *)
LEMMA IdleSlot ==
    ASSUME FullInv, RefInv, NEW e \in Ents, hpc[e] = "armed"
    PROVE  /\ idx[e] \in Slots  /\ entArr[idx[e]] = e  /\ pending[e]
           /\ devState = "UP" => ~Busy(idx[e])
<1>0. Typed
  BY IsTyped
<1>1. idx[e] \in Slots /\ pending[e]
  BY <1>0 DEF FullInv, IndInv, EntryShape, RefInv, Places, Typed
<1>2. entArr[idx[e]] = e
  BY <1>1, HandlerAlive
<1>3. devState = "UP" => ~Busy(idx[e])
  BY <1>1, <1>2 DEF RefInv, Answers
<1> QED BY <1>1, <1>2, <1>3

LEMMA WorkSendRef ==
    ASSUME Sane, FullInv, RefInv, Next, NEW e \in Ents, WorkSend(e)
    PROVE  RefInv'
<1>0. Typed /\ EnvInv /\ Owned /\ (\A f \in Ents : Refs(f) /\ EntInv(f)) /\ ~uaf' /\ SlotShape
  BY IsTyped, RefInvParts, UafStep DEF FullInv, IndInv
<1>1. /\ hpc[e] = "armed"
      /\ UNCHANGED <<refcnt, bitmask, idx, entArr, pending, pollCmd, slotted, done, wq, cpc, timer, eqes,
                     allowed, mode, offline, devState, eqUp, nbReg, phase, fpc, fheld, ftodo>>
      /\ \A f \in Ents : f # e => hpc'[f] = hpc[f] /\ ret'[f] = ret[f]
      /\ hpc'[e] \in {"comp", "poll", "exit"}
  BY <1>0 DEF WorkSend, Touch, Typed
<1>2. /\ idx[e] \in Slots  /\ entArr[idx[e]] = e  /\ pending[e]
      /\ devState = "UP" => ~Busy(idx[e])
  BY <1>1, IdleSlot
<1>3. comp[Work(e)].pc = "idle" /\ Work(e) \in Ctx
  BY <1>0, <1>1, Contexts DEF EntInv, CompWork
<1>4. CASE Dropped
  <2>1. /\ CallComp(Work(e), idx[e], "FORCED")
        /\ hpc'[e] = "comp"  /\ fw' = fw  /\ ret'[e] = "ENXIO"
    BY <1>0, <1>4 DEF WorkSend, Dropped, Typed
  <2>2. /\ \A f \in Ents : CompSame(f)
        /\ comp'[Work(e)] = [pc |-> "claim", slot |-> idx[e], ent |-> NoEnt, type |-> "FORCED"]
        /\ \A d \in Ctx : d # Work(e) => comp'[d] = comp[d]
    BY <1>3, <2>1, CallFrame
  <2>3. comp'[Irq] = comp[Irq] /\ comp'[Flush] = comp[Flush] /\ CompEnt'
    BY <1>0, <2>2, Contexts DEF EnvInv, CompEnt
  <2>4. EnvInv'
    <3>1. \A f \in Ents : /\ Armed(f) => Armed(f)'
                          /\ pending[f] => pending'[f]
                          /\ hpc[f] \in {"poll", "exit"} => hpc'[f] = hpc[f]
      BY <1>1, <2>1 DEF Armed
    <3> QED BY <1>0, <1>1, <2>1, <2>3, <3>1, EnvFrame
  <2>5. Still
    BY <1>1, <2>1, <2>3 DEF Still
  <2>6. ASSUME NEW f \in Ents, f # e
        PROVE  Refs(f)' /\ EntInv(f)'
    <3>1. /\ comp'[Work(f)] = comp[Work(f)]  /\ comp'[Wait(f)] = comp[Wait(f)]
          /\ comp'[Tmo(f)] = comp[Tmo(f)]
      BY <2>2, <2>6, Contexts
    <3>2. Untouched(f)
      BY <1>1, <2>2, <2>6, <3>1 DEF Untouched
    <3> QED BY <2>5, <3>2, OtherEnt
  <2>7. Under(e) /\ Under(e)'
    BY <1>1, <1>2 DEF Under
  <2>8. Refs(e)'
    <3>1. BaseRef(e)' <=> BaseRef(e)
      BY <1>1, <2>7, BaseFrame
    <3>2. RealRef(e)' /\ RealRef(e)
      BY <1>1, <1>2 DEF RealRef
    <3>3. FlushRef(e)' <=> FlushRef(e)
      BY <1>1, FlushFrame
    <3> QED BY <1>0, <1>1, <3>1, <3>2, <3>3, RefsFrame
  <2>9. Waits(e)'
    <3>1. comp'[Wait(e)] = comp[Wait(e)]
      BY <2>2, Contexts
    <3> QED BY <1>0, <1>1, <2>1, <2>7, <3>1 DEF EntInv, Waits
  <2>10. Places(e)'
    <3>1. comp'[Work(e)].pc = "claim"
      BY <2>2
    <3> QED BY <1>0, <1>1, <2>1, <3>1 DEF EntInv, Places, Armed
  <2>11. CompWork(e)'
    <3>1. Dropped'
      BY <1>1, <1>4 DEF Dropped, mlx5_cmd_is_down, opcode_allowed
    <3>2. idx[e] # NoIdx
      BY <1>0, <1>2 DEF Typed
    <3> QED BY <1>1, <1>2, <2>1, <2>2, <3>1, <3>2 DEF CompWork
  <2>12. CompWait(e)' /\ CompTmo(e)'
    <3>1. comp'[Wait(e)] = comp[Wait(e)] /\ comp'[Tmo(e)] = comp[Tmo(e)]
      BY <2>2, Contexts
    <3> QED BY <1>0, <1>1, <3>1 DEF EntInv, CompWait, CompTmo
  <2>13. Owned'
    BY <1>0, <1>1, OwnedFrame
  <2> QED BY <1>0, <2>4, <2>6, <2>8, <2>9, <2>10, <2>11, <2>12, <2>13, RefInvParts DEF EntInv
<1>5. CASE ~Dropped
  <2>1. /\ fw' = [fw EXCEPT ![idx[e]] = e]  /\ comp' = comp  /\ ret' = ret
        /\ hpc'[e] = IF pollCmd[e] THEN "poll" ELSE "exit"
    BY <1>0, <1>5 DEF WorkSend, Dropped, Typed
  <2>2. devState = "UP" /\ opcode_allowed
    <3>1. devState \in {"UP", "INTERNAL_ERROR"}
      BY DEF FullInv, IndInv, TypeOK, TypeEnv
    <3> QED BY <1>5, <3>1 DEF Dropped, mlx5_cmd_is_down
  <2>3. hpc'[e] = IF mode = "POLLING" THEN "poll" ELSE "exit"
    <3>1. pollCmd[e] = (mode = "POLLING")
      BY <1>0, <1>1 DEF EntInv, Places
    <3>2. pollCmd[e] <=> mode = "POLLING"
      BY <3>1, Zenon
    <3> QED BY <2>1, <3>2
  <2>4. /\ fw'[idx[e]] = e  /\ \A t \in Slots : t # idx[e] => fw'[t] = fw[t]
        /\ e # NoEnt
    BY <1>0, <1>2, <2>1 DEF Typed
  <2>5. \A t : (Reported(t)' <=> Reported(t)) /\ (Asked(t)' <=> Asked(t))
    BY <1>1, <2>1 DEF Reported, Asked
  <2>6. /\ Busy(idx[e])'  /\ ~Busy(idx[e])
        /\ \A t \in Slots : t # idx[e] => (Busy(t)' <=> Busy(t))
    <3>1. Busy(idx[e])'
      BY <1>1, <2>4 DEF Busy
    <3> QED BY <1>2, <2>2, <2>4, <2>5, <3>1 DEF Busy
  <2>7. \A f : CompSame(f)
    BY <2>1 DEF CompSame
  <2>8. \A f \in Ents : f # e => (Under(f)' <=> Under(f))
    BY <1>1, <2>7, UnderSame
  <2>9. Under(e) /\ Under(e)'
    BY <1>1, <1>2 DEF Under
  <2>10. ASSUME NEW f \in Ents
         PROVE  Refs(f)'
    <3>1. BaseRef(f)' <=> BaseRef(f)
      BY <1>1, <2>8, <2>9, BaseFrame
    <3>2. FlushRef(f)' <=> FlushRef(f)
      BY <1>1, FlushFrame
    <3>3. RealRef(f)' <=> RealRef(f)
      <4>1. CASE f = e
        BY <1>1, <1>2, <4>1 DEF RealRef
      <4>2. CASE f # e
        <5>1. (Putting(f)' <=> Putting(f)) /\ (Late(f)' <=> Late(f))
          BY <1>1, <2>1 DEF Putting, Late, Dropped, mlx5_cmd_is_down, opcode_allowed
        <5>2. Due(f)' <=> Due(f)
          <6>1. ASSUME NEW t \in Slots, entArr[t] = f
                PROVE  Busy(t)' <=> Busy(t)
            BY <1>2, <2>6, <4>2, <6>1
          <6> QED BY <1>1, <5>1, <6>1 DEF Due
        <5> QED BY <1>1, <5>1, <5>2 DEF RealRef
      <4> QED BY <4>1, <4>2
    <3> QED BY <1>0, <1>1, <3>1, <3>2, <3>3, RefsFrame
  <2>11. ASSUME NEW f \in Ents, f # e
         PROVE  EntInv(f)'
    BY <1>0, <1>1, <2>1, <2>6, <2>8, <2>11, EntFrame
  <2>12. EntInv(e)'
    <3>1. Waits(e)'
      BY <1>0, <1>1, <2>1, <2>3, <2>9 DEF EntInv, Waits
    <3>2. Places(e)'
      <4>1. Armed(e)' /\ hpc'[e] \in {"poll", "exit"}
        BY <2>3 DEF Armed
      <4>2. hpc'[e] = "poll" => mode = "POLLING"
        BY <2>3
      <4>3. \E t \in Slots : idx'[e] = t /\ Busy(t)'
        BY <1>1, <1>2, <2>6
      <4>4. opcode_allowed'
        BY <1>1, <2>2 DEF opcode_allowed
      <4> QED BY <1>0, <1>1, <1>2, <2>1, <4>1, <4>2, <4>3, <4>4 DEF EntInv, Places
    <3>3. CompWork(e)' /\ CompWait(e)' /\ CompTmo(e)'
      BY <1>0, <1>1, <1>3, <2>1 DEF EntInv, CompWork, CompWait, CompTmo
    <3> QED BY <3>1, <3>2, <3>3 DEF EntInv
  <2>13. CompIrq'
    <3>1. ASSUME comp[Irq].pc \notin {"idle", "claim"}
          PROVE  comp[Irq].ent \in Ents /\ comp[Irq].ent # e /\ comp[Irq].slot \in Slots
                 /\ comp[Irq].slot # idx[e]
      <4>1. comp[Irq].ent \in Ents /\ refcnt[comp[Irq].ent] > 0
        BY <3>1, CompAlive, Contexts
      <4>2. hpc[comp[Irq].ent] = "exit" /\ comp[Irq].slot = idx[comp[Irq].ent] 
        BY <1>0, <3>1 DEF EnvInv, CompIrq
      <4>3. comp[Irq].ent # e
        BY <1>1, <4>2
      <4>4. idx[comp[Irq].ent] # NoIdx
        BY <1>0, <3>1, <4>2 DEF EnvInv, CompIrq
      <4>5. entArr[idx[comp[Irq].ent]] = comp[Irq].ent
        BY <4>1, <4>4 DEF FullInv, IndInv, SlotExclusive
      <4> QED BY <1>0, <1>2, <4>1, <4>2, <4>3, <4>4, <4>5 DEF Typed
    <3> QED BY <1>0, <1>1, <2>1, <2>6, <3>1 DEF EnvInv, CompIrq, opcode_allowed
  <2>14. CompFlush' /\ CompEnt'
    BY <1>0, <1>1, <2>1 DEF EnvInv, CompFlush, CompEnt
  <2>15. Held'
    BY <2>2, <1>0, <1>1 DEF EnvInv, Held
  <2>16. OneAnswer'
    BY <1>0, <1>1, <1>2, <2>4, <2>5, <2>6 DEF EnvInv, OneAnswer, Busy
  <2>17. Answers'
    <3>1. SUFFICES ASSUME NEW t \in Slots, Busy(t)'
                   PROVE  /\ entArr[t] \in Ents  /\ idx[entArr[t]] = t
                          /\ fw'[t] \in {NoEnt, entArr[t]}
                          /\ hpc'[entArr[t]] = IF mode = "POLLING" THEN "poll" ELSE "exit"
                          /\ Timeouts \/ pending[entArr[t]]
      BY <1>1 DEF Answers
    <3>2. CASE t = idx[e]
      BY <1>2, <2>3, <2>4, <3>2
    <3>3. CASE t # idx[e]
      <4>1. /\ entArr[t] \in Ents  /\ idx[entArr[t]] = t
            /\ fw[t] \in {NoEnt, entArr[t]}
            /\ hpc[entArr[t]] = IF mode = "POLLING" THEN "poll" ELSE "exit"
            /\ Timeouts \/ pending[entArr[t]]
        BY <1>0, <2>2, <2>6, <3>1, <3>3 DEF EnvInv, Answers
      <4>2. entArr[t] # e
        BY <1>1, <4>1
      <4> QED BY <1>1, <2>4, <3>3, <4>1, <4>2
    <3> QED BY <3>2, <3>3
  <2>18. Modes'
    BY <1>0, <1>1, <2>2 DEF EnvInv, Modes, opcode_allowed
  <2>19. Owned'
    BY <1>0, <1>1, OwnedFrame
  <2>20. EnvInv'
    BY <2>13, <2>14, <2>15, <2>16, <2>17, <2>18 DEF EnvInv
  <2> QED BY <1>0, <2>10, <2>11, <2>12, <2>19, <2>20, RefInvParts
<1> QED BY <1>4, <1>5

LEMMA WorkPollRef ==
    ASSUME Sane, FullInv, RefInv, Next, NEW e \in Ents, WorkPoll(e)
    PROVE  RefInv'
<1>0. Typed /\ EnvInv /\ Owned /\ (\A f \in Ents : Refs(f) /\ EntInv(f)) /\ ~uaf'
  BY IsTyped, RefInvParts, UafStep
<1>1. /\ hpc[e] = "poll"
      /\ UNCHANGED <<refcnt, bitmask, idx, entArr, pending, pollCmd, slotted, done, wq, cpc, timer, eqes, fw,
                     allowed, mode, offline, devState, eqUp, nbReg, phase, fpc, fheld, ftodo>>
      /\ \A f \in Ents : f # e => hpc'[f] = hpc[f] /\ ret'[f] = ret[f]
      /\ hpc'[e] = "comp"
  BY <1>0 DEF WorkPoll, Touch, Typed
<1>2. mode = "POLLING" /\ opcode_allowed /\ pending[e]
  BY <1>0, <1>1 DEF EntInv, Places
<1>3. ~Timeouts
  BY <1>2, Steady
<1>4. /\ fw[idx[e]] # e  /\ ret'[e] = "OK"  /\ CallComp(Work(e), idx[e], "POLLING")
  BY <1>0, <1>3 DEF WorkPoll, Timeouts, Typed
<1>5. idx[e] \in Slots /\ entArr[idx[e]] = e /\ idx[e] # NoIdx
  <2>1. idx[e] \in Slots /\ idx[e] # NoIdx
    BY <1>0, <1>1 DEF FullInv, IndInv, EntryShape, Typed
  <2> QED BY <1>1, <2>1, HandlerAlive
<1>6. comp[Irq].pc = "idle" /\ eqes = << >>
  BY <1>0, <1>2 DEF EnvInv, CompIrq, Modes
<1>7. devState = "UP" => ~Busy(idx[e])
  <2>1. ~Reported(idx[e]) /\ ~Asked(idx[e])
    BY <1>6 DEF Reported, Asked
  <2> QED BY <1>0, <1>4, <1>5, <2>1 DEF EnvInv, Answers, Busy
<1>8. comp[Work(e)].pc = "idle" /\ Work(e) \in Ctx
  BY <1>0, <1>1, Contexts DEF EntInv, CompWork
<1>9. /\ \A f \in Ents : CompSame(f)
      /\ comp'[Work(e)] = [pc |-> "claim", slot |-> idx[e], ent |-> NoEnt, type |-> "POLLING"]
      /\ \A d \in Ctx : d # Work(e) => comp'[d] = comp[d]
  BY <1>4, <1>8, CallFrame
<1>10. comp'[Irq] = comp[Irq] /\ comp'[Flush] = comp[Flush] /\ CompEnt'
  BY <1>0, <1>9, Contexts DEF EnvInv, CompEnt
<1>11. Still
  BY <1>1, <1>10 DEF Still
<1>12. \A s : /\ Reported(s)' <=> Reported(s)
              /\ Asked(s)' <=> Asked(s)
              /\ Busy(s)' <=> Busy(s)
  BY <1>1, <1>10, BusyFrame
<1>13. EnvInv'
  <2>1. CompIrq'
    BY <1>6, <1>10 DEF CompIrq
  <2>2. CompFlush' /\ OneAnswer' /\ Modes'
    BY <1>0, <1>1, <1>10, <1>12 DEF EnvInv, CompFlush, OneAnswer, Modes, opcode_allowed
  <2>3. Held'
    <3>1. \A f \in Ents : Armed(f) => Armed(f)'
      BY <1>1 DEF Armed
    <3> QED BY <1>0, <1>1, <3>1 DEF EnvInv, Held
  <2>4. Answers'
    <3>1. SUFFICES ASSUME devState = "UP", NEW t \in Slots, Busy(t)
                   PROVE  /\ entArr[t] \in Ents  /\ idx[entArr[t]] = t
                          /\ fw[t] \in {NoEnt, entArr[t]}
                          /\ hpc'[entArr[t]] = IF mode = "POLLING" THEN "poll" ELSE "exit"
                          /\ Timeouts \/ pending[entArr[t]]
      BY <1>1, <1>12 DEF Answers
    <3>2. /\ entArr[t] \in Ents  /\ idx[entArr[t]] = t
          /\ fw[t] \in {NoEnt, entArr[t]}
          /\ hpc[entArr[t]] = IF mode = "POLLING" THEN "poll" ELSE "exit"
          /\ Timeouts \/ pending[entArr[t]]
      BY <1>0, <3>1 DEF EnvInv, Answers
    <3>3. entArr[t] # e
      BY <1>7, <3>1, <3>2
    <3> QED BY <1>1, <3>2, <3>3
  <2> QED BY <1>10, <2>1, <2>2, <2>3, <2>4 DEF EnvInv
<1>14. ASSUME NEW f \in Ents, f # e
       PROVE  Refs(f)' /\ EntInv(f)'
  <2>1. /\ comp'[Work(f)] = comp[Work(f)]  /\ comp'[Wait(f)] = comp[Wait(f)]
        /\ comp'[Tmo(f)] = comp[Tmo(f)]
    BY <1>9, <1>14, Contexts
  <2>2. Untouched(f)
    BY <1>1, <1>9, <1>14, <2>1 DEF Untouched
  <2> QED BY <1>11, <2>2, OtherEnt
<1>15. Under(e) /\ Under(e)'
  BY <1>1, <1>2 DEF Under
<1>16. Refs(e)'
  <2>1. BaseRef(e)' <=> BaseRef(e)
    BY <1>1, <1>15, BaseFrame
  <2>2. RealRef(e)' /\ RealRef(e)
    BY <1>1, <1>2 DEF RealRef
  <2>3. FlushRef(e)' <=> FlushRef(e)
    BY <1>1, FlushFrame
  <2> QED BY <1>0, <1>1, <2>1, <2>2, <2>3, RefsFrame
<1>17. comp'[Wait(e)] = comp[Wait(e)] /\ comp'[Tmo(e)] = comp[Tmo(e)] /\ comp'[Work(e)].pc = "claim"
  BY <1>9, Contexts
<1>18. Waits(e)' /\ CompWait(e)' /\ CompTmo(e)'
  BY <1>0, <1>1, <1>15, <1>17 DEF EntInv, Waits, CompWait, CompTmo
<1>19. Places(e)'
  BY <1>0, <1>1, <1>4, <1>17 DEF EntInv, Places, Armed
<1>20. CompWork(e)'
  BY <1>1, <1>2, <1>5, <1>9 DEF CompWork
<1>21. Owned'
  BY <1>0, <1>1, OwnedFrame
<1> QED BY <1>0, <1>13, <1>14, <1>16, <1>18, <1>19, <1>20, <1>21, RefInvParts DEF EntInv
-----------------------------------------------------------------------------
(* The timeout of an asynchronous command.                                 *)
LEMMA TimerRefs ==
    ASSUME Sane, FullInv, RefInv, Next, NEW e \in Ents, TimerStep(e)
    PROVE  RefInv'
<1>0. Typed /\ EnvInv /\ Owned /\ Refs(e) /\ EntInv(e) /\ ~uaf' /\ SlotShape
  BY IsTyped, RefInvParts, UafStep DEF FullInv, IndInv
<1>1. /\ UNCHANGED <<idx, entArr, pending, pollCmd, slotted, done, wq, hpc, cpc, eqes, fw,
                     allowed, mode, offline, devState, eqUp, nbReg, phase, fpc, fheld, ftodo>>
      /\ \A f \in Ents : f # e => timer'[f] = timer[f] /\ ret'[f] = ret[f] /\ refcnt'[f] = refcnt[f]
      /\ timer[e] # "off"
  BY <1>0 DEF TimerStep, TimerFire, TimerRecover, TimerPut, Touch, cmd_ent_put, Typed
<1>2. Timeouts /\ Kind[e].callback /\ Armed(e) /\ idx[e] # NoIdx /\ refcnt[e] > 0
  <2>1. TimerRef(e)
    BY <1>1 DEF TimerRef
  <2>2. Timeouts
    BY <1>0 DEF TimerStep, TimerFire, TimerRecover, TimerPut, EntInv, Places, Timeouts
  <2>3. Kind[e].callback /\ Armed(e)
    BY <1>0, <1>1 DEF EntInv, Waits, Places
  <2>4. idx[e] # NoIdx
    BY <1>1 DEF FullInv, IndInv, EntryShape
  <2> QED BY <2>1, <2>2, <2>3, <2>4, Alive
<1>3. /\ \A f \in Ents : CompSame(f)
      /\ \A d \in Ctx : d # Tmo(e) => comp'[d] = comp[d]
      /\ CompEnt'  /\ CompTmo(e)'
  <2>1. CASE TimerRecover(e) /\ pending[e]
    <3>1. comp[Tmo(e)].pc = "idle" /\ Tmo(e) \in Ctx
      BY <1>0, <2>1, Contexts DEF TimerRecover, EntInv, CompTmo
    <3>2. CallComp(Tmo(e), idx[e], "FORCED") /\ timer'[e] = "forced"
      BY <1>0, <2>1 DEF TimerRecover, Typed
    <3>3. /\ \A f \in Ents : CompSame(f)
          /\ comp'[Tmo(e)] = [pc |-> "claim", slot |-> idx[e], ent |-> NoEnt, type |-> "FORCED"]
          /\ \A d \in Ctx : d # Tmo(e) => comp'[d] = comp[d]
      BY <3>1, <3>2, CallFrame
    <3>4. CompEnt'
      BY <1>0, <3>3 DEF EnvInv, CompEnt
    <3>5. CompTmo(e)'
      BY <1>1, <1>2, <3>2, <3>3 DEF CompTmo
    <3> QED BY <3>3, <3>4, <3>5
  <2>2. CASE ~(TimerRecover(e) /\ pending[e])
    <3>1. comp' = comp
      BY <2>2 DEF TimerStep, TimerFire, TimerRecover, TimerPut
    <3>2. comp[Tmo(e)].pc = "idle"
      BY <1>0, <2>2 DEF TimerStep, TimerFire, TimerRecover, TimerPut, EntInv, CompTmo
    <3> QED BY <1>0, <3>1, <3>2 DEF CompSame, CompEnt, EnvInv, CompTmo
  <2> QED BY <2>1, <2>2
<1>4. comp'[Irq] = comp[Irq] /\ comp'[Flush] = comp[Flush] /\ comp'[Work(e)] = comp[Work(e)]
      /\ comp'[Wait(e)] = comp[Wait(e)]
  BY <1>3, Contexts
<1>5. EnvInv'
  <2>1. \A f \in Ents : /\ Armed(f) => Armed(f)'
                        /\ pending[f] => pending'[f]
                        /\ hpc[f] \in {"poll", "exit"} => hpc'[f] = hpc[f]
    BY <1>1 DEF Armed
  <2> QED BY <1>0, <1>1, <1>3, <1>4, <2>1, EnvFrame
<1>6. Still
  BY <1>1, <1>4 DEF Still
<1>7. ASSUME NEW f \in Ents, f # e
      PROVE  Refs(f)' /\ EntInv(f)'
  <2>1. /\ comp'[Work(f)] = comp[Work(f)]  /\ comp'[Wait(f)] = comp[Wait(f)]
        /\ comp'[Tmo(f)] = comp[Tmo(f)]
    BY <1>3, <1>7, Contexts
  <2>2. Untouched(f)
    BY <1>1, <1>3, <1>7, <2>1 DEF Untouched
  <2> QED BY <1>6, <2>2, OtherEnt
<1>8. Under(e)' <=> Under(e)
  BY <1>1, <1>3, UnderSame
<1>9. (BaseRef(e)' <=> BaseRef(e)) /\ (RealRef(e)' <=> RealRef(e)) /\ (FlushRef(e)' <=> FlushRef(e))
  BY <1>1, <1>3, <1>4, <1>8, BaseFrame, RealFrame, FlushFrame
<1>10. Refs(e)' /\ Owned'
  <2>1. CASE TimerPut(e)
    <3>1. cmd_ent_put(e) /\ timer'[e] = "off"
      BY <1>0, <2>1 DEF TimerPut, Typed
    <3>2. Owned' /\ refcnt'[e] = refcnt[e] - 1
      BY <1>0, <1>1, <1>2, <3>1, OwnedPut
    <3>3. TimerRef(e) /\ ~TimerRef(e)'
      BY <1>1, <3>1 DEF TimerRef
    <3> QED BY <1>0, <1>9, <3>2, <3>3 DEF Refs, One
  <2>2. CASE ~TimerPut(e)
    <3>1. refcnt' = refcnt /\ bitmask' = bitmask /\ timer'[e] # "off"
      BY <1>0, <2>2 DEF TimerStep, TimerFire, TimerRecover, Touch, Typed
    <3>2. TimerRef(e) /\ TimerRef(e)'
      BY <1>1, <3>1 DEF TimerRef
    <3>3. Refs(e)'
      BY <1>0, <1>9, <3>1, <3>2 DEF Refs, One
    <3> QED BY <1>0, <1>1, <3>1, <3>3, OwnedFrame
  <2> QED BY <2>1, <2>2
<1>11. Waits(e)'
  BY <1>2 DEF Waits
<1>12. Places(e)'
  <2>1. \A s : Busy(s)' <=> Busy(s)
    BY <1>6, BusyFrame DEF Still
  <2> QED BY <1>0, <1>1, <1>2, <1>4, <2>1 DEF EntInv, Places, Armed, opcode_allowed
<1>13. CompWork(e)' /\ CompWait(e)'
  BY <1>0, <1>1, <1>4 DEF EntInv, CompWork, CompWait, Dropped, mlx5_cmd_is_down, opcode_allowed
<1> QED BY <1>0, <1>3, <1>5, <1>7, <1>10, <1>11, <1>12, <1>13, RefInvParts DEF EntInv

-----------------------------------------------------------------------------
(* The completion of a command concerns no other command.                  *)
LEMMA CompElse ==
    ASSUME Sane, FullInv, RefInv, Next, NEW c \in Ctx, CompStep(c), NEW e, e = Handled(c)
    PROVE  /\ e \in Ents  /\ Armed(e)
           /\ \A f \in Ents : f # e => Refs(f)' /\ EntInv(f)'
           /\ \A x \in Ents : c \in {Work(x), Wait(x), Tmo(x)} => x = e
           /\ \A t \in Slots : entArr[t] # e \/ c # Irq \/ comp[c].pc # "claim" =>
                 (Busy(t)' <=> Busy(t)) /\ (Asked(t)' <=> Asked(t))
           /\ \A t \in Slots : (Busy(t)' => Busy(t)) /\ ~(c = Irq /\ Asked(t)')
           /\ comp'[c].pc # "claim"
<1>0. Typed /\ \A f \in Ents : Refs(f) /\ EntInv(f)
  BY IsTyped, RefInvParts
<1>1. /\ e \in Ents  /\ Armed(e)
      /\ \A d \in Ctx : d # c => comp'[d] = comp[d]
      /\ \A f \in Ents : f # e => CompSame(f)
      /\ UNCHANGED <<idx, entArr, hpc, cpc, mode, allowed, devState, offline, fw, eqes, fheld,
                     pollCmd, slotted>>
  BY CompStepFrame
<1>2. \A x \in Ents : c \in {Work(x), Wait(x), Tmo(x)} => x = e
  <2>1. CASE comp[c].pc = "claim"
    BY <2>1, ClaimAlive DEF Handled
  <2>2. CASE comp[c].pc # "claim"
    <3>1. comp[c].pc # "idle"
      BY DEF CompStep, CompClaim, CompLatePut, CompCancel, CompRealPut, CompFinish
    <3> QED BY <2>2, <3>1, Belongs DEF Handled
  <2> QED BY <2>1, <2>2
<1>3. comp'[c].pc # "claim"
  <2>1. CASE CompClaim(c)
    BY <1>1, <2>1, ClaimEffect DEF CompIdle
  <2>2. CASE ~CompClaim(c)
    BY <1>0, <2>2 DEF CompStep, CompLatePut, CompCancel, CompRealPut, CompFinish, CompReturn, CompAt,
                      CompIdle, Typed
  <2> QED BY <2>1, <2>2
<1>4. \A t : Reported(t)' <=> Reported(t)
  BY <1>1 DEF Reported
<1>5. ASSUME NEW t \in Slots, entArr[t] # e \/ c # Irq \/ comp[c].pc # "claim"
      PROVE  (Busy(t)' <=> Busy(t)) /\ (Asked(t)' <=> Asked(t))
  <2>1. Asked(t)' <=> Asked(t)
    <3>1. CASE c # Irq
      BY <1>1, <3>1, Contexts DEF Asked
    <3>2. CASE c = Irq
      <4>1. ~Asked(t)
        BY <1>5, <3>2 DEF Asked, Handled
      <4> QED BY <1>3, <3>2, <4>1 DEF Asked
    <3> QED BY <3>1, <3>2
  <2> QED BY <1>1, <1>4, <2>1 DEF Busy
<1>6. \A t \in Slots : (Busy(t)' => Busy(t)) /\ ~(c = Irq /\ Asked(t)')
  <2>1. c = Irq => \A t \in Slots : ~Asked(t)'
    BY <1>3 DEF Asked
  <2> QED BY <1>1, <1>4, <1>5, <2>1 DEF Busy
<1>7. ASSUME NEW f \in Ents, f # e
      PROVE  Refs(f)' /\ EntInv(f)'
  <2>1. /\ comp'[Work(f)] = comp[Work(f)]  /\ comp'[Wait(f)] = comp[Wait(f)]
        /\ comp'[Tmo(f)] = comp[Tmo(f)]
    BY <1>1, <1>2, <1>7, Contexts
  <2>2. /\ timer'[f] = timer[f]  /\ ret'[f] = ret[f]  /\ done'[f] = done[f]
        /\ refcnt'[f] = refcnt[f]  /\ pending'[f] = pending[f]
    <3>1. CASE CompClaim(c)
      BY <1>0, <1>1, <1>7, <3>1, ClaimEffect DEF Typed
    <3>2. CASE ~CompClaim(c)
      <4>1. e = comp[c].ent
        BY <3>2 DEF CompStep, CompLatePut, CompCancel, CompRealPut, CompFinish, Handled
      <4> QED BY <1>0, <1>1, <1>7, <3>2, <4>1
              DEF CompStep, CompLatePut, CompCancel, CompRealPut, CompFinish, Touch, cmd_ent_put, Typed
    <3> QED BY <3>1, <3>2
  <2>3. Under(f)' <=> Under(f)
    BY <1>1, <1>7, UnderSame
  <2>4. EntInv(f)'
    <3>1. ASSUME pending[f], NEW s \in Slots, idx[f] = s, Busy(s)
          PROVE  Busy(s)'
      <4>1. entArr[s] = f
        BY <3>1, Alive DEF RealRef
      <4> QED BY <1>5, <1>7, <3>1, <4>1
    <3> QED BY <1>0, <1>1, <2>1, <2>2, <2>3, <3>1, EntFrame
  <2>5. BaseRef(f)' <=> BaseRef(f)
    BY <1>1, <2>3, BaseFrame
  <2>6. FlushRef(f)' <=> FlushRef(f)
    BY <1>1, FlushFrame
  <2>7. RealRef(f)' <=> RealRef(f)
    <3>1. Dropped' <=> Dropped
      BY <1>1 DEF Dropped, mlx5_cmd_is_down, opcode_allowed
    <3>2. (Putting(f)' <=> Putting(f)) /\ (Late(f)' <=> Late(f))
      BY <1>1, <1>7, <3>1, CompFrame
    <3>3. Due(f)' <=> Due(f)
      BY <1>1, <1>5, <1>7, <3>2 DEF Due
    <3> QED BY <2>2, <3>2, <3>3 DEF RealRef
  <2>8. Refs(f)'
    BY <1>0, <2>2, <2>5, <2>6, <2>7, RefsFrame
  <2> QED BY <2>4, <2>8
<1> QED BY <1>1, <1>2, <1>3, <1>5, <1>6, <1>7

(* What the kinds of completion are.                                       *)
LEMMA CompKinds ==
    ASSUME Sane, FullInv, RefInv, NEW c \in Ctx, comp[c].pc # "idle"
    PROVE  /\ comp[c].type = "EVENT" <=> c = Irq
           /\ \A x \in Ents : c \in {Wait(x), Tmo(x)} => Timeouts /\ comp[c].type = "FORCED"
           /\ \A x \in Ents : c = Work(x) => hpc[x] = "comp" /\ ~Timeouts
           /\ c = Flush => devState # "UP" /\ Dropped /\ ~Smp /\ ~Timeouts /\ comp[c].type = "FORCED"
           /\ Timeouts => ~Dropped
           /\ comp[c].type = "FORCED" /\ ~Dropped => Timeouts
<1>1. ASSUME NEW x \in Ents, c = Work(x)
      PROVE  /\ hpc[x] = "comp"  /\ ~Timeouts  /\ comp[c].type # "EVENT"
             /\ comp[c].type = "FORCED" => Dropped
  BY <1>1, Steady DEF RefInv, CompWork
<1>2. ASSUME NEW x \in Ents, c \in {Wait(x), Tmo(x)}
      PROVE  Timeouts /\ comp[c].type = "FORCED"
  BY <1>2 DEF RefInv, CompWait, CompTmo
<1>3. c = Irq => comp[c].type = "EVENT"
  BY DEF RefInv, CompIrq
<1>4. c = Flush => devState # "UP" /\ Dropped /\ ~Smp /\ ~Timeouts /\ comp[c].type = "FORCED"
  <2>1. SUFFICES ASSUME c = Flush
                 PROVE  devState # "UP" /\ Dropped /\ ~Smp /\ ~Timeouts /\ comp[c].type = "FORCED"
    OBVIOUS
  <2>2. devState # "UP" /\ comp[c].type = "FORCED"
    BY <2>1 DEF RefInv, CompFlush
  <2>3. Errors /\ devState = "INTERNAL_ERROR"
    BY <2>2 DEF RefInv, Modes, FullInv, IndInv, TypeOK, TypeEnv
  <2> QED BY <2>2, <2>3, Steady DEF Dropped, mlx5_cmd_is_down
<1>5. Timeouts => ~Dropped
  BY Steady
<1> QED BY <1>1, <1>2, <1>3, <1>4, <1>5, Contexts

(* Where the handler of a command is when its pending bit is tested.       *)
LEMMA ClaimPlace ==
    ASSUME Sane, FullInv, RefInv, NEW c \in Ctx, CompClaim(c), NEW e, e = Handled(c)
    PROVE  /\ c # Work(e) => hpc[e] \in {"comp", "exit"} /\ comp[Work(e)].pc # "claim"
           /\ c = Work(e) => hpc[e] = "comp" /\ pending[e]
           /\ c = Irq => /\ hpc[e] = "exit"  /\ devState = "UP"  /\ Busy(idx[e])
                         /\ Timeouts \/ pending[e]
           /\ \A x \in Ents : c \in {Wait(x), Tmo(x)} /\ pending[e] => hpc[e] = "exit"
           /\ c # Irq /\ c # Work(e) => \A d \in Ctx : d # c => comp[d].pc = "idle"
<1>0. Typed
  BY IsTyped
<1>1. /\ e \in Ents  /\ e = entArr[comp[c].slot]  /\ comp[c].pc = "claim"  /\ Cpu(c)
      /\ comp[c].slot \in Slots  /\ idx[e] = comp[c].slot  /\ Armed(e)
      /\ \A x \in Ents : c \in {Work(x), Wait(x), Tmo(x)} => x = e
  <2>1. comp[c].pc = "claim" /\ Cpu(c) /\ e = entArr[comp[c].slot]
    BY DEF Handled, CompClaim
  <2>2. /\ entArr[comp[c].slot] \in Ents  /\ comp[c].slot \in Slots
        /\ idx[entArr[comp[c].slot]] = comp[c].slot  /\ Armed(entArr[comp[c].slot])
        /\ \A x \in Ents : c \in {Work(x), Wait(x), Tmo(x)} => x = entArr[comp[c].slot]
    BY <2>1, ClaimAlive
  <2> QED BY <2>1, <2>2
<1>2. c = Work(e) => hpc[e] = "comp" /\ pending[e]
  <2>1. CompWork(e)
    BY <1>1 DEF RefInv
  <2> QED BY <1>1, <2>1, Zenon DEF CompWork
<1>3. ASSUME c = Irq
      PROVE  /\ hpc[e] = "exit"  /\ devState = "UP"  /\ Busy(idx[e])
             /\ Timeouts \/ pending[e]
             /\ comp[Work(e)].pc # "claim"
  <2>1. devState = "UP" /\ mode = "EVENTS" /\ Busy(idx[e])
    BY <1>1, <1>3 DEF RefInv, CompIrq, Busy, Asked
  <2>2. hpc[e] = "exit" /\ (Timeouts \/ pending[e])
    BY <1>1, <2>1 DEF RefInv, Answers
  <2>3. comp[Work(e)].pc # "claim"
    BY <1>1, <2>2 DEF RefInv, CompWork
  <2> QED BY <2>1, <2>2, <2>3
<1>4. ASSUME c # Irq, c # Work(e)
      PROVE  /\ hpc[e] \in {"comp", "exit"}  /\ comp[Work(e)].pc = "idle"
             /\ pending[e] => hpc[e] = "exit"
             /\ \A d \in Ctx : d # c => comp[d].pc = "idle"
  <2>1. Timeouts \/ Errors
    <3>1. c = Flush \/ \E x \in Ents : c \in {Wait(x), Tmo(x)}
      BY <1>1, <1>4, Contexts
    <3>2. c = Flush => Errors
      BY <1>1 DEF RefInv, CompFlush, Modes
    <3> QED BY <1>1, <3>1, <3>2, CompKinds
  <2>2. ~Smp /\ mode = "EVENTS"
    BY <2>1, Steady
  <2>3. \A d \in Ctx : d # c => comp[d].pc = "idle"
    BY <1>1, <1>4, <2>2, CpuAlone
  <2>4. hpc[e] # "armed"
    BY <1>1, <1>4, <2>2, CpuAlone
  <2>5. hpc[e] # "poll"
    BY <1>1, <2>2 DEF RefInv, Places
  <2>6. comp[Work(e)].pc = "idle"
    BY <1>1, <1>4, <2>3, Contexts
  <2>7. hpc[e] = "comp" => ~pending[e]
    BY <1>1, <2>6 DEF RefInv, Places
  <2> QED BY <1>1, <2>3, <2>4, <2>5, <2>6, <2>7 DEF Armed
<1> QED BY <1>1, <1>2, <1>3, <1>4, Contexts

LEMMA CompClaimRef ==
    ASSUME Sane, FullInv, RefInv, Next, NEW c \in Ctx, CompClaim(c)
    PROVE  RefInv'
<1>a. PICK e : e = Handled(c)
  OBVIOUS
<1>0. Typed /\ EnvInv /\ Owned /\ (\A f \in Ents : Refs(f) /\ EntInv(f)) /\ ~uaf' /\ CompStep(c)
  BY IsTyped, RefInvParts, UafStep DEF CompStep
<1>1. /\ e \in Ents  /\ Armed(e)
      /\ \A f \in Ents : f # e => Refs(f)' /\ EntInv(f)'
      /\ \A t \in Slots : entArr[t] # e \/ c # Irq \/ comp[c].pc # "claim" =>
            (Busy(t)' <=> Busy(t)) /\ (Asked(t)' <=> Asked(t))
      /\ \A t \in Slots : (Busy(t)' => Busy(t)) /\ ~(c = Irq /\ Asked(t)')
      /\ comp'[c].pc # "claim"
      /\ \A x \in Ents : c \in {Work(x), Wait(x), Tmo(x)} => x = e
  BY <1>0, <1>a, CompElse
<1>2. /\ \A d \in Ctx : d # c => comp'[d] = comp[d]
      /\ UNCHANGED <<idx, entArr, hpc, cpc, wq, mode, allowed, devState, offline,
                     fw, eqes, fheld, ftodo, fpc, pollCmd, slotted, phase, eqUp, nbReg>>
  BY <1>0, CompStepFrame
<1>3. /\ pending' = [pending EXCEPT ![e] = FALSE]
      /\ comp[c].pc = "claim"
      /\ idx[e] = comp[c].slot  /\ idx[e] \in Slots  /\ entArr[idx[e]] = e
      /\ pending[e] => comp'[c].pc = "cancel" /\ comp'[c].ent = e
      /\ ~pending[e] /\ comp[c].type = "EVENT" =>
            comp'[c].pc = "lateput" /\ comp'[c].ent = e
      /\ ~pending[e] /\ comp[c].type # "EVENT" => comp'[c] = CompIdle
      /\ comp'[c].pc # "idle" => comp'[c].slot = comp[c].slot /\ comp'[c].type = comp[c].type
      /\ UNCHANGED <<refcnt, bitmask, timer, ret, done, rref>>
  BY <1>a, ClaimEffect
<1>4. /\ c # Work(e) => hpc[e] \in {"comp", "exit"} /\ comp[Work(e)].pc # "claim"
      /\ c = Work(e) => hpc[e] = "comp" /\ pending[e]
      /\ c = Irq => /\ hpc[e] = "exit"  /\ devState = "UP"  /\ Busy(idx[e])
                    /\ Timeouts \/ pending[e]
      /\ \A x \in Ents : c \in {Wait(x), Tmo(x)} /\ pending[e] => hpc[e] = "exit"
      /\ c # Irq /\ c # Work(e) => \A d \in Ctx : d # c => comp[d].pc = "idle"
  BY <1>a, ClaimPlace
<1>5. /\ comp[c].type = "EVENT" <=> c = Irq
      /\ \A x \in Ents : c \in {Wait(x), Tmo(x)} => Timeouts /\ comp[c].type = "FORCED"
      /\ \A x \in Ents : c = Work(x) => hpc[x] = "comp" /\ ~Timeouts
      /\ c = Flush => devState # "UP" /\ ~Timeouts
      /\ Timeouts => ~Dropped
      /\ comp[c].type = "FORCED" /\ ~Dropped => Timeouts
  BY <1>3, CompKinds
<1>6. pending'[e] = FALSE /\ \A f \in Ents : f # e => pending'[f] = pending[f]
  BY <1>0, <1>1, <1>3 DEF Typed
<1>7. Dropped' <=> Dropped
  BY <1>2 DEF Dropped, mlx5_cmd_is_down, opcode_allowed
<1>8. comp[c].ent = NoEnt /\ NoEnt # e /\ (~pending[e] => comp'[c].pc \in {"lateput", "idle"})
  BY <1>0, <1>1, <1>3 DEF EnvInv, CompEnt, Typed, CompIdle
<1>9. Under(e)' <=> Under(e)
  <2>1. ~Submit(e) /\ ~CancelWork(e) /\ ~WorkDownTimeout(e)
    BY <1>0, <1>1, <1>2 DEF Submit, CancelWork, WorkDownTimeout, Typed
  <2>2. ASSUME NEW d \in Ctx, CompFinish(d), comp[d].ent = e
        PROVE  FALSE
    <3>1. comp[d].pc = "finish" /\ comp'[d].pc = "idle"
      BY <1>0, <2>2 DEF CompFinish, CompReturn, CompIdle, Typed
    <3> QED BY <1>2, <1>3, <3>1
  <2> QED BY <1>1, <2>1, <2>2, UnderSteps
<1>10. RealRef(e)' <=> RealRef(e)
  <2>1. CASE pending[e]
    <3>1. RealRef(e)
      BY <2>1 DEF RealRef
    <3>2. CASE comp[c].type # "FORCED" \/ Dropped
      <4>1. comp'[c].ent = e /\ comp'[c].pc = "cancel" /\ comp'[c].type = comp[c].type
        BY <1>3, <2>1
      <4>2. Putting(e)'
        BY <1>7, <3>2, <4>1 DEF Putting
      <4> QED BY <3>1, <4>2 DEF RealRef
    <3>3. CASE comp[c].type = "FORCED" /\ ~Dropped
      <4>1. Timeouts /\ c # Irq /\ c # Work(e)
        BY <1>1, <1>5, <3>3
      <4>2. hpc[e] = "exit"
        BY <1>4, <1>5, <2>1, <4>1, Contexts
      <4>3. PICK t \in Slots : idx[e] = t /\ Busy(t)
        BY <1>0, <1>1, <2>1, <4>1, <4>2 DEF EntInv, Places
      <4>4. Busy(t)' /\ idx'[e] = t /\ entArr'[t] = e
        BY <1>1, <1>2, <1>3, <4>1, <4>3
      <4>5. Due(e)'
        BY <4>4 DEF Due
      <4> QED BY <3>1, <4>1, <4>5 DEF RealRef
    <3> QED BY <3>2, <3>3
  <2>2. CASE ~pending[e]
    <3>1. Putting(e)' <=> Putting(e)
      <4>1. ~(comp[c].pc \in {"cancel", "rput"}) /\ ~(comp'[c].pc \in {"cancel", "rput"})
        BY <1>3, <1>8, <2>2
      <4> QED BY <1>2, <1>7, <4>1 DEF Putting
    <3>2. CASE c = Irq
      <4>1. Timeouts /\ Busy(idx[e])
        BY <1>4, <2>2, <3>2
      <4>2. Due(e)
        BY <1>3, <4>1 DEF Due
      <4>3. Late(e)'
        BY <1>3, <1>5, <2>2, <3>2 DEF Late
      <4> QED BY <4>1, <4>2, <4>3 DEF RealRef, Due
    <3>3. CASE c # Irq
      <4>1. Late(e)' <=> Late(e)
        BY <1>2, <3>3, Contexts DEF Late
      <4>2. Due(e)' <=> Due(e)
        BY <1>1, <1>2, <3>3, <4>1 DEF Due
      <4> QED BY <1>6, <2>2, <3>1, <4>2 DEF RealRef
    <3> QED BY <3>2, <3>3
  <2> QED BY <2>1, <2>2
<1>11. Refs(e)'
  <2>1. BaseRef(e)' <=> BaseRef(e)
    BY <1>1, <1>2, <1>9, BaseFrame
  <2>2. FlushRef(e)' <=> FlushRef(e)
    BY <1>2, FlushFrame
  <2> QED BY <1>0, <1>1, <1>3, <1>10, <2>1, <2>2, RefsFrame
<1>12. Waits(e)'
  <2>1. SUFFICES ASSUME ~Kind[e].callback
                 PROVE  Waits(e)'
    BY DEF Waits
  <2>2. ASSUME Under(e), cpc[e] = "forced"
        PROVE  comp'[Wait(e)].pc # "idle"
    <3>1. comp[Wait(e)].pc # "idle"
      BY <1>0, <1>1, <2>1, <2>2 DEF EntInv, Waits
    <3>2. CASE c # Wait(e)
      BY <1>1, <1>2, <3>1, <3>2, Contexts
    <3>3. CASE c = Wait(e)
      <4>1. pending[e] \/ Finishing(e)
        BY <1>1, <2>2, ArmedUnder
      <4>2. c # Irq /\ c # Work(e)
        BY <1>1, <3>3, Contexts
      <4>3. ~Finishing(e)
        BY <1>3, <1>4, <4>2 DEF Finishing, PastPcs
      <4> QED BY <1>3, <3>3, <4>1, <4>3
    <3> QED BY <3>2, <3>3
  <2> QED BY <1>0, <1>1, <1>2, <1>3, <1>9, <2>1, <2>2 DEF EntInv, Waits
<1>13. Places(e)'
  <2>1. hpc[e] \in {"comp", "exit"}
    BY <1>4
  <2> QED BY <1>0, <1>1, <1>2, <1>3, <1>6, <2>1 DEF EntInv, Places, Armed
<1>14. CompWork(e)'
  <2>1. CASE c = Work(e)
    <3>1. /\ comp'[c].pc = "cancel"  /\ comp'[c].ent = e  /\ comp'[c].slot = comp[c].slot
          /\ comp'[c].type = comp[c].type
      BY <1>3, <1>4, <2>1
    <3>2. CompWork(e) /\ comp[c].pc # "idle"
      BY <1>0, <1>1, <1>3 DEF EntInv
    <3> QED BY <1>2, <1>7, <2>1, <3>1, <3>2 DEF CompWork, PastPcs
  <2>2. CASE c # Work(e)
    <3>1. comp'[Work(e)] = comp[Work(e)] /\ comp[Work(e)].pc # "claim"
      BY <1>1, <1>2, <1>4, <2>2, Contexts
    <3> QED BY <1>0, <1>1, <1>2, <1>7, <3>1 DEF EntInv, CompWork
  <2> QED BY <2>1, <2>2
<1>15. CompWait(e)'
  <2>1. CASE c = Wait(e)
    <3>0. comp[c].type # "EVENT"
      BY <1>1, <1>5, <2>1, Contexts
    <3>1. comp'[c].pc = "idle" \/
          (/\ comp'[c].pc = "cancel"  /\ comp'[c].ent = e  /\ comp'[c].slot = comp[c].slot
           /\ comp'[c].type = comp[c].type)
      <4>1. CASE pending[e]
        BY <1>3, <4>1
      <4>2. CASE ~pending[e]
        BY <1>3, <3>0, <4>2 DEF CompIdle
      <4> QED BY <4>1, <4>2
    <3>2. CompWait(e) /\ comp[c].pc # "idle"
      BY <1>0, <1>1, <1>3 DEF EntInv
    <3> QED BY <1>2, <2>1, <3>1, <3>2 DEF CompWait, PastPcs
  <2>2. CASE c # Wait(e)
    <3>1. comp'[Wait(e)] = comp[Wait(e)]
      BY <1>1, <1>2, <2>2, Contexts
    <3> QED BY <1>0, <1>1, <1>2, <3>1 DEF EntInv, CompWait
  <2> QED BY <2>1, <2>2
<1>16. CompTmo(e)'
  <2>1. CASE c = Tmo(e)
    <3>0. comp[c].type # "EVENT"
      BY <1>1, <1>5, <2>1, Contexts
    <3>1. comp'[c].pc = "idle" \/
          (/\ comp'[c].pc = "cancel"  /\ comp'[c].ent = e  /\ comp'[c].slot = comp[c].slot
           /\ comp'[c].type = comp[c].type)
      <4>1. CASE pending[e]
        BY <1>3, <4>1
      <4>2. CASE ~pending[e]
        BY <1>3, <3>0, <4>2 DEF CompIdle
      <4> QED BY <4>1, <4>2
    <3>2. CompTmo(e) /\ comp[c].pc # "idle"
      BY <1>0, <1>1, <1>3 DEF EntInv
    <3> QED BY <1>2, <1>3, <2>1, <3>1, <3>2 DEF CompTmo, PastPcs
  <2>2. CASE c # Tmo(e)
    <3>1. comp'[Tmo(e)] = comp[Tmo(e)]
      BY <1>1, <1>2, <2>2, Contexts
    <3> QED BY <1>0, <1>1, <1>2, <1>3, <3>1 DEF EntInv, CompTmo
  <2> QED BY <2>1, <2>2
<1>17. CompIrq'
  <2>1. CASE c = Irq
    <3>1. /\ comp'[c].pc \in {"cancel", "lateput"}  /\ comp'[c].ent = e
          /\ comp'[c].slot = idx[e]  /\ comp'[c].type = "EVENT"
          /\ comp'[c].pc = "lateput" => Timeouts
      BY <1>3, <1>4, <1>5, <2>1
    <3>2. PICK t \in Slots : t = idx[e]
      BY <1>3
    <3>3. comp[Irq].pc # "idle" /\ t # NoIdx
      BY <1>0, <1>3, <2>1, <3>2 DEF Typed
    <3>4. /\ devState = "UP"  /\ mode = "EVENTS"  /\ opcode_allowed
      BY <1>0, <3>3 DEF EnvInv, CompIrq
    <3>5. ~Busy(t)'
      <4>1. Asked(t)
        BY <1>3, <2>1, <3>2 DEF Asked
      <4>2. fw[t] = NoEnt /\ ~Reported(t)
        BY <1>0, <4>1 DEF EnvInv, OneAnswer
      <4>3. ~Asked(t)'
        BY <1>1, <2>1
      <4> QED BY <1>2, <4>2, <4>3 DEF Busy, Reported
    <3>6. hpc[e] = "exit"
      BY <1>4, <2>1
    <3>7. /\ comp'[Irq].ent = e  /\ comp'[Irq].slot = t  /\ idx'[e] = t  /\ hpc'[e] = "exit"
          /\ comp'[Irq].pc \in {"cancel", "lateput"}  /\ comp'[Irq].type = "EVENT"
          /\ comp'[Irq].pc = "lateput" => Timeouts
      BY <1>2, <2>1, <3>1, <3>2, <3>6
    <3>8. devState' = "UP" /\ mode' = "EVENTS" /\ opcode_allowed'
      BY <1>2, <3>4 DEF opcode_allowed
    <3> QED BY <3>3, <3>5, <3>7, <3>8 DEF CompIrq, PastPcs
  <2>2. CASE c # Irq
    <3>1. comp'[Irq] = comp[Irq]
      BY <1>2, <2>2, Contexts
    <3>2. comp[Irq].slot \in Slots \cup {NoIdx}
      BY <1>0, Contexts DEF Typed
    <3> QED BY <1>0, <1>1, <1>2, <2>2, <3>1, <3>2 DEF EnvInv, CompIrq, opcode_allowed
  <2> QED BY <2>1, <2>2
<1>18. CompFlush'
  <2>1. CASE c = Flush
    <3>0. comp[c].type # "EVENT"
      BY <1>1, <1>5, <2>1, Contexts
    <3>1. comp'[c].pc = "idle" \/
          (/\ comp'[c].pc = "cancel"  /\ comp'[c].ent = e  /\ comp'[c].slot = comp[c].slot
           /\ comp'[c].type = comp[c].type)
      <4>1. CASE pending[e]
        BY <1>3, <4>1
      <4>2. CASE ~pending[e]
        BY <1>3, <3>0, <4>2 DEF CompIdle
      <4> QED BY <4>1, <4>2
    <3>2. CompFlush /\ comp[c].pc # "idle"
      BY <1>0, <1>3 DEF EnvInv
    <3> QED BY <1>2, <1>3, <2>1, <3>1, <3>2 DEF CompFlush, PastPcs
  <2>2. CASE c # Flush
    <3>1. comp'[Flush] = comp[Flush]
      BY <1>2, <2>2, Contexts
    <3> QED BY <1>0, <1>2, <3>1 DEF EnvInv, CompFlush
  <2> QED BY <2>1, <2>2
<1>19. Held' /\ CompEnt'
  <2>1. Held'
    BY <1>0, <1>2 DEF EnvInv, Held, Armed
  <2>2. comp'[c].pc \in {"idle", "claim"} => comp'[c].ent = NoEnt
    BY <1>1, <1>3 DEF CompIdle
  <2> QED BY <1>0, <1>2, <2>1, <2>2 DEF EnvInv, CompEnt
<1>20. OneAnswer'
  <2>1. \A t \in Slots : (Reported(t)' <=> Reported(t)) /\ (Asked(t)' => Asked(t))
    BY <1>1, <1>2 DEF Reported
  <2> QED BY <1>0, <1>2, <2>1 DEF EnvInv, OneAnswer
<1>21. Answers'
  <2>1. SUFFICES ASSUME devState = "UP", NEW t \in Slots, Busy(t)'
                 PROVE  /\ entArr[t] \in Ents  /\ idx[entArr[t]] = t
                        /\ fw[t] \in {NoEnt, entArr[t]}
                        /\ hpc[entArr[t]] = IF mode = "POLLING" THEN "poll" ELSE "exit"
                        /\ Timeouts \/ pending'[entArr[t]]
    BY <1>2 DEF Answers
  <2>2. /\ entArr[t] \in Ents  /\ idx[entArr[t]] = t
        /\ fw[t] \in {NoEnt, entArr[t]}
        /\ hpc[entArr[t]] = IF mode = "POLLING" THEN "poll" ELSE "exit"
        /\ Timeouts \/ pending[entArr[t]]
    BY <1>0, <1>1, <2>1 DEF EnvInv, Answers
  <2>3. ASSUME ~Timeouts, entArr[t] = e
        PROVE  FALSE
    <3>1. c = Irq
      BY <1>4, <1>5, <2>1, <2>2, <2>3, <1>1, Contexts
    <3>2. t = comp[Irq].slot
      BY <1>3, <2>2, <2>3, <3>1
    <3>3. Asked(t)
      BY <1>3, <3>1, <3>2 DEF Asked
    <3>4. fw[t] = NoEnt /\ ~Reported(t)
      BY <1>0, <3>3 DEF EnvInv, OneAnswer
    <3>5. ~Asked(t)'
      BY <1>1, <3>1
    <3> QED BY <1>2, <2>1, <3>4, <3>5 DEF Busy, Reported
  <2> QED BY <1>6, <2>2, <2>3
<1>22. Modes'
  BY <1>0, <1>1, <1>2 DEF EnvInv, Modes, opcode_allowed
<1>23. EnvInv'
  BY <1>17, <1>18, <1>19, <1>20, <1>21, <1>22 DEF EnvInv
<1>24. Owned'
  BY <1>0, <1>2, <1>3, OwnedFrame
<1> QED BY <1>0, <1>1, <1>11, <1>12, <1>13, <1>14, <1>15, <1>16, <1>23, <1>24, RefInvParts DEF EntInv

(* The steps of a completion after the pending bit.                        *)
LEMMA CompAfter ==
    ASSUME Sane, FullInv, RefInv, Next, NEW c \in Ctx, CompStep(c), ~CompClaim(c), NEW e,
           e = comp[c].ent
    PROVE  /\ e \in Ents  /\ Handled(c) = e  /\ Armed(e)  /\ refcnt[e] > 0
           /\ comp[c].pc \in PastPcs \cup {"lateput"}
           /\ comp[c].pc \in PastPcs => Under(e) /\ ~pending[e]
           /\ comp[c].pc = "lateput" => c = Irq /\ Timeouts
           /\ comp[c].pc = "cancel" => comp'[c].pc = "rput"
           /\ comp[c].pc = "rput" => comp'[c].pc = "finish"
           /\ comp[c].pc \in {"lateput", "finish"} => comp'[c] = CompIdle
           /\ comp[c].pc \in {"cancel", "rput"} =>
                 /\ comp'[c].slot = comp[c].slot  /\ comp'[c].type = comp[c].type
                 /\ comp'[c].ent = e
           /\ pending' = pending
           /\ ret'[e] = ret[e] \/ ret'[e] = "ENXIO"
           /\ timer'[e] = timer[e] \/ (timer[e] = "armed" /\ timer'[e] = "off")
<1>0. Typed /\ comp[c].pc \notin {"idle", "claim"}
  BY IsTyped DEF CompStep, CompClaim, CompLatePut, CompCancel, CompRealPut, CompFinish
<1>1. /\ e \in Ents  /\ Handled(c) = e  /\ Armed(e)
  BY <1>0, CompStepFrame DEF Handled
<1>2. refcnt[e] > 0 /\ comp[c].pc \in PastPcs \cup {"lateput"}
  BY <1>0, Belongs, CompAlive
<1>3. comp[c].pc \in PastPcs => Under(e) /\ ~pending[e]
  BY PastUnder, PastNotPending
<1>4. comp[c].pc = "lateput" => c = Irq /\ Timeouts
  BY <1>0, CompAlive
<1>5. /\ comp[c].pc = "cancel" => comp'[c].pc = "rput"
      /\ comp[c].pc = "rput" => comp'[c].pc = "finish"
      /\ comp[c].pc \in {"lateput", "finish"} => comp'[c] = CompIdle
      /\ comp[c].pc \in {"cancel", "rput"} =>
            /\ comp'[c].slot = comp[c].slot  /\ comp'[c].type = comp[c].type
            /\ comp'[c].ent = e
  BY <1>0, <1>1 DEF CompStep, CompLatePut, CompCancel, CompRealPut, CompFinish, CompReturn, CompAt,
                    CompIdle, Typed
<1>6. pending' = pending
  BY DEF CompStep, CompLatePut, CompCancel, CompRealPut, CompFinish
<1>7. ret'[e] = ret[e] \/ ret'[e] = "ENXIO"
  BY <1>0, <1>1 DEF CompStep, CompLatePut, CompCancel, CompRealPut, CompFinish, Typed
<1>8. timer'[e] = timer[e] \/ (timer[e] = "armed" /\ timer'[e] = "off")
  BY <1>0, <1>1 DEF CompStep, CompLatePut, CompCancel, CompRealPut, CompFinish, Typed
<1> QED BY <1>1, <1>2, <1>3, <1>4, <1>5, <1>6, <1>7, <1>8

LEMMA CompAfterInv ==
    ASSUME Sane, FullInv, RefInv, Next, NEW c \in Ctx, CompStep(c), ~CompClaim(c), NEW e,
           e = comp[c].ent
    PROVE  /\ \A f \in Ents : f # e => Refs(f)' /\ EntInv(f)'
           /\ \A t \in Slots : Busy(t)' <=> Busy(t)
           /\ Places(e)'  /\ CompWork(e)'  /\ CompWait(e)'  /\ CompTmo(e)'
           /\ EnvInv'
<1>0. Typed /\ EnvInv /\ \A f \in Ents : Refs(f) /\ EntInv(f)
  BY IsTyped, RefInvParts
<1>1. /\ e \in Ents  /\ Handled(c) = e  /\ Armed(e)
      /\ comp[c].pc \in PastPcs \cup {"lateput"}
      /\ comp[c].pc = "lateput" => c = Irq /\ Timeouts
      /\ comp[c].pc = "cancel" => comp'[c].pc = "rput"
      /\ comp[c].pc = "rput" => comp'[c].pc = "finish"
      /\ comp[c].pc \in {"lateput", "finish"} => comp'[c] = CompIdle
      /\ comp[c].pc \in {"cancel", "rput"} =>
            /\ comp'[c].slot = comp[c].slot  /\ comp'[c].type = comp[c].type
            /\ comp'[c].ent = e
      /\ pending' = pending
      /\ ret'[e] = ret[e] \/ ret'[e] = "ENXIO"
      /\ timer'[e] = timer[e] \/ (timer[e] = "armed" /\ timer'[e] = "off")
  BY CompAfter
<1>2. /\ \A d \in Ctx : d # c => comp'[d] = comp[d]
      /\ UNCHANGED <<idx, entArr, hpc, cpc, wq, mode, allowed, devState, offline,
                     fw, eqes, fheld, ftodo, fpc, pollCmd, slotted, phase, eqUp, nbReg>>
  BY CompStepFrame
<1>3. /\ \A f \in Ents : f # e => Refs(f)' /\ EntInv(f)'
      /\ \A t \in Slots : (Busy(t)' <=> Busy(t)) /\ (Asked(t)' <=> Asked(t))
      /\ \A x \in Ents : c \in {Work(x), Wait(x), Tmo(x)} => x = e
      /\ comp'[c].pc # "claim"
  <2>1. comp[c].pc # "claim" /\ e = Handled(c)
    BY <1>1 DEF PastPcs
  <2> QED BY <2>1, CompElse
<1>4. \/ comp'[c] = CompIdle
      \/ /\ comp'[c].pc \in PastPcs  /\ comp[c].pc \in PastPcs
         /\ comp'[c].slot = comp[c].slot  /\ comp'[c].type = comp[c].type
         /\ comp'[c].ent = e  /\ comp[c].ent = e
         /\ comp'[c].pc = "rput" => comp[c].pc = "cancel"
         /\ comp'[c].pc # "cancel"
  BY <1>1 DEF PastPcs
<1>5. CompIdle.pc = "idle" /\ CompIdle.ent = NoEnt
  BY DEF CompIdle
<1>e. EntInv(e)
  BY <1>0, <1>1, Zenon
<1>6. Places(e)'
  <2>1. comp'[Work(e)].pc # "claim" => comp[Work(e)].pc # "claim"
    BY <1>1, <1>2, <1>4, <1>5, Contexts DEF PastPcs
  <2>2. PICK t \in Slots \cup {NoIdx} : t = idx[e]
    BY <1>0, <1>1 DEF Typed
  <2>3. Timeouts /\ pending[e] /\ hpc[e] = "exit" => t \in Slots /\ Busy(t)
    BY <1>0, <1>1, <2>2 DEF EntInv, Places
  <2>4. Timeouts /\ pending'[e] /\ hpc'[e] = "exit" => \E s \in Slots : idx'[e] = s /\ Busy(s)'
    BY <1>1, <1>2, <1>3, <2>2, <2>3
  <2>5. Armed(e)'
    BY <1>1, <1>2 DEF Armed
  <2>6. Places(e)
    BY <1>e, Zenon DEF EntInv
  <2> QED BY <1>1, <1>2, <2>1, <2>4, <2>5, <2>6 DEF Places, opcode_allowed
<1>7. Dropped' <=> Dropped
  BY <1>2 DEF Dropped, mlx5_cmd_is_down, opcode_allowed
<1>8. CompWork(e)'
  <2>0. CompWork(e)
    BY <1>e, Zenon DEF EntInv
  <2>1. CASE c = Work(e)
    BY <1>1, <1>2, <1>4, <1>5, <1>7, <2>0, <2>1, Zenon DEF CompWork, PastPcs
  <2>2. CASE c # Work(e)
    <3>1. comp'[Work(e)] = comp[Work(e)]
      BY <1>1, <1>2, <2>2, Contexts
    <3> QED BY <1>1, <1>2, <1>7, <2>0, <3>1 DEF CompWork
  <2> QED BY <2>1, <2>2
<1>9. CompWait(e)'
  <2>0. CompWait(e)
    BY <1>e, Zenon DEF EntInv
  <2>1. CASE c = Wait(e)
    BY <1>1, <1>2, <1>4, <1>5, <2>0, <2>1 DEF CompWait, PastPcs
  <2>2. CASE c # Wait(e)
    <3>1. comp'[Wait(e)] = comp[Wait(e)]
      BY <1>1, <1>2, <2>2, Contexts
    <3> QED BY <1>1, <1>2, <2>0, <3>1 DEF CompWait
  <2> QED BY <2>1, <2>2
<1>10. CompTmo(e)'
  <2>0. CompTmo(e)
    BY <1>e, Zenon DEF EntInv
  <2>1. CASE c = Tmo(e)
    BY <1>1, <1>2, <1>4, <1>5, <2>0, <2>1 DEF CompTmo, PastPcs
  <2>2. CASE c # Tmo(e)
    <3>1. comp'[Tmo(e)] = comp[Tmo(e)]
      BY <1>1, <1>2, <2>2, Contexts
    <3> QED BY <1>1, <1>2, <2>0, <3>1 DEF CompTmo
  <2> QED BY <2>1, <2>2
<1>11. CompIrq'
  <2>0. CompIrq
    BY <1>0 DEF EnvInv
  <2>1. PICK t \in Slots \cup {NoIdx} : t = comp[Irq].slot
    BY <1>0, Contexts DEF Typed
  <2>2. /\ comp'[Irq].pc # "idle" =>
               /\ comp[Irq].pc # "idle"  /\ comp'[Irq].slot = t  /\ comp'[Irq].ent = comp[Irq].ent
               /\ comp'[Irq].type = comp[Irq].type
        /\ comp'[Irq].pc \in {"lateput", "cancel"} => comp[Irq].pc = comp'[Irq].pc
        /\ comp'[Irq].pc = "rput" => comp[Irq].pc \in {"cancel", "rput"}
        /\ comp'[Irq].pc = "claim" <=> comp[Irq].pc = "claim"
        /\ comp'[Irq].pc \in {"idle", "claim", "lateput"} \cup PastPcs
    <3>1. CASE c = Irq
      BY <1>1, <1>4, <1>5, <2>1, <3>1 DEF PastPcs
    <3>2. CASE c # Irq
      BY <1>2, <2>0, <2>1, <3>2, Contexts DEF CompIrq
    <3> QED BY <3>1, <3>2
  <2>3. comp'[Irq].pc \in {"lateput", "cancel", "rput"} => ~Busy(t)'
    <3>1. comp'[Irq].pc \in {"lateput", "cancel", "rput"} => ~Busy(t) /\ t # NoIdx
      BY <2>0, <2>1, <2>2 DEF CompIrq
    <3> QED BY <1>3, <2>1, <3>1
  <2>4. PICK f : f = comp[Irq].ent
    OBVIOUS
  <2>5. comp'[Irq].pc \notin {"idle", "claim"} => t = idx'[f] /\ hpc'[f] = "exit"
    BY <1>2, <2>0, <2>1, <2>2, <2>4 DEF CompIrq
  <2>6. comp'[Irq].pc # "idle" => /\ devState' = "UP"  /\ mode' = "EVENTS"  /\ opcode_allowed'
                                  /\ comp'[Irq].type = "EVENT"  /\ t # NoIdx
    BY <1>2, <2>0, <2>1, <2>2 DEF CompIrq, opcode_allowed
  <2>7. comp'[Irq].pc = "lateput" => Timeouts
    BY <2>0, <2>2 DEF CompIrq
  <2>8. /\ comp'[Irq].pc # "idle" => comp'[Irq].slot = t /\ comp'[Irq].ent = f
        /\ comp'[Irq].pc \in {"idle", "claim", "lateput"} \cup PastPcs
    BY <2>2, <2>4
  <2> QED BY <2>3, <2>5, <2>6, <2>7, <2>8 DEF CompIrq
<1>12. CompFlush'
  <2>0. CompFlush
    BY <1>0 DEF EnvInv
  <2>1. CASE c = Flush
    BY <1>1, <1>2, <1>4, <1>5, <2>0, <2>1 DEF CompFlush, PastPcs
  <2>2. CASE c # Flush
    <3>1. comp'[Flush] = comp[Flush]
      BY <1>2, <2>2, Contexts
    <3> QED BY <1>2, <2>0, <3>1 DEF CompFlush
  <2> QED BY <2>1, <2>2
<1>13. Held'
  BY <1>0, <1>2 DEF EnvInv, Held, Armed
<1>14. CompEnt'
  <2>1. comp'[c].pc \in {"idle", "claim"} => comp'[c].ent = NoEnt
    BY <1>4, <1>5 DEF PastPcs
  <2> QED BY <1>0, <1>2, <2>1 DEF EnvInv, CompEnt
<1>15. OneAnswer'
  <2>1. \A t \in Slots : Reported(t)' <=> Reported(t)
    BY <1>2 DEF Reported
  <2> QED BY <1>0, <1>2, <1>3, <2>1 DEF EnvInv, OneAnswer
<1>16. Answers'
  BY <1>0, <1>1, <1>2, <1>3 DEF EnvInv, Answers
<1>17. Modes'
  BY <1>0, <1>2, <1>3 DEF EnvInv, Modes, opcode_allowed
<1> QED BY <1>3, <1>6, <1>8, <1>9, <1>10, <1>11, <1>12, <1>13, <1>14, <1>15, <1>16, <1>17 DEF EnvInv

(* What a step of a completion leaves of the other references.             *)
LEMMA CompAfterRefs ==
    ASSUME Sane, FullInv, RefInv, Next, NEW c \in Ctx, CompStep(c), ~CompClaim(c), NEW e,
           e = comp[c].ent
    PROVE  /\ FlushRef(e)' <=> FlushRef(e)
           /\ ~CompFinish(c) => (Under(e)' <=> Under(e)) /\ (BaseRef(e)' <=> BaseRef(e))
           /\ comp[c].pc # "lateput" => (Due(e)' <=> Due(e)) /\ ~(c = Irq /\ Late(e))
           /\ Dropped' <=> Dropped
<1>1. /\ e \in Ents
      /\ comp[c].pc \in PastPcs \cup {"lateput"}
      /\ comp[c].pc = "cancel" => comp'[c].pc = "rput"
      /\ comp[c].pc = "rput" => comp'[c].pc = "finish"
      /\ comp[c].pc \in {"lateput", "finish"} => comp'[c] = CompIdle
      /\ pending' = pending
  BY CompAfter
<1>2. /\ \A d \in Ctx : d # c => comp'[d] = comp[d]
      /\ UNCHANGED <<idx, entArr, hpc, cpc, wq, allowed, devState, offline, fheld>>
  BY CompStepFrame
<1>3. FlushRef(e)' <=> FlushRef(e)
  BY <1>2, FlushFrame
<1>4. ASSUME ~CompFinish(c)
      PROVE  (Under(e)' <=> Under(e)) /\ (BaseRef(e)' <=> BaseRef(e))
  <2>1. ~Submit(e) /\ ~CancelWork(e) /\ ~WorkDownTimeout(e)
    BY <1>1, <1>2, IsTyped DEF Submit, CancelWork, WorkDownTimeout, Typed
  <2>2. ASSUME NEW d \in Ctx, CompFinish(d), comp[d].ent = e
        PROVE  FALSE
    <3>1. comp[d].pc = "finish" /\ comp'[d].pc = "idle"
      BY <2>2, IsTyped DEF CompFinish, CompReturn, CompIdle, Typed
    <3>2. d = c
      BY <1>2, <3>1
    <3> QED BY <1>4, <2>2, <3>2
  <2>3. Under(e)' <=> Under(e)
    BY <1>1, <2>1, <2>2, UnderSteps
  <2> QED BY <1>1, <1>2, <2>3, BaseFrame
<1>5. ASSUME comp[c].pc # "lateput"
      PROVE  (Due(e)' <=> Due(e)) /\ ~(c = Irq /\ Late(e))
  <2>1. \A t \in Slots : Busy(t)' <=> Busy(t)
    BY CompAfterInv
  <2>2. CompIdle.pc = "idle"
    BY DEF CompIdle
  <2>3. comp'[c].pc # "lateput"
    BY <1>1, <1>5, <2>2 DEF PastPcs
  <2>4. Late(e)' <=> Late(e)
    BY <1>2, <1>5, <2>3, Contexts DEF Late
  <2> QED BY <1>2, <1>5, <2>1, <2>4 DEF Due, Late
<1>6. Dropped' <=> Dropped
  BY <1>2 DEF Dropped, mlx5_cmd_is_down, opcode_allowed
<1> QED BY <1>3, <1>4, <1>5, <1>6

(* Who waits does not notice.                                              *)
LEMMA CompAfterWaits ==
    ASSUME Sane, FullInv, RefInv, Next, NEW c \in Ctx, CompStep(c), ~CompClaim(c), ~CompFinish(c),
           NEW e, e = comp[c].ent, done' = done
    PROVE  Waits(e)'
<1>0. Typed /\ \A f \in Ents : Refs(f) /\ EntInv(f)
  BY IsTyped, RefInvParts
<1>1. /\ e \in Ents
      /\ comp[c].pc \in PastPcs \cup {"lateput"}
      /\ comp[c].pc = "lateput" => c = Irq
      /\ comp[c].pc = "cancel" => comp'[c].pc = "rput"
      /\ comp[c].pc = "rput" => comp'[c].pc = "finish"
      /\ timer'[e] = timer[e] \/ (timer[e] = "armed" /\ timer'[e] = "off")
  BY CompAfter
<1>2. /\ \A d \in Ctx : d # c => comp'[d] = comp[d]
      /\ UNCHANGED <<hpc, cpc, slotted>>
  BY CompStepFrame
<1>3. Under(e)' <=> Under(e)
  BY CompAfterRefs
<1>4. comp[c].pc # "finish"
  BY DEF CompStep, CompClaim, CompFinish, CompLatePut, CompCancel, CompRealPut
<1>5. comp[Wait(e)].pc # "idle" => comp'[Wait(e)].pc # "idle"
  <2>1. CASE c = Wait(e)
    BY <1>1, <1>4, <2>1, Contexts DEF PastPcs
  <2>2. CASE c # Wait(e)
    BY <1>1, <1>2, <2>2, Contexts
  <2> QED BY <2>1, <2>2
<1>6. Waits(e)
  BY <1>0, <1>1 DEF EntInv
<1> QED BY <1>1, <1>2, <1>3, <1>5, <1>6 DEF Waits

(* The late event of a command that timed out drops the reference of the   *)
(* real completion.                                                        *)
LEMMA CompLatePutRef ==
    ASSUME Sane, FullInv, RefInv, Next, NEW c \in Ctx, CompLatePut(c)
    PROVE  RefInv'
<1>a. PICK e : e = comp[c].ent
  OBVIOUS
<1>0. /\ Typed  /\ EnvInv  /\ Owned  /\ \A f \in Ents : Refs(f) /\ EntInv(f)
      /\ ~uaf'  /\ CompStep(c)  /\ ~CompClaim(c)  /\ ~CompFinish(c)
  BY IsTyped, RefInvParts, UafStep DEF CompStep, CompLatePut, CompClaim, CompFinish
<1>1. /\ e \in Ents  /\ refcnt[e] > 0  /\ comp[c].pc = "lateput"  /\ c = Irq  /\ Timeouts
      /\ comp'[c] = CompIdle  /\ pending' = pending
  <2>1. comp[c].pc \in {"lateput", "trigput"}
    BY DEF CompLatePut
  <2> QED BY <1>a, <1>0, <2>1, CompAfter DEF PastPcs
<1>2. /\ \A d \in Ctx : d # c => comp'[d] = comp[d]
      /\ UNCHANGED <<idx, entArr, hpc, cpc, wq, allowed, devState, offline, fheld>>
      /\ UNCHANGED <<done, timer>>
  BY <1>0, CompStepFrame DEF CompLatePut
<1>3. /\ FlushRef(e)' <=> FlushRef(e)
      /\ Under(e)' <=> Under(e)
      /\ BaseRef(e)' <=> BaseRef(e)
      /\ Dropped' <=> Dropped
  BY <1>0, <1>a, CompAfterRefs
<1>4. /\ \A f \in Ents : f # e => Refs(f)' /\ EntInv(f)'
      /\ \A t \in Slots : Busy(t)' <=> Busy(t)
      /\ Places(e)'  /\ CompWork(e)'  /\ CompWait(e)'  /\ CompTmo(e)'
      /\ EnvInv'
  BY <1>0, <1>a, CompAfterInv
<1>5. Waits(e)'
  BY <1>0, <1>2, <1>a, CompAfterWaits
<1>6. RealRef(e)
  BY <1>a, <1>1, CompAlive
<1>7. PICK s \in Slots \cup {NoIdx} : s = comp[c].slot
  BY <1>0 DEF Typed
<1>8. ~Busy(s) /\ s = idx[e] /\ hpc[e] = "exit" /\ s \in Slots
  BY <1>0, <1>1, <1>a, <1>7 DEF EnvInv, CompIrq
<1>9. ~pending[e]
  BY <1>0, <1>1, <1>8 DEF EntInv, Places
<1>10. ~RealRef(e)'
  <2>1. ~Putting(e)'
    <3>1. SUFFICES ASSUME NEW d \in Ctx, comp'[d].ent = e, comp'[d].pc \in {"cancel", "rput"},
                          comp'[d].type # "FORCED" \/ Dropped'
                   PROVE  FALSE
      BY DEF Putting
    <3>2. d # c /\ comp'[d] = comp[d]
      BY <1>1, <1>2, <3>1 DEF CompIdle
    <3>3. comp[d].pc # "idle" /\ ~Dropped /\ comp[d].type # "FORCED"
      BY <1>1, <1>3, <3>1, <3>2, Steady
    <3>4. /\ comp[d].type = "EVENT" <=> d = Irq
          /\ \A x \in Ents : d \in {Wait(x), Tmo(x)} => comp[d].type = "FORCED"
          /\ \A x \in Ents : d = Work(x) => ~Timeouts
          /\ d = Flush => ~Timeouts
      BY <3>3, CompKinds
    <3> QED BY <1>1, <3>2, <3>3, <3>4, Contexts
  <2>2. ~Late(e)'
    BY <1>1 DEF Late, CompIdle
  <2>3. ~Due(e)'
    BY <1>2, <1>4, <1>8, <2>2 DEF Due
  <2> QED BY <1>1, <1>9, <2>1, <2>3 DEF RealRef
<1>11. /\ Owned'  /\ refcnt'[e] = refcnt[e] - 1
  <2>1. cmd_ent_put(e)
    BY <1>a DEF CompLatePut
  <2> QED BY <1>0, <1>1, <1>2, <2>1, OwnedPut
<1>12. Refs(e)'
  <2>1. TimerRef(e)' <=> TimerRef(e)
    BY <1>2 DEF TimerRef
  <2>2. Refs(e) /\ refcnt[e] \in Nat
    BY <1>0, <1>1 DEF Typed
  <2> QED BY <1>3, <1>6, <1>10, <1>11, <2>1, <2>2 DEF Refs, One
<1> QED BY <1>0, <1>1, <1>4, <1>5, <1>11, <1>12, RefInvParts DEF EntInv

(* cancel_delayed_work() drops the reference of the timeout.               *)
LEMMA CompCancelRef ==
    ASSUME Sane, FullInv, RefInv, Next, NEW c \in Ctx, CompCancel(c)
    PROVE  RefInv'
<1>a. PICK e : e = comp[c].ent
  OBVIOUS
<1>0. /\ Typed  /\ EnvInv  /\ Owned  /\ \A f \in Ents : Refs(f) /\ EntInv(f)
      /\ ~uaf'  /\ CompStep(c)  /\ ~CompClaim(c)  /\ ~CompFinish(c)
  BY IsTyped, RefInvParts, UafStep DEF CompStep, CompCancel, CompClaim, CompFinish
<1>1. /\ e \in Ents  /\ refcnt[e] > 0  /\ comp[c].pc = "cancel"  /\ comp'[c].pc = "rput"
      /\ comp'[c].slot = comp[c].slot  /\ comp'[c].type = comp[c].type  /\ comp'[c].ent = e
      /\ pending' = pending
  BY <1>a, <1>0, CompAfter DEF CompCancel
<1>2. /\ \A d \in Ctx : d # c => comp'[d] = comp[d]
      /\ UNCHANGED <<idx, entArr, hpc, cpc, wq, allowed, devState, offline, fheld, done>>
  BY <1>0, CompStepFrame DEF CompCancel
<1>3. /\ FlushRef(e)' <=> FlushRef(e)
      /\ BaseRef(e)' <=> BaseRef(e)
      /\ Due(e)' <=> Due(e)
      /\ Dropped' <=> Dropped
  BY <1>0, <1>1, <1>a, CompAfterRefs
<1>4. /\ \A f \in Ents : f # e => Refs(f)' /\ EntInv(f)'
      /\ Places(e)'  /\ CompWork(e)'  /\ CompWait(e)'  /\ CompTmo(e)'
      /\ EnvInv'
  BY <1>0, <1>a, CompAfterInv
<1>5. Waits(e)'
  BY <1>0, <1>2, <1>a, CompAfterWaits
<1>6. Putting(e)' <=> Putting(e)
  BY <1>1, <1>2, <1>3, <1>a DEF Putting
<1>7. RealRef(e)' <=> RealRef(e)
  BY <1>1, <1>3, <1>6 DEF RealRef
<1>8. CASE Kind[e].callback /\ timer[e] = "armed"
  <2>1. cmd_ent_put(e) /\ timer'[e] = "off" /\ timer[e] = "armed"
    BY <1>0, <1>1, <1>a, <1>8 DEF CompCancel, Typed
  <2>2. Owned' /\ refcnt'[e] = refcnt[e] - 1
    BY <1>0, <1>1, <1>2, <2>1, OwnedPut
  <2>3. TimerRef(e) /\ ~TimerRef(e)'
    BY <2>1 DEF TimerRef
  <2>4. Refs(e) /\ refcnt[e] \in Nat
    BY <1>0, <1>1 DEF Typed
  <2>5. Refs(e)'
    BY <1>3, <1>7, <2>2, <2>3, <2>4 DEF Refs, One
  <2> QED BY <1>0, <1>1, <1>4, <1>5, <2>2, <2>5, RefInvParts DEF EntInv
<1>9. CASE ~(Kind[e].callback /\ timer[e] = "armed")
  <2>1. refcnt' = refcnt /\ bitmask' = bitmask /\ timer' = timer
    BY <1>a, <1>9 DEF CompCancel, Touch
  <2>2. Owned'
    BY <1>0, <1>2, <2>1, OwnedFrame
  <2>3. Refs(e)'
    BY <1>0, <1>1, <1>3, <1>7, <2>1, RefsFrame
  <2> QED BY <1>0, <1>1, <1>4, <1>5, <2>2, <2>3, RefInvParts DEF EntInv
<1> QED BY <1>8, <1>9

(* The real completion drops its reference; a forced one leaves it to the  *)
(* event of the firmware.                                                  *)
LEMMA CompRealPutRef ==
    ASSUME Sane, FullInv, RefInv, Next, NEW c \in Ctx, CompRealPut(c)
    PROVE  RefInv'
<1>a. PICK e : e = comp[c].ent
  OBVIOUS
<1>0. /\ Typed  /\ EnvInv  /\ Owned  /\ \A f \in Ents : Refs(f) /\ EntInv(f)
      /\ ~uaf'  /\ CompStep(c)  /\ ~CompClaim(c)  /\ ~CompFinish(c)
  BY IsTyped, RefInvParts, UafStep DEF CompStep, CompRealPut, CompClaim, CompFinish
<1>1. /\ e \in Ents  /\ refcnt[e] > 0  /\ comp[c].pc = "rput"  /\ comp'[c].pc = "finish"
      /\ comp'[c].ent = e  /\ ~pending[e]  /\ pending' = pending
  BY <1>a, <1>0, CompAfter DEF CompRealPut, PastPcs
<1>2. /\ \A d \in Ctx : d # c => comp'[d] = comp[d]
      /\ UNCHANGED <<idx, entArr, hpc, cpc, wq, allowed, devState, offline, fheld, done, timer>>
  BY <1>0, CompStepFrame DEF CompRealPut
<1>3. /\ FlushRef(e)' <=> FlushRef(e)
      /\ BaseRef(e)' <=> BaseRef(e)
      /\ Due(e)' <=> Due(e)
      /\ ~(c = Irq /\ Late(e))
      /\ Dropped' <=> Dropped
  BY <1>0, <1>1, <1>a, CompAfterRefs
<1>4. /\ \A f \in Ents : f # e => Refs(f)' /\ EntInv(f)'
      /\ Places(e)'  /\ CompWork(e)'  /\ CompWait(e)'  /\ CompTmo(e)'
      /\ EnvInv'
  BY <1>0, <1>a, CompAfterInv
<1>5. Waits(e)'
  BY <1>0, <1>2, <1>a, CompAfterWaits
<1>6. \A d \in Ctx : d # c /\ comp[d].ent = e => comp[d].pc \notin {"cancel", "rput"}
  BY <1>1, <1>a, Unique DEF CompletedOnce
<1>7. ~Putting(e)'
  <2>1. \A d \in Ctx : comp'[d].ent = e => comp'[d].pc \notin {"cancel", "rput"}
    BY <1>1, <1>2, <1>6
  <2> QED BY <2>1 DEF Putting
<1>8. CASE comp[c].type # "FORCED" \/ Dropped
  <2>1. cmd_ent_put(e)
    BY <1>a, <1>8 DEF CompRealPut, Dropped
  <2>2. Owned' /\ refcnt'[e] = refcnt[e] - 1
    BY <1>0, <1>1, <1>2, <2>1, OwnedPut
  <2>3. RealRef(e)
    BY <1>1, <1>8, <1>a DEF RealRef, Putting
  <2>4. Timeouts => ~Due(e)
    <3>1. SUFFICES ASSUME Timeouts
                   PROVE  ~Due(e)
      OBVIOUS
    <3>2. comp[c].pc # "idle" /\ comp[c].type # "FORCED"
      BY <1>1, <1>8, <3>1, Steady
    <3>3. c = Irq
      BY <3>1, <3>2, CompKinds, Contexts
    <3>4. PICK s \in Slots \cup {NoIdx} : s = comp[c].slot
      BY <1>0 DEF Typed
    <3>5. ~Busy(s) /\ s = idx[e]
      BY <1>0, <1>1, <1>a, <3>3, <3>4 DEF EnvInv, CompIrq
    <3> QED BY <1>3, <3>3, <3>5 DEF Due
  <2>5. ~RealRef(e)'
    BY <1>1, <1>3, <1>7, <2>4 DEF RealRef
  <2>6. TimerRef(e)' <=> TimerRef(e)
    BY <1>2 DEF TimerRef
  <2>7. Refs(e) /\ refcnt[e] \in Nat
    BY <1>0, <1>1 DEF Typed
  <2>8. Refs(e)'
    BY <1>3, <2>2, <2>3, <2>5, <2>6, <2>7 DEF Refs, One
  <2> QED BY <1>0, <1>1, <1>4, <1>5, <2>2, <2>8, RefInvParts DEF EntInv
<1>9. CASE ~(comp[c].type # "FORCED" \/ Dropped)
  <2>1. refcnt' = refcnt /\ bitmask' = bitmask
    BY <1>a, <1>9 DEF CompRealPut, Touch, Dropped
  <2>2. Owned'
    BY <1>0, <1>2, <2>1, OwnedFrame
  <2>3. ~Putting(e)
    BY <1>6, <1>9 DEF Putting
  <2>4. RealRef(e)' <=> RealRef(e)
    BY <1>1, <1>3, <1>7, <2>3 DEF RealRef
  <2>5. Refs(e)'
    BY <1>0, <1>1, <1>2, <1>3, <2>1, <2>4, RefsFrame
  <2> QED BY <1>0, <1>1, <1>4, <1>5, <2>2, <2>5, RefInvParts DEF EntInv
<1> QED BY <1>8, <1>9

(* The end of a completion wakes the caller, or calls back and drops the   *)
(* reference of the command.                                               *)
LEMMA CompFinishRef ==
    ASSUME Sane, FullInv, RefInv, Next, NEW c \in Ctx, CompFinish(c)
    PROVE  RefInv'
<1>a. PICK e : e = comp[c].ent
  OBVIOUS
<1>0. /\ Typed  /\ EnvInv  /\ Owned  /\ \A f \in Ents : Refs(f) /\ EntInv(f)
      /\ ~uaf'  /\ CompStep(c)  /\ ~CompClaim(c)
  BY IsTyped, RefInvParts, UafStep DEF CompStep, CompClaim, CompFinish
<1>1. /\ e \in Ents  /\ refcnt[e] > 0  /\ comp[c].pc = "finish"  /\ Under(e)
      /\ pending' = pending  /\ Armed(e)
  BY <1>a, <1>0, CompAfter DEF CompFinish, PastPcs
<1>b. /\ ~pending[e]  /\ ~Finishing(e)'  /\ ~Putting(e)  /\ ~Putting(e)'
      /\ UNCHANGED <<timer, slotted>>
      /\ Kind[e].callback => refcnt' = [refcnt EXCEPT ![e] = refcnt[e] - 1] /\ done' = done
      /\ ~Kind[e].callback => refcnt' = refcnt /\ done' = [done EXCEPT ![e] = TRUE]
  BY <1>a, FinishEffect
<1>2. UNCHANGED <<idx, entArr, hpc, cpc, wq, fheld>>
  BY <1>0, CompStepFrame
<1>3. /\ FlushRef(e)' <=> FlushRef(e)
      /\ Due(e)' <=> Due(e)
  BY <1>0, <1>1, <1>a, CompAfterRefs
<1>4. /\ \A f \in Ents : f # e => Refs(f)' /\ EntInv(f)'
      /\ Places(e)'  /\ CompWork(e)'  /\ CompWait(e)'  /\ CompTmo(e)'
      /\ EnvInv'
  BY <1>0, <1>a, CompAfterInv
<1>5. ~Under(e)'
  <2>1. ~Queued(e) /\ hpc[e] \notin {"wantSem", "gotSem", "slotted"}
    BY <1>1 DEF Armed, Queued, FullInv, IndInv, QueueShape
  <2> QED BY <1>1, <1>2, <1>b, <2>1 DEF Under, Queued
<1>6. RealRef(e)' <=> RealRef(e)
  BY <1>1, <1>3, <1>b DEF RealRef
<1>7. TimerRef(e)' <=> TimerRef(e)
  BY <1>b DEF TimerRef
<1>8. Refs(e) /\ Waits(e) /\ refcnt[e] \in Nat
  BY <1>0, <1>1 DEF Typed, EntInv
<1>9. CASE Kind[e].callback
  <2>1. cmd_ent_put(e)
    BY <1>a, <1>9 DEF CompFinish
  <2>2. Owned' /\ refcnt'[e] = refcnt[e] - 1
    BY <1>0, <1>1, <1>2, <2>1, OwnedPut
  <2>3. BaseRef(e) /\ ~BaseRef(e)'
    BY <1>1, <1>5, <1>9 DEF BaseRef
  <2>4. Refs(e)'
    BY <1>3, <1>6, <1>7, <1>8, <2>2, <2>3 DEF Refs, One
  <2>5. Waits(e)'
    BY <1>9 DEF Waits
  <2> QED BY <1>0, <1>1, <1>4, <2>2, <2>4, <2>5, RefInvParts DEF EntInv
<1>10. CASE ~Kind[e].callback
  <2>1. refcnt' = refcnt /\ bitmask' = bitmask
    BY <1>a, <1>10 DEF CompFinish, Touch
  <2>2. Owned'
    BY <1>0, <1>2, <2>1, OwnedFrame
  <2>3. BaseRef(e)' <=> BaseRef(e)
    BY <1>2, <1>10 DEF BaseRef
  <2>4. Refs(e)'
    BY <1>1, <1>3, <1>6, <1>8, <1>b, <2>1, <2>3, RefsFrame
  <2>5. cpc[e] \notin Start
    BY <1>1, <1>8, <1>10 DEF Waits, Waiting
  <2>6. Waits(e)'
    BY <1>2, <1>5, <1>8, <1>b, <2>5 DEF Waits
  <2> QED BY <1>0, <1>1, <1>4, <2>2, <2>4, <2>6, RefInvParts DEF EntInv
<1> QED BY <1>9, <1>10

LEMMA CompRef ==
    ASSUME Sane, FullInv, RefInv, Next, NEW c \in Ctx, CompStep(c)
    PROVE  RefInv'
  BY CompClaimRef, CompLatePutRef, CompCancelRef, CompRealPutRef, CompFinishRef DEF CompStep

-----------------------------------------------------------------------------
(* The firmware answers and the interrupt takes the answer: the slot stays *)
(* busy where commands time out.                                           *)
LEMMA HwFrame ==
    ASSUME Sane, FullInv, RefInv, Next,
           UNCHANGED <<refcnt, bitmask, idx, entArr, pending, ret, pollCmd, slotted, done, timer, hpc,
                       cpc, fheld, ftodo, fpc, mode, allowed, devState, offline>>,
           \A d \in Ctx : d # Irq => comp'[d] = comp[d],
           \A f \in Ents : CompSame(f),
           \A s \in Slots : /\ Busy(s)' => Busy(s)
                            /\ Timeouts => (Busy(s)' <=> Busy(s)),
           NEW t \in Slots, Busy(t)
    PROVE  /\ \A f \in Ents : Refs(f)' /\ EntInv(f)'
           /\ CompFlush'  /\ Held'  /\ Owned'
<1>0. /\ Typed  /\ EnvInv  /\ Owned  /\ \A f \in Ents : Refs(f) /\ EntInv(f)
  BY IsTyped, RefInvParts
<1>1. ASSUME NEW f \in Ents
      PROVE  Refs(f)' /\ EntInv(f)'
  <2>1. CompSame(f)
    OBVIOUS
  <2>2. Under(f)' <=> Under(f)
    BY <2>1, UnderSame
  <2>3. BaseRef(f)' <=> BaseRef(f)
    BY <2>2, BaseFrame
  <2>4. FlushRef(f)' <=> FlushRef(f)
    BY FlushFrame
  <2>5. Dropped' <=> Dropped
    BY DEF Dropped, mlx5_cmd_is_down, opcode_allowed
  <2>6. (Putting(f)' <=> Putting(f)) /\ (Late(f)' <=> Late(f))
    BY <2>1, <2>5, CompFrame
  <2>7. Timeouts => (Due(f)' <=> Due(f))
    BY <2>6 DEF Due
  <2>8. RealRef(f)' <=> RealRef(f)
    BY <2>6, <2>7 DEF RealRef
  <2>9. Refs(f)'
    BY <1>0, <2>3, <2>4, <2>8, RefsFrame
  <2>10. /\ comp'[Work(f)] = comp[Work(f)]  /\ comp'[Wait(f)] = comp[Wait(f)]
         /\ comp'[Tmo(f)] = comp[Tmo(f)]
    BY Contexts
  <2>11. Timeouts /\ pending[f] => \A s \in Slots : idx[f] = s /\ Busy(s) => Busy(s)'
    OBVIOUS
  <2>12. EntInv(f)'
    BY <1>0, <2>2, <2>10, <2>11, EntFrame
  <2> QED BY <2>9, <2>12
<1>2. CompFlush'
  <2>1. comp'[Flush] = comp[Flush]
    BY Contexts
  <2> QED BY <1>0, <2>1 DEF EnvInv, CompFlush
<1>3. Held'
  BY <1>0 DEF EnvInv, Held, Armed
<1>4. Owned'
  BY <1>0, OwnedFrame
<1> QED BY <1>1, <1>2, <1>3, <1>4

LEMMA FwDoneRef ==
    ASSUME Sane, FullInv, RefInv, Next, NEW s \in Slots, FwDone(s)
    PROVE  RefInv'
<1>0. /\ Typed  /\ EnvInv  /\ ~uaf'
  BY IsTyped, RefInvParts, UafStep
<1>1. /\ fw[s] # NoEnt  /\ fw' = [fw EXCEPT ![s] = NoEnt]
      /\ eqes' = IF eqUp THEN Append(eqes, s) ELSE eqes
      /\ UNCHANGED <<refcnt, bitmask, idx, entArr, pending, ret, pollCmd, slotted, done, timer, hpc,
                     cpc, fheld, ftodo, fpc, mode, allowed, devState, offline, comp, eqUp, nbReg,
                     phase>>
  BY DEF FwDone
<1>2. fw'[s] = NoEnt /\ \A t \in Slots : t # s => fw'[t] = fw[t]
  BY <1>0, <1>1 DEF Typed
<1>3. ~Reported(s) /\ ~Asked(s)
  BY <1>0, <1>1 DEF EnvInv, OneAnswer
<1>4. \A t : /\ Reported(t)' <=> Reported(t) \/ (t = s /\ eqUp)
             /\ Asked(t)' <=> Asked(t)
  <2>1. eqes \in Seq(Slots)
    BY <1>0 DEF Typed
  <2>2. \A t : (\E i \in DOMAIN Append(eqes, s) : Append(eqes, s)[i] = t)
                  <=> (\E i \in DOMAIN eqes : eqes[i] = t) \/ t = s
    BY <2>1, AppendElements
  <2> QED BY <1>1, <2>2 DEF Reported, Asked
<1>5. \A t \in Slots : /\ Busy(t)' => Busy(t)
                       /\ eqUp => (Busy(t)' <=> Busy(t))
  BY <1>1, <1>2, <1>4 DEF Busy
<1>6. \A f \in Ents : CompSame(f)
  BY <1>1 DEF CompSame
<1>7. Timeouts => eqUp
  BY Steady
<1>8. Busy(s)
  BY <1>1 DEF Busy
<1>9. /\ \A f \in Ents : Refs(f)' /\ EntInv(f)'
      /\ CompFlush'  /\ Held'  /\ Owned'
  BY <1>1, <1>5, <1>6, <1>7, <1>8, HwFrame
<1>10. CompIrq'
  <2>1. PICK t \in Slots \cup {NoIdx} : t = comp[Irq].slot
    BY <1>0, Contexts DEF Typed
  <2>2. CompIrq
    BY <1>0 DEF EnvInv
  <2>3. t # NoIdx => (Busy(t)' => Busy(t))
    BY <1>5, <2>1
  <2> QED BY <1>1, <2>1, <2>2, <2>3 DEF CompIrq, opcode_allowed
<1>11. CompEnt'
  BY <1>0, <1>1 DEF EnvInv, CompEnt
<1>12. OneAnswer'
  <2>1. \A i, j \in DOMAIN eqes' : eqes'[i] = eqes'[j] => i = j
    <3>1. \A i, j \in DOMAIN eqes : eqes[i] = eqes[j] => i = j
      BY <1>0 DEF EnvInv, OneAnswer
    <3>2. CASE ~eqUp
      BY <1>1, <3>1, <3>2
    <3>3. CASE eqUp
      <4>1. eqes \in Seq(Slots) /\ eqes' = Append(eqes, s)
        BY <1>0, <1>1, <3>3 DEF Typed
      <4>2. /\ DOMAIN eqes = 1 .. Len(eqes)  /\ DOMAIN eqes' = 1 .. Len(eqes) + 1
            /\ Len(eqes) \in Nat
            /\ \A i \in 1 .. Len(eqes) : eqes'[i] = eqes[i]
            /\ eqes'[Len(eqes) + 1] = s
        BY <4>1
      <4>3. \A i \in 1 .. Len(eqes) : eqes[i] # s
        BY <1>3, <4>2 DEF Reported
      <4>4. \A i \in 1 .. Len(eqes) + 1 : i \in 1 .. Len(eqes) \/ i = Len(eqes) + 1
        BY <4>2
      <4> QED BY <3>1, <4>2, <4>3, <4>4
    <3> QED BY <3>2, <3>3
  <2>2. \A t \in Slots : /\ fw'[t] # NoEnt => ~Reported(t)' /\ ~Asked(t)'
                         /\ Asked(t)' => ~Reported(t)'
    BY <1>0, <1>2, <1>3, <1>4 DEF EnvInv, OneAnswer
  <2> QED BY <2>1, <2>2 DEF OneAnswer
<1>13. Answers'
  BY <1>0, <1>1, <1>2, <1>5 DEF EnvInv, Answers
<1>14. Modes'
  <2>1. opcode_allowed
    BY <1>0, <1>8 DEF EnvInv, Modes
  <2>2. mode = "POLLING" => ~eqUp
    BY <1>0, <2>1 DEF EnvInv, Modes
  <2> QED BY <1>0, <1>1, <1>5, <2>2 DEF EnvInv, Modes, opcode_allowed
<1> QED BY <1>0, <1>9, <1>10, <1>11, <1>12, <1>13, <1>14, RefInvParts DEF EnvInv

LEMMA IrqTakeRef ==
    ASSUME Sane, FullInv, RefInv, Next, IrqTake
    PROVE  RefInv'
<1>0. /\ Typed  /\ EnvInv  /\ ~uaf'
  BY IsTyped, RefInvParts, UafStep
<1>a. PICK h : h = Head(eqes)
  OBVIOUS
<1>1. /\ eqes # << >>  /\ eqes' = Tail(eqes)  /\ comp[Irq].pc = "idle"
      /\ IF nbReg /\ devState # "INTERNAL_ERROR" THEN CallComp(Irq, h, "EVENT")
         ELSE comp' = comp
      /\ UNCHANGED <<refcnt, bitmask, idx, entArr, pending, ret, pollCmd, slotted, done, timer, hpc,
                     cpc, fheld, ftodo, fpc, mode, allowed, devState, offline, eqUp, nbReg, fw, phase>>
  BY <1>a DEF IrqTake
<1>2. /\ h \in Slots
      /\ \A t : Reported(t) <=> t = h \/ Reported(t)'
      /\ ~Reported(h)'
      /\ \A i, j \in DOMAIN eqes' : eqes'[i] = eqes'[j] => i = j
  <2>1. eqes \in Seq(Slots) /\ \A i, j \in DOMAIN eqes : eqes[i] = eqes[j] => i = j
    BY <1>0 DEF Typed, EnvInv, OneAnswer
  <2>2. /\ Head(eqes) \in Slots
        /\ \A t : (\E i \in DOMAIN eqes : eqes[i] = t)
                      <=> t = Head(eqes) \/ (\E i \in DOMAIN Tail(eqes) : Tail(eqes)[i] = t)
        /\ \A i \in DOMAIN Tail(eqes) : Tail(eqes)[i] # Head(eqes)
        /\ \A i, j \in DOMAIN Tail(eqes) : Tail(eqes)[i] = Tail(eqes)[j] => i = j
    BY <1>1, <2>1, TailElements
  <2> QED BY <1>1, <1>a, <2>2 DEF Reported
<1>3. Busy(h)
  BY <1>2 DEF Busy
<1>4. /\ opcode_allowed  /\ mode = "EVENTS"  /\ nbReg
  BY <1>0, <1>1, <1>2, <1>3 DEF EnvInv, Modes, FullInv, IndInv, TypeOK, TypeEnv
<1>5. devState \in {"UP", "INTERNAL_ERROR"} /\ (Timeouts => devState = "UP")
  BY Steady DEF FullInv, IndInv, TypeOK, TypeEnv
<1>6. \A t : ~Asked(t)
  BY <1>1 DEF Asked
<1>7. /\ \A f \in Ents : CompSame(f)
      /\ \A d \in Ctx : d # Irq => comp'[d] = comp[d]
      /\ devState = "UP" =>
             comp'[Irq] = [pc |-> "claim", slot |-> h, ent |-> NoEnt, type |-> "EVENT"]
      /\ devState # "UP" => comp' = comp
  <2>1. CASE devState = "UP"
    <3>1. CallComp(Irq, h, "EVENT") /\ Irq \in Ctx
      BY <1>1, <1>4, <2>1, Contexts
    <3> QED BY <1>1, <2>1, <3>1, CallFrame
  <2>2. CASE devState # "UP"
    <3>1. comp' = comp
      BY <1>1, <1>5, <2>2
    <3> QED BY <2>2, <3>1 DEF CompSame
  <2> QED BY <2>1, <2>2
<1>8. \A t : Asked(t)' <=> devState = "UP" /\ t = h
  BY <1>6, <1>7 DEF Asked
<1>9. \A t \in Slots : /\ Busy(t)' => Busy(t)
                       /\ Timeouts => (Busy(t)' <=> Busy(t))
  BY <1>1, <1>2, <1>5, <1>6, <1>8 DEF Busy
<1>10. /\ \A f \in Ents : Refs(f)' /\ EntInv(f)'
       /\ CompFlush'  /\ Held'  /\ Owned'
  BY <1>1, <1>2, <1>3, <1>7, <1>9, HwFrame
<1>11. CompIrq'
  <2>1. CASE devState = "UP"
    <3>1. /\ devState' = "UP"  /\ mode' = "EVENTS"  /\ opcode_allowed'  /\ h # NoIdx
      BY <1>0, <1>1, <1>2, <1>4, <2>1 DEF opcode_allowed, Typed
    <3> QED BY <1>7, <2>1, <3>1 DEF CompIrq
  <2>2. CASE devState # "UP"
    BY <1>1, <1>7, <2>2 DEF CompIrq
  <2> QED BY <2>1, <2>2
<1>12. CompEnt'
  <2>1. comp'[Irq].ent = NoEnt
    BY <1>0, <1>1, <1>7, Contexts DEF EnvInv, CompEnt
  <2> QED BY <1>0, <1>7, <2>1 DEF EnvInv, CompEnt
<1>13. OneAnswer'
  <2>1. \A t \in Slots : /\ fw'[t] # NoEnt => ~Reported(t)' /\ ~Asked(t)'
                         /\ Asked(t)' => ~Reported(t)'
    BY <1>0, <1>1, <1>2, <1>8 DEF EnvInv, OneAnswer
  <2> QED BY <1>2, <2>1 DEF OneAnswer
<1>14. Answers'
  BY <1>0, <1>1, <1>9 DEF EnvInv, Answers
<1>15. Modes'
  <2>1. mode' # "POLLING"
    BY <1>1, <1>4
  <2> QED BY <1>0, <1>1, <1>9, <2>1 DEF EnvInv, Modes, opcode_allowed
<1> QED BY <1>0, <1>10, <1>11, <1>12, <1>13, <1>14, <1>15, RefInvParts DEF EnvInv

-----------------------------------------------------------------------------
(* The steps of the device, of the flush and of the administrator leave    *)
(* the commands alone.                                                     *)
Quiescent ==
    UNCHANGED <<idx, entArr, pending, ret, pollCmd, slotted, done, timer, hpc, cpc, fw, eqes, mode,
                allowed>>

LEMMA EnvRest ==
    ASSUME EnvInv, Typed, SlotShape, Quiescent, UNCHANGED devState, comp'[Irq] = comp[Irq]
    PROVE  /\ CompIrq'  /\ OneAnswer'  /\ Answers'
           /\ UNCHANGED <<offline, eqUp, nbReg, phase>> => Modes'
           /\ \A s : Busy(s)' <=> Busy(s)
<1>1. \A s : /\ Reported(s)' <=> Reported(s)
             /\ Asked(s)' <=> Asked(s)
             /\ Busy(s)' <=> Busy(s)
  BY BusyFrame DEF Quiescent
<1>2. CompIrq'
  <2>2. PICK t, f : t = comp[Irq].slot /\ f = comp[Irq].ent
    OBVIOUS
  <2>3. Busy(t)' <=> Busy(t)
    BY <1>1
  <2> QED BY <2>2, <2>3 DEF EnvInv, CompIrq, opcode_allowed, Quiescent
<1>3. OneAnswer'
  BY <1>1 DEF EnvInv, OneAnswer, Quiescent
<1>4. Answers'
  BY <1>1 DEF EnvInv, Answers, Quiescent
<1>5. UNCHANGED <<offline, eqUp, nbReg, phase>> => Modes'
  BY <1>1 DEF EnvInv, Modes, opcode_allowed, Quiescent
<1> QED BY <1>1, <1>2, <1>3, <1>4, <1>5

LEMMA EntRest ==
    ASSUME Sane, FullInv, RefInv, Next, Quiescent, UNCHANGED <<devState, offline>>,
           \A d \in Ctx : d # Flush => comp'[d] = comp[d],
           NEW f \in Ents, CompSame(f)
    PROVE  /\ EntInv(f)'
           /\ refcnt'[f] = refcnt[f] /\ (FlushRef(f)' <=> FlushRef(f)) => Refs(f)'
           /\ refcnt'[f] = refcnt[f] + 1 /\ ~FlushRef(f) /\ FlushRef(f)' => Refs(f)'
           /\ refcnt'[f] = refcnt[f] - 1 /\ FlushRef(f) /\ ~FlushRef(f)' => Refs(f)'
<1>0. Typed /\ Refs(f) /\ EntInv(f) /\ refcnt[f] \in Nat
  BY IsTyped, RefInvParts DEF Typed
<1>1. Under(f)' <=> Under(f)
  BY UnderSame DEF Quiescent
<1>2. BaseRef(f)' <=> BaseRef(f)
  BY <1>1, BaseFrame DEF Quiescent
<1>3. comp'[Irq] = comp[Irq]
  BY Contexts
<1>4. RealRef(f)' <=> RealRef(f)
  BY <1>3, RealFrame DEF Quiescent
<1>5. \A s : Busy(s)' <=> Busy(s)
  BY <1>3, BusyFrame DEF Quiescent
<1>6. /\ comp'[Work(f)] = comp[Work(f)]  /\ comp'[Wait(f)] = comp[Wait(f)]
      /\ comp'[Tmo(f)] = comp[Tmo(f)]
  BY Contexts
<1>7. EntInv(f)'
  BY <1>0, <1>1, <1>5, <1>6, EntFrame DEF Quiescent
<1>8. TimerRef(f)' <=> TimerRef(f)
  BY DEF TimerRef, Quiescent
<1>9. refcnt'[f] = refcnt[f] /\ (FlushRef(f)' <=> FlushRef(f)) => Refs(f)'
  BY <1>0, <1>2, <1>4, <1>8 DEF Refs, One
<1>10. refcnt'[f] = refcnt[f] + 1 /\ ~FlushRef(f) /\ FlushRef(f)' => Refs(f)'
  BY <1>0, <1>2, <1>4, <1>8 DEF Refs, One
<1>11. refcnt'[f] = refcnt[f] - 1 /\ FlushRef(f) /\ ~FlushRef(f)' => Refs(f)'
  BY <1>0, <1>2, <1>4, <1>8 DEF Refs, One
<1> QED BY <1>7, <1>9, <1>10, <1>11

(* The permits of the flush and of the administrator.                      *)
LEMMA PermitRef ==
    ASSUME Sane, FullInv, RefInv, Next, FlushTry \/ FlushUnlock \/ AdminDown
    PROVE  RefInv'
<1>0. /\ Typed  /\ EnvInv  /\ Owned  /\ SlotShape  /\ ~uaf'
  BY IsTyped, RefInvParts, UafStep DEF FullInv, IndInv
<1>1. /\ Quiescent  /\ UNCHANGED <<devState, offline, eqUp, nbReg, phase, comp, refcnt, bitmask,
                                   ftodo, fheld>>
      /\ fpc' = fpc \/ (/\ fpc \in {"start", "try", "unlock"}
                        /\ fpc' \in {"try", "unlock", "trigger", "done"})
  BY DEF FlushTry, FlushUnlock, AdminDown, Quiescent
<1>2. ASSUME NEW f \in Ents
      PROVE  Refs(f)' /\ EntInv(f)'
  <2>1. CompSame(f) /\ refcnt'[f] = refcnt[f]
    BY <1>1 DEF CompSame
  <2>2. FlushRef(f)' <=> FlushRef(f)
    BY <1>1, FlushFrame DEF Quiescent
  <2> QED BY <1>1, <2>1, <2>2, EntRest
<1>3. CompIrq' /\ OneAnswer' /\ Answers' /\ Modes'
  BY <1>0, <1>1, EnvRest
<1>4. Held'
  BY <1>0, <1>1 DEF EnvInv, Held, Armed, Quiescent
<1>5. CompFlush' /\ CompEnt'
  BY <1>0, <1>1 DEF EnvInv, CompFlush, CompEnt, Quiescent
<1>6. Owned'
  BY <1>0, <1>1, OwnedFrame DEF Quiescent
<1> QED BY <1>0, <1>2, <1>3, <1>4, <1>5, <1>6, RefInvParts DEF EnvInv

(* The flush calls mlx5_cmd_comp_handler() for its slots.                  *)
LEMMA FlushCompRef ==
    ASSUME Sane, FullInv, RefInv, Next, FlushComp
    PROVE  RefInv'
<1>0. /\ Typed  /\ EnvInv  /\ Owned  /\ SlotShape  /\ ~uaf'
  BY IsTyped, RefInvParts, UafStep DEF FullInv, IndInv
<1>a. PICK t : t = Lowest(ftodo)
  OBVIOUS
<1>1. /\ Quiescent  /\ UNCHANGED <<devState, offline, eqUp, nbReg, phase, refcnt, bitmask, fheld>>
      /\ fpc = "comp"  /\ comp[Flush].pc = "idle"
      /\ IF ftodo # {} THEN /\ CallComp(Flush, t, "FORCED")  /\ ftodo' = ftodo \ {t}
                            /\ fpc' = fpc
                       ELSE fpc' = "put" /\ UNCHANGED <<comp, ftodo>>
  BY <1>a DEF FlushComp, Quiescent
<1>2. /\ \A f \in Ents : CompSame(f)
      /\ \A d \in Ctx : d # Flush => comp'[d] = comp[d]
      /\ ftodo = {} => comp' = comp
      /\ ftodo # {} =>
            comp'[Flush] = [pc |-> "claim", slot |-> t, ent |-> NoEnt, type |-> "FORCED"]
  <2>1. CASE ftodo # {}
    BY <1>1, <2>1, CallFrame, Contexts
  <2>2. CASE ftodo = {}
    BY <1>1, <2>2 DEF CompSame
  <2> QED BY <2>1, <2>2
<1>3. ASSUME NEW f \in Ents
      PROVE  Refs(f)' /\ EntInv(f)'
  <2>1. CompSame(f) /\ refcnt'[f] = refcnt[f]
    BY <1>1, <1>2
  <2>2. FlushRef(f)' <=> FlushRef(f)
    BY <1>1, FlushFrame DEF Quiescent
  <2> QED BY <1>1, <1>2, <2>1, <2>2, EntRest
<1>4. CompIrq' /\ OneAnswer' /\ Answers' /\ Modes'
  <2>1. comp'[Irq] = comp[Irq]
    BY <1>2, Contexts
  <2> QED BY <1>0, <1>1, <2>1, EnvRest
<1>5. ftodo # {} => t \in fheld
  <2>1. ftodo # {} => t \in ftodo
    BY <1>0, <1>a, LowestIn DEF Typed
  <2> QED BY <1>0, <2>1 DEF EnvInv, Held
<1>6. devState # "UP"
  BY <1>0, <1>1 DEF EnvInv, Held
<1>7. Held'
  BY <1>0, <1>1, <1>6 DEF EnvInv, Held, Armed, Quiescent
<1>8. CompFlush'
  <2>1. CASE ftodo # {}
    BY <1>1, <1>2, <1>5, <1>6, <2>1 DEF CompFlush
  <2>2. CASE ftodo = {}
    BY <1>1, <1>2, <2>2 DEF CompFlush
  <2> QED BY <2>1, <2>2
<1>9. CompEnt'
  <2>1. comp'[Flush].ent = NoEnt
    BY <1>0, <1>1, <1>2, Contexts DEF EnvInv, CompEnt
  <2> QED BY <1>0, <1>2, <2>1 DEF EnvInv, CompEnt
<1>10. Owned'
  BY <1>0, <1>1, OwnedFrame DEF Quiescent
<1> QED BY <1>0, <1>3, <1>4, <1>7, <1>8, <1>9, <1>10, RefInvParts DEF EnvInv

(* Then it drops the references it took.                                   *)
LEMMA FlushPutRef ==
    ASSUME Sane, FullInv, RefInv, Next, FlushPut
    PROVE  RefInv'
<1>0. /\ Typed  /\ EnvInv  /\ Owned  /\ SlotShape  /\ ~uaf'
  BY IsTyped, RefInvParts, UafStep DEF FullInv, IndInv
<1>a. PICK t : t = Lowest(fheld)
  OBVIOUS
<1>b. PICK e : e = entArr[t]
  OBVIOUS
<1>1. /\ Quiescent  /\ UNCHANGED <<devState, offline, eqUp, nbReg, phase, comp, ftodo>>
      /\ fpc = "put"  /\ fheld # {}  /\ cmd_ent_put(e)  /\ fheld' = fheld \ {t}
      /\ fpc' = IF fheld = {t} THEN "try" ELSE "put"
  BY <1>a, <1>b DEF FlushPut, Quiescent
<1>2. t \in fheld /\ t \in Slots /\ e \in Ents /\ idx[e] = t /\ refcnt[e] > 0
  BY <1>0, <1>1, <1>a, <1>b, FlushAlive DEF Typed
<1>3. /\ Owned'  /\ refcnt'[e] = refcnt[e] - 1  /\ \A f \in Ents : f # e => refcnt'[f] = refcnt[f]
  BY <1>0, <1>1, <1>2, OwnedPut DEF Quiescent
<1>4. FlushRef(e) /\ ~FlushRef(e)'
  BY <1>1, <1>2, <1>b DEF FlushRef, Quiescent
<1>5. \A f \in Ents : f # e => (FlushRef(f)' <=> FlushRef(f))
  BY <1>1, <1>2, <1>b DEF FlushRef, Quiescent
<1>6. ASSUME NEW f \in Ents
      PROVE  Refs(f)' /\ EntInv(f)'
  <2>1. CompSame(f)
    BY <1>1 DEF CompSame
  <2>2. CASE f = e
    BY <1>1, <1>3, <1>4, <2>1, <2>2, EntRest
  <2>3. CASE f # e
    BY <1>1, <1>3, <1>5, <2>1, <2>3, EntRest
  <2> QED BY <2>2, <2>3
<1>7. CompIrq' /\ OneAnswer' /\ Answers' /\ Modes'
  BY <1>0, <1>1, EnvRest
<1>8. Held'
  BY <1>0, <1>1 DEF EnvInv, Held, Armed, Quiescent
<1>9. CompFlush' /\ CompEnt'
  BY <1>0, <1>1 DEF EnvInv, CompFlush, CompEnt
<1> QED BY <1>0, <1>3, <1>6, <1>7, <1>8, <1>9, RefInvParts DEF EnvInv

(* It takes a reference on every entry that has a slot: on one CPU all of  *)
(* them are armed.                                                         *)
LEMMA FlushTriggerRef ==
    ASSUME Sane, FullInv, RefInv, Next, FlushTrigger
    PROVE  RefInv'
<1>0. /\ Typed  /\ EnvInv  /\ Owned  /\ SlotShape  /\ ~uaf'
  BY IsTyped, RefInvParts, UafStep DEF FullInv, IndInv
<1> DEFINE hit(e) == \E s \in Slots \ bitmask : entArr[s] = e
<1>1. /\ Quiescent  /\ UNCHANGED <<devState, offline, eqUp, nbReg, phase, comp, bitmask>>
      /\ fpc = "trigger"  /\ Cpu(Flush)
      /\ ftodo' = Slots \ bitmask  /\ fheld' = Slots \ bitmask
      /\ fpc' = IF Slots \ bitmask = {} THEN "try" ELSE "comp"
      /\ refcnt' = [e \in Ents |-> IF hit(e) THEN cmd_ent_get(e, 1) ELSE refcnt[e]]
  BY DEF FlushTrigger, Quiescent
<1>2. devState # "UP" /\ Errors /\ ~Smp /\ fheld = {}
  <2>1. devState # "UP" /\ fheld = {}
    BY <1>0, <1>1 DEF EnvInv, Held
  <2>2. Errors
    BY <1>0, <2>1 DEF EnvInv, Modes
  <2> QED BY <2>1, <2>2, Steady
<1>3. \A e \in Ents : hpc[e] \notin {"slotErr", "slotted", "armed"}
  <2>1. Flush # Irq /\ \A e \in Ents : Work(e) # Flush
    BY Contexts
  <2> QED BY <1>1, <1>2, <2>1, CpuAlone
<1>4. comp[Flush].pc = "idle"
  BY <1>0, <1>1 DEF EnvInv, CompFlush
<1>5. ASSUME NEW s \in Slots \ bitmask
      PROVE  /\ entArr[s] \in Ents  /\ idx[entArr[s]] = s  /\ refcnt[entArr[s]] > 0
             /\ Armed(entArr[s])
  <2>1. /\ entArr[s] \in Ents  /\ idx[entArr[s]] = s  /\ refcnt[entArr[s]] > 0
    BY <1>0, <1>5 DEF Owned
  <2>2. idx[entArr[s]] # NoIdx
    BY <1>0, <1>5, <2>1 DEF Typed
  <2>3. hpc[entArr[s]] \notin {"none", "wantSem", "gotSem", "slotErr"}
    BY <2>1, <2>2 DEF FullInv, IndInv, EntryShape
  <2>4. hpc[entArr[s]] \in HandlerPcs /\ hpc[entArr[s]] # "slotted"
    BY <1>0, <1>3, <2>1 DEF Typed
  <2> QED BY <2>1, <2>3, <2>4 DEF Armed, HandlerPcs
<1>6. ASSUME NEW f \in Ents
      PROVE  /\ ~FlushRef(f)
             /\ FlushRef(f)' <=> hit(f)
             /\ refcnt'[f] = IF hit(f) THEN refcnt[f] + 1 ELSE refcnt[f]
  <2>1. ~FlushRef(f)
    BY <1>2 DEF FlushRef
  <2>2. FlushRef(f)' <=> hit(f)
    BY <1>1, <1>5 DEF FlushRef, Quiescent
  <2>3. refcnt'[f] = IF hit(f) THEN cmd_ent_get(f, 1) ELSE refcnt[f]
    BY <1>1
  <2>4. hit(f) => refcnt[f] > 0
    BY <1>5
  <2>5. hit(f) => cmd_ent_get(f, 1) = refcnt[f] + 1
    BY <1>0, <2>4 DEF cmd_ent_get, Typed
  <2> QED BY <2>1, <2>2, <2>3, <2>5
<1>7. ASSUME NEW f \in Ents
      PROVE  Refs(f)' /\ EntInv(f)'
  <2>1. CompSame(f)
    BY <1>1 DEF CompSame
  <2>2. CASE hit(f)
    BY <1>1, <1>6, <2>1, <2>2, EntRest
  <2>3. CASE ~hit(f)
    BY <1>1, <1>6, <2>1, <2>3, EntRest
  <2> QED BY <2>2, <2>3
<1>8. CompIrq' /\ OneAnswer' /\ Answers' /\ Modes'
  BY <1>0, <1>1, EnvRest
<1>9. Held'
  <2>1. \A s \in fheld' : entArr'[s] \in Ents /\ idx'[entArr'[s]] = s /\ Armed(entArr[s])'
    BY <1>1, <1>5 DEF Quiescent, Armed
  <2> QED BY <1>1, <1>2, <2>1 DEF Held
<1>10. CompFlush' /\ CompEnt'
  BY <1>0, <1>1, <1>4 DEF EnvInv, CompFlush, CompEnt
<1>11. Owned'
  <2>1. \A f \in Ents : refcnt[f] > 0 => refcnt'[f] > 0
    <3>1. \A f \in Ents : refcnt[f] \in Nat
      BY <1>0 DEF Typed
    <3>2. \A f \in Ents : refcnt'[f] = IF hit(f) THEN refcnt[f] + 1 ELSE refcnt[f]
      BY <1>6
    <3> QED BY <3>1, <3>2
  <2> QED BY <1>0, <1>1, <2>1, OwnedFrame DEF Quiescent
<1> QED BY <1>0, <1>7, <1>8, <1>9, <1>10, <1>11, RefInvParts DEF EnvInv

(* The PCI channel goes offline: the completions under way drop the        *)
(* reference of the real completion as before.                             *)
LEMMA PciOfflineRef ==
    ASSUME Sane, FullInv, RefInv, Next, PciOffline
    PROVE  RefInv'
<1>0. /\ Typed  /\ EnvInv  /\ Owned  /\ ~uaf'  /\ \A f \in Ents : Refs(f) /\ EntInv(f)
  BY IsTyped, RefInvParts, UafStep
<1>1. /\ Quiescent  /\ UNCHANGED <<devState, eqUp, nbReg, phase, comp, refcnt, bitmask, ftodo, fheld,
                                   fpc>>
      /\ offline'  /\ "offline" \in Faults
  BY DEF PciOffline, Quiescent
<1>2. ~Timeouts /\ Dropped'
  BY <1>1 DEF Sane, Dropped, mlx5_cmd_is_down
<1>3. \A s : /\ Reported(s)' <=> Reported(s)
             /\ Asked(s)' <=> Asked(s)
             /\ Busy(s)' <=> Busy(s)
  BY <1>1, BusyFrame DEF Quiescent
<1>4. ASSUME NEW f \in Ents
      PROVE  Refs(f)' /\ EntInv(f)'
  <2>1. CompSame(f)
    BY <1>1 DEF CompSame
  <2>2. Under(f)' <=> Under(f)
    BY <1>1, <2>1, UnderSame DEF Quiescent
  <2>3. BaseRef(f)' <=> BaseRef(f)
    BY <1>1, <2>2, BaseFrame DEF Quiescent
  <2>4. FlushRef(f)' <=> FlushRef(f)
    BY <1>1, FlushFrame DEF Quiescent
  <2>5. \A c \in Ctx : comp[c].pc # "idle" => comp[c].type # "FORCED" \/ Dropped
    BY <1>2, CompKinds
  <2>6. Putting(f)' <=> Putting(f)
    BY <1>1, <1>2, <2>5 DEF Putting
  <2>7. RealRef(f)' <=> RealRef(f)
    BY <1>1, <1>2, <2>6 DEF RealRef, Quiescent
  <2>8. Refs(f)'
    BY <1>0, <1>1, <2>3, <2>4, <2>7, RefsFrame DEF Quiescent
  <2>9. Waits(f)'
    BY <1>0, <1>1, <2>2 DEF EntInv, Waits, Quiescent
  <2>10. Places(f)'
    BY <1>0, <1>1, <1>2 DEF EntInv, Places, Armed, opcode_allowed, Quiescent
  <2>11. CompWork(f)'
    BY <1>0, <1>1, <1>2 DEF EntInv, CompWork, Quiescent
  <2>12. CompWait(f)' /\ CompTmo(f)'
    BY <1>0, <1>1 DEF EntInv, CompWait, CompTmo, Quiescent
  <2> QED BY <2>8, <2>9, <2>10, <2>11, <2>12 DEF EntInv
<1>5. CompIrq'
  <2>1. PICK t, f : t = comp[Irq].slot /\ f = comp[Irq].ent
    OBVIOUS
  <2>2. Busy(t)' <=> Busy(t)
    BY <1>3
  <2> QED BY <1>0, <1>1, <2>1, <2>2 DEF EnvInv, CompIrq, opcode_allowed, Quiescent
<1>6. CompFlush' /\ Held' /\ CompEnt'
  BY <1>0, <1>1 DEF EnvInv, CompFlush, Held, CompEnt, Armed, Quiescent
<1>7. OneAnswer'
  BY <1>0, <1>1, <1>3 DEF EnvInv, OneAnswer, Quiescent
<1>8. Answers'
  BY <1>0, <1>1, <1>3 DEF EnvInv, Answers, Quiescent
<1>9. Modes'
  BY <1>0, <1>1, <1>3 DEF EnvInv, Modes, opcode_allowed, Quiescent
<1>10. Owned'
  BY <1>0, <1>1, OwnedFrame DEF Quiescent
<1> QED BY <1>0, <1>4, <1>5, <1>6, <1>7, <1>8, <1>9, <1>10, RefInvParts DEF EnvInv

(* The device enters the error state, on one CPU, while no completion is   *)
(* under way.                                                              *)
LEMMA DevErrorRef ==
    ASSUME Sane, FullInv, RefInv, Next, DevError
    PROVE  RefInv'
<1>0. /\ Typed  /\ EnvInv  /\ Owned  /\ ~uaf'  /\ \A f \in Ents : Refs(f) /\ EntInv(f)
  BY IsTyped, RefInvParts, UafStep
<1>1. /\ Quiescent  /\ UNCHANGED <<offline, eqUp, nbReg, phase, comp, refcnt, bitmask, ftodo, fheld>>
      /\ fpc' = "start"  /\ devState = "UP"  /\ devState' = "INTERNAL_ERROR"
      /\ Errors  /\ Cpu(Other)
  BY DEF DevError, Quiescent, Errors
<1>2. ~Timeouts /\ ~Smp
  BY <1>1, Steady DEF Sane, Errors
<1>3. \A c \in Ctx : comp[c].pc = "idle"
  <2>1. Other # Irq /\ Other \notin Ctx
    BY Contexts
  <2> QED BY <1>1, <1>2, <2>1, CpuAlone
<1>4. fheld = {} /\ ftodo = {}
  BY <1>0, <1>1 DEF EnvInv, Held
<1>5. \A s : /\ Reported(s)' <=> Reported(s)
             /\ Asked(s)' <=> Asked(s)
             /\ Busy(s)' <=> Busy(s)
  BY <1>1, BusyFrame DEF Quiescent
<1>6. ASSUME NEW f \in Ents
      PROVE  Refs(f)' /\ EntInv(f)'
  <2>1. CompSame(f)
    BY <1>1 DEF CompSame
  <2>2. Under(f)' <=> Under(f)
    BY <1>1, <2>1, UnderSame DEF Quiescent
  <2>3. BaseRef(f)' <=> BaseRef(f)
    BY <1>1, <2>2, BaseFrame DEF Quiescent
  <2>4. FlushRef(f)' <=> FlushRef(f)
    BY <1>1, FlushFrame DEF Quiescent
  <2>5. ~Putting(f) /\ ~Putting(f)'
    BY <1>1, <1>3 DEF Putting
  <2>6. RealRef(f)' <=> RealRef(f)
    BY <1>1, <1>2, <2>5 DEF RealRef, Quiescent
  <2>7. Refs(f)'
    BY <1>0, <1>1, <2>3, <2>4, <2>6, RefsFrame DEF Quiescent
  <2>8. Waits(f)'
    BY <1>0, <1>1, <2>2 DEF EntInv, Waits, Quiescent
  <2>9. Places(f)'
    BY <1>0, <1>1, <1>2 DEF EntInv, Places, Armed, opcode_allowed, Quiescent
  <2>10. CompWork(f)' /\ CompWait(f)' /\ CompTmo(f)'
    BY <1>1, <1>3, Contexts DEF CompWork, CompWait, CompTmo
  <2> QED BY <2>7, <2>8, <2>9, <2>10 DEF EntInv
<1>7. CompIrq' /\ CompFlush'
  BY <1>1, <1>3, Contexts DEF CompIrq, CompFlush
<1>8. Held' /\ CompEnt'
  BY <1>0, <1>1, <1>4 DEF EnvInv, Held, CompEnt
<1>9. OneAnswer'
  BY <1>0, <1>1, <1>5 DEF EnvInv, OneAnswer, Quiescent
<1>10. Answers'
  BY <1>1 DEF Answers
<1>11. Modes'
  BY <1>0, <1>1, <1>5 DEF EnvInv, Modes, opcode_allowed, Quiescent
<1>12. Owned'
  BY <1>0, <1>1, OwnedFrame DEF Quiescent
<1> QED BY <1>0, <1>6, <1>7, <1>8, <1>9, <1>10, <1>11, <1>12, RefInvParts DEF EnvInv

(* With every permit taken no command has a slot: nothing is under way on  *)
(* a slot.                                                                 *)
LEMMA DrainedIdle ==
    ASSUME Sane, FullInv, RefInv, Reconfig, got = MaxReg + 1
    PROVE  /\ ~Timeouts  /\ devState = "UP"
           /\ \A e \in Ents : refcnt[e] > 0 => idx[e] = NoIdx
           /\ \A e \in Ents : hpc[e] \notin {"armed", "poll"}
           /\ \A c \in Ctx : comp[c].pc = "idle"
           /\ \A s \in Slots : ~Busy(s)
           /\ eqes = << >>
<1>0. Typed /\ ~uaf /\ EnvInv /\ \A e \in Ents : Refs(e) /\ EntInv(e)
  BY IsTyped, RefInvParts
<1>1. ~Timeouts /\ ~Errors /\ devState = "UP"
  BY <1>0 DEF Sane, EnvInv, Modes
<1>2. bitmask = Slots
  BY <1>0, AllDrained
<1>3. \A e \in Ents : refcnt[e] > 0 => idx[e] = NoIdx
  <2>1. \A e \in Ents : idx[e] \in Slots \cup {NoIdx}
    BY <1>0 DEF Typed
  <2> QED BY <1>2, <2>1 DEF FullInv, IndInv, SlotExclusive
<1>4. \A e \in Ents : pending[e] => refcnt[e] > 0
  BY Alive DEF RealRef
<1>5. \A e \in Ents : hpc[e] \notin {"armed", "poll"}
  BY <1>0, <1>3, <1>4 DEF EntInv, Places, FullInv, IndInv, EntryShape
<1>6. \A s \in Slots : ~Busy(s)
  <2>1. SUFFICES ASSUME NEW s \in Slots, Busy(s)
                 PROVE  FALSE
    OBVIOUS
  <2>2. entArr[s] \in Ents /\ idx[entArr[s]] = s /\ pending[entArr[s]]
    BY <1>0, <1>1, <2>1 DEF EnvInv, Answers
  <2>3. idx[entArr[s]] = NoIdx
    BY <1>3, <1>4, <2>2
  <2> QED BY <1>0, <2>1, <2>2, <2>3 DEF Typed
<1>7. ASSUME NEW c \in Ctx, comp[c].pc # "idle"
      PROVE  FALSE
  <2>1. ASSUME NEW e \in Ents, c \in {Wait(e), Tmo(e)}
        PROVE  FALSE
    BY <1>0, <1>1, <1>7, <2>1 DEF EntInv, CompWait, CompTmo
  <2>2. c # Flush
    BY <1>0, <1>1, <1>7 DEF EnvInv, CompFlush
  <2>3. comp[c].pc \in PastPcs => comp[c].ent \in Ents /\ refcnt[comp[c].ent] > 0
    BY CompAlive DEF PastPcs
  <2>4. ASSUME NEW e \in Ents, c = Work(e)
        PROVE  FALSE
    <3>1. /\ idx[e] # NoIdx  /\ comp[c].pc \in {"claim"} \cup PastPcs
          /\ IF comp[c].pc = "claim" THEN pending[e] ELSE comp[c].ent = e
      BY <1>0, <1>7, <2>4 DEF EntInv, CompWork
    <3>2. CASE comp[c].pc = "claim"
      BY <1>3, <1>4, <3>1, <3>2
    <3>3. CASE comp[c].pc # "claim"
      BY <1>3, <2>3, <3>1, <3>3
    <3> QED BY <3>2, <3>3
  <2>5. c # Irq
    <3>1. SUFFICES ASSUME c = Irq
                   PROVE  FALSE
      OBVIOUS
    <3>2. /\ comp[c].slot # NoIdx  /\ comp[c].pc \in {"claim", "lateput"} \cup PastPcs
          /\ comp[c].pc # "lateput"
          /\ comp[c].pc # "claim" => comp[c].slot = idx[comp[c].ent]
      BY <1>0, <1>1, <1>7, <3>1 DEF EnvInv, CompIrq
    <3>3. CASE comp[c].pc = "claim"
      <4>1. comp[c].slot \in Slots
        BY <1>0, <3>2 DEF Typed
      <4>2. Busy(comp[c].slot)
        BY <3>1, <3>3 DEF Busy, Asked
      <4> QED BY <1>6, <4>1, <4>2
    <3>4. CASE comp[c].pc # "claim"
      BY <1>3, <2>3, <3>2, <3>4
    <3> QED BY <3>3, <3>4
  <2> QED BY <2>1, <2>2, <2>4, <2>5, Contexts
<1>8. eqes = << >>
  <2>1. SUFFICES ASSUME eqes # << >>
                 PROVE  FALSE
    OBVIOUS
  <2>2. eqes \in Seq(Slots)
    BY <1>0 DEF Typed
  <2>3. Head(eqes) \in Slots /\ \E i \in DOMAIN eqes : eqes[i] = Head(eqes)
    BY <2>1, <2>2, TailElements
  <2> QED BY <1>6, <2>3 DEF Busy, Reported
<1> QED BY <1>1, <1>3, <1>5, <1>6, <1>7, <1>8

(* So the mode and the opcodes change under no command.                    *)
LEMMA AdminApplyRef ==
    ASSUME Sane, FullInv, RefInv, Next, AdminApply
    PROVE  RefInv'
<1>0. /\ Typed  /\ EnvInv  /\ Owned  /\ ~uaf'  /\ \A f \in Ents : Refs(f) /\ EntInv(f)
  BY IsTyped, RefInvParts, UafStep
<1>1. /\ UNCHANGED <<idx, entArr, pending, ret, pollCmd, slotted, done, timer, hpc, cpc, fw, eqes>>
      /\ UNCHANGED <<devState, offline, eqUp, nbReg, comp, refcnt, bitmask, ftodo, fheld, fpc>>
      /\ phase \in Locked  /\ got = MaxReg + 1  /\ phase' = NextPhase[phase]
      /\ mode' = CASE phase = "events"  -> "EVENTS"
                   [] phase = "polling" -> "POLLING"
                   [] OTHER             -> mode
      /\ allowed' = CASE phase \in {"allowCreate", "allowDestroy"} -> "EQ"
                      [] phase \in {"allowAll", "allowBoot"}       -> "ALL"
                      [] OTHER                                     -> allowed
  BY DEF AdminApply
<1>2. Reconfig
  BY <1>0, <1>1 DEF EnvInv, Modes, Locked
<1>3. /\ ~Timeouts  /\ devState = "UP"
      /\ \A e \in Ents : hpc[e] \notin {"armed", "poll"}
      /\ \A c \in Ctx : comp[c].pc = "idle"
      /\ \A s \in Slots : ~Busy(s)
      /\ eqes = << >>
  BY <1>1, <1>2, DrainedIdle
<1>4. \A s : /\ Reported(s)' <=> Reported(s)
             /\ Asked(s)' <=> Asked(s)
             /\ Busy(s)' <=> Busy(s)
  BY <1>1, BusyFrame
<1>5. ASSUME NEW f \in Ents
      PROVE  Refs(f)' /\ EntInv(f)'
  <2>1. CompSame(f)
    BY <1>1 DEF CompSame
  <2>2. Under(f)' <=> Under(f)
    BY <1>1, <2>1, UnderSame
  <2>3. BaseRef(f)' <=> BaseRef(f)
    BY <1>1, <2>2, BaseFrame
  <2>4. FlushRef(f)' <=> FlushRef(f)
    BY <1>1, FlushFrame
  <2>5. ~Putting(f) /\ ~Putting(f)'
    BY <1>1, <1>3 DEF Putting
  <2>6. RealRef(f)' <=> RealRef(f)
    BY <1>1, <1>3, <2>5 DEF RealRef
  <2>7. Refs(f)'
    BY <1>0, <1>1, <2>3, <2>4, <2>6, RefsFrame
  <2>8. Waits(f)'
    BY <1>0, <1>1, <2>2 DEF EntInv, Waits
  <2>9. Places(f)'
    BY <1>0, <1>1, <1>3 DEF EntInv, Places, Armed
  <2>10. CompWork(f)' /\ CompWait(f)' /\ CompTmo(f)'
    BY <1>1, <1>3, Contexts DEF CompWork, CompWait, CompTmo
  <2> QED BY <2>7, <2>8, <2>9, <2>10 DEF EntInv
<1>6. CompIrq' /\ CompFlush'
  BY <1>1, <1>3, Contexts DEF CompIrq, CompFlush
<1>7. Held' /\ CompEnt'
  BY <1>0, <1>1 DEF EnvInv, Held, CompEnt, Armed
<1>8. OneAnswer'
  BY <1>0, <1>1, <1>4 DEF EnvInv, OneAnswer
<1>9. Answers'
  BY <1>3, <1>4 DEF Answers
<1>10. Modes'
  <2>1. Modes /\ eqes' = << >> /\ (\A s \in Slots : ~Busy(s)') /\ devState' = devState
        /\ offline' = offline /\ UNCHANGED <<eqUp, nbReg>>
    BY <1>0, <1>1, <1>3, <1>4 DEF EnvInv
  <2>2. CASE phase = "allowCreate"
    <3>1. phase' = "create" /\ mode' = mode /\ allowed' = "EQ"
      BY <1>1, <2>2 DEF NextPhase
    <3> QED BY <1>2, <2>1, <2>2, <3>1 DEF Modes, opcode_allowed
  <2>3. CASE phase = "events"
    <3>1. phase' = "allowAll" /\ mode' = "EVENTS" /\ allowed' = allowed
      BY <1>1, <2>3 DEF NextPhase
    <3> QED BY <1>2, <2>1, <2>3, <3>1 DEF Modes, opcode_allowed
  <2>4. CASE phase = "allowAll"
    <3>1. phase' = "running" /\ mode' = mode /\ allowed' = "ALL"
      BY <1>1, <2>4 DEF NextPhase
    <3> QED BY <1>2, <2>1, <2>4, <3>1 DEF Modes, opcode_allowed
  <2>5. CASE phase = "allowDestroy"
    <3>1. phase' = "polling" /\ mode' = mode /\ allowed' = "EQ"
      BY <1>1, <2>5 DEF NextPhase
    <3> QED BY <1>2, <2>1, <2>5, <3>1 DEF Modes, opcode_allowed
  <2>6. CASE phase = "polling"
    <3>1. phase' = "unregister" /\ mode' = "POLLING" /\ allowed' = allowed
      BY <1>1, <2>6 DEF NextPhase
    <3> QED BY <1>2, <2>1, <2>6, <3>1 DEF Modes, opcode_allowed
  <2>7. CASE phase = "allowBoot"
    <3>1. phase' = "off" /\ mode' = mode /\ allowed' = "ALL"
      BY <1>1, <2>7 DEF NextPhase
    <3> QED BY <1>2, <2>1, <2>7, <3>1 DEF Modes, opcode_allowed
  <2> QED BY <1>1, <2>2, <2>3, <2>4, <2>5, <2>6, <2>7 DEF Locked
<1>11. Owned'
  BY <1>0, <1>1, OwnedFrame
<1> QED BY <1>0, <1>5, <1>6, <1>7, <1>8, <1>9, <1>10, <1>11, RefInvParts DEF EnvInv

(* The steps between the switches.                                         *)
LEMMA AdminStepRef ==
    ASSUME Sane, FullInv, RefInv, Next, AdminStep
    PROVE  RefInv'
<1>0. /\ Typed  /\ EnvInv  /\ Owned  /\ SlotShape  /\ ~uaf'
  BY IsTyped, RefInvParts, UafStep DEF FullInv, IndInv
<1>1. /\ UNCHANGED <<idx, entArr, pending, ret, pollCmd, slotted, done, timer, hpc, cpc, fw, mode,
                     allowed>>
      /\ UNCHANGED <<devState, offline, comp, refcnt, bitmask, ftodo, fheld, fpc>>
      /\ Reconfig
  BY DEF AdminStep
<1>2. \/ /\ phase = "boot"  /\ phase' = "allowCreate"  /\ UNCHANGED <<eqUp, nbReg, eqes>>
      \/ /\ phase = "running"  /\ phase' = "allowDestroy"  /\ UNCHANGED <<eqUp, nbReg, eqes>>
      \/ /\ phase = "create"  /\ phase' = "events"  /\ eqUp'  /\ nbReg'  /\ UNCHANGED eqes
      \/ /\ phase = "unregister"  /\ phase' = "destroy"  /\ UNCHANGED <<eqUp, eqes>>
      \/ /\ phase = "destroy"  /\ phase' = "allowBoot"  /\ ~eqUp'  /\ eqes' = << >>
  BY DEF AdminStep, Sane
<1>3. eqes' = eqes
  BY <1>0, <1>2 DEF EnvInv, Modes
<1>4. Quiescent
  BY <1>1, <1>3 DEF Quiescent
<1>5. ASSUME NEW f \in Ents
      PROVE  Refs(f)' /\ EntInv(f)'
  <2>1. CompSame(f) /\ refcnt'[f] = refcnt[f]
    BY <1>1 DEF CompSame
  <2>2. FlushRef(f)' <=> FlushRef(f)
    BY <1>1, FlushFrame
  <2> QED BY <1>1, <1>4, <2>1, <2>2, EntRest
<1>6. /\ CompIrq'  /\ OneAnswer'  /\ Answers'
      /\ \A s : Busy(s)' <=> Busy(s)
  BY <1>0, <1>1, <1>4, EnvRest
<1>7. CompFlush' /\ Held' /\ CompEnt'
  BY <1>0, <1>1 DEF EnvInv, CompFlush, Held, CompEnt, Armed
<1>8. Modes'
  <2>1. Modes
    BY <1>0 DEF EnvInv
  <2> QED BY <1>1, <1>2, <1>3, <1>6, <2>1 DEF Modes, opcode_allowed
<1>9. Owned'
  BY <1>0, <1>1, OwnedFrame
<1> QED BY <1>0, <1>5, <1>6, <1>7, <1>8, <1>9, RefInvParts DEF EnvInv

-----------------------------------------------------------------------------
(* The invariant of the references.                                        *)
LEMMA RefInit ==
    ASSUME Init
    PROVE  RefInv
<1>1. /\ Irq \in Ctx  /\ Flush \in Ctx
      /\ \A e \in Ents : Work(e) \in Ctx /\ Wait(e) \in Ctx /\ Tmo(e) \in Ctx
  BY Contexts
<1>2. \A c \in Ctx : comp[c] = CompIdle
  BY DEF Init
<1>3. CompIdle.pc = "idle" /\ CompIdle.ent = NoEnt
  BY DEF CompIdle
<1>4. /\ eqes = << >>  /\ wq = << >>  /\ fheld = {}  /\ ftodo = {}  /\ bitmask = Slots
      /\ fpc = "idle"  /\ devState = "UP"  /\ allowed = "ALL"  /\ ~offline
      /\ \A s \in Slots : fw[s] = NoEnt
      /\ \A e \in Ents : /\ refcnt[e] = 0  /\ ~pending[e]  /\ ret[e] = "OK"  /\ ~done[e]
                         /\ ~slotted[e]  /\ timer[e] = "off"  /\ hpc[e] = "none"
                         /\ cpc[e] = "init"
  BY DEF Init
<1>5. /\ mode = (IF Reconfig THEN "POLLING" ELSE "EVENTS")
      /\ phase = (IF Reconfig THEN "boot" ELSE "running")
  BY DEF Init
<1>6. eqUp = ~Reconfig /\ nbReg = ~Reconfig /\ Reconfig \in BOOLEAN
  BY SwitchAssumption, Zenon DEF Init
<1>7. \A i \in DOMAIN eqes : FALSE
  BY <1>4
<1>8. \A s \in Slots : ~Busy(s) /\ ~Reported(s) /\ ~Asked(s)
  BY <1>1, <1>2, <1>3, <1>4, <1>7 DEF Busy, Reported, Asked
<1>9. ASSUME NEW e \in Ents
      PROVE  Refs(e) /\ EntInv(e)
  <2>1. \A i \in DOMAIN wq : FALSE
    BY <1>4
  <2>2. ~Under(e)
    BY <1>2, <1>3, <1>4, <2>1 DEF Under, Queued, Finishing, PastPcs
  <2>3. ~BaseRef(e)
    BY <1>4, <2>2 DEF BaseRef, Waiting, Start
  <2>4. ~TimerRef(e) /\ ~FlushRef(e)
    BY <1>4 DEF TimerRef, FlushRef
  <2>5. ~RealRef(e)
    BY <1>1, <1>2, <1>3, <1>4, <1>8 DEF RealRef, Putting, Due, Late
  <2>6. Refs(e)
    BY <1>4, <2>3, <2>4, <2>5 DEF Refs, One
  <2>7. Waits(e)
    BY <1>4, <2>2 DEF Waits
  <2>8. Places(e)
    BY <1>4 DEF Places
  <2>9. CompWork(e) /\ CompWait(e) /\ CompTmo(e)
    BY <1>1, <1>2, <1>3 DEF CompWork, CompWait, CompTmo
  <2> QED BY <2>6, <2>7, <2>8, <2>9 DEF EntInv
<1>10. CompIrq /\ CompFlush /\ CompEnt
  BY <1>1, <1>2, <1>3 DEF CompIrq, CompFlush, CompEnt
<1>11. Held /\ Owned
  BY <1>4 DEF Held, Owned
<1>12. OneAnswer /\ Answers
  BY <1>4, <1>7, <1>8 DEF OneAnswer, Answers
<1>13. Modes
  <2>1. CASE Reconfig
    BY <1>4, <1>5, <1>6, <1>8, <2>1 DEF Modes, opcode_allowed
  <2>2. CASE ~Reconfig
    BY <1>4, <1>5, <1>6, <1>8, <2>2 DEF Modes, opcode_allowed
  <2> QED BY <2>1, <2>2
<1>14. ~uaf
  BY Zenon DEF Init
<1> QED BY <1>9, <1>10, <1>11, <1>12, <1>13, <1>14, RefInvParts DEF EnvInv

LEMMA RefStep ==
    ASSUME Sane, FullInv, RefInv, [Next]_vars
    PROVE  RefInv'
<1>1. CASE Next
  <2>1. ASSUME NEW e \in Ents, CmdRefuse(e) \/ CmdExec(e) \/ CallerStep(e)
        PROVE  RefInv'
    BY <1>1, <2>1, CallerMoveRef, SubmitRef, CancelWorkRef, RewaitTimeoutRef, CmdReturnRef
       DEF CallerStep
  <2>2. ASSUME NEW e \in Ents, HandlerStep(e)
        PROVE  RefInv'
    BY <1>1, <2>2, WorkMoveRef, WorkDownTimeoutRef, WorkAllocRef, WorkArmRef, WorkSendRef, WorkPollRef
       DEF HandlerStep
  <2>3. ASSUME NEW e \in Ents, TimerStep(e)
        PROVE  RefInv'
    BY <1>1, <2>3, TimerRefs
  <2>4. ASSUME NEW c \in Ctx, CompStep(c)
        PROVE  RefInv'
    BY <1>1, <2>4, CompRef
  <2>5. ASSUME NEW s \in Slots, FwDone(s)
        PROVE  RefInv'
    BY <1>1, <2>5, FwDoneRef
  <2>6. CASE WorkStart
    <3>1. wq # << >>
      BY <2>6 DEF WorkStart
    <3>2. Head(wq) \in Ents
      BY <3>1, QueuedAlive
    <3> QED BY <1>1, <2>6, <3>2, WorkMoveRef
  <2>7. CASE IrqTake
    BY <1>1, <2>7, IrqTakeRef
  <2>8. CASE PciOffline \/ DevError
    BY <1>1, <2>8, PciOfflineRef, DevErrorRef
  <2>9. CASE FlushStep
    BY <1>1, <2>9, PermitRef, FlushTriggerRef, FlushCompRef, FlushPutRef DEF FlushStep
  <2>10. CASE AdminNext
    BY <1>1, <2>10, PermitRef, AdminApplyRef, AdminStepRef DEF AdminNext
  <2> QED BY <1>1, <2>1, <2>2, <2>3, <2>4, <2>5, <2>6, <2>7, <2>8, <2>9, <2>10 DEF Next
<1>2. CASE UNCHANGED vars
  <2>1. /\ UNCHANGED <<idx, entArr, pending, ret, pollCmd, slotted, done, timer, hpc, cpc, wq>>
        /\ UNCHANGED <<fw, eqes, mode, allowed, devState, offline, eqUp, nbReg, phase, comp>>
        /\ UNCHANGED <<refcnt, uaf, bitmask, fpc, ftodo, fheld>>
    BY <1>2 DEF vars
  <2>3. \A s : Busy(s)' <=> Busy(s)
    BY <2>1, BusyFrame
  <2>4. ASSUME NEW f \in Ents
        PROVE  Refs(f)' /\ EntInv(f)'
    <3>1. Refs(f) /\ EntInv(f)
      BY RefInvParts
    <3>2. CompSame(f)
      BY <2>1 DEF CompSame
    <3>3. Under(f)' <=> Under(f)
      BY <2>1 DEF Under, Queued, Finishing
    <3>4. BaseRef(f)' <=> BaseRef(f)
      BY <2>1, <3>3, BaseFrame
    <3>5. RealRef(f)' <=> RealRef(f)
      BY <2>1, <3>2, RealFrame
    <3>6. FlushRef(f)' <=> FlushRef(f)
      BY <2>1, FlushFrame
    <3>7. Refs(f)'
      BY <2>1, <3>1, <3>4, <3>5, <3>6, RefsFrame
    <3>8. EntInv(f)'
      BY <2>1, <2>3, <3>1, <3>3, EntFrame
    <3> QED BY <3>7, <3>8
  <2>5. EnvInv'
    <3>1. EnvInv /\ Typed /\ SlotShape
      BY IsTyped, RefInvParts DEF FullInv, IndInv
    <3>2. CompEnt'
      BY <2>1, <3>1 DEF EnvInv, CompEnt
    <3>3. \A f \in Ents : Armed(f) => Armed(f)'
      BY <2>1 DEF Armed
    <3> QED BY <2>1, <3>1, <3>2, <3>3, EnvFrame
  <2>6. ~uaf' /\ Owned'
    BY <2>1, RefInvParts, OwnedFrame
  <2> QED BY <2>4, <2>5, <2>6, RefInvParts
<1> QED BY <1>1, <1>2

(* Every reference count is the number of the contexts that will still     *)
(* touch the entry, with what that needs to be inductive.                  *)
THEOREM RefInvariance ==
    ASSUME Sane
    PROVE  Spec => []RefInv
<1>1. Init => RefInv
  BY RefInit
<1>2. FullInv /\ RefInv /\ [Next]_vars => RefInv'
  BY RefStep
<1> QED BY <1>1, <1>2, FullInvariance, PTL DEF Spec

(* cmd_ent_get() and cmd_ent_put() keep every entry alive for as long as   *)
(* its caller, the handler, the timeout, the interrupt or the flush uses   *)
(* it, for any number of commands and slots.                               *)
THEOREM EntriesStayAlive ==
    ASSUME Sane
    PROVE  Spec => []NoUseAfterFree
<1>1. RefInv => NoUseAfterFree
  BY DEF RefInv, NoUseAfterFree
<1> QED BY <1>1, RefInvariance, PTL

(* The slot of a command that the firmware of a working device still owns  *)
(* is not given back, also after the command timed out.                    *)
THEOREM FirmwareKeepsSlot ==
    ASSUME Sane
    PROVE  Spec => []FwOwnsSlot
<1>1. ASSUME FullInv, RefInv
      PROVE  FwOwnsSlot
  <2>1. SUFFICES ASSUME ~mlx5_cmd_is_down, NEW s \in Slots, fw[s] # NoEnt
                 PROVE  s \notin bitmask /\ entArr[s] = fw[s]
    BY DEF FwOwnsSlot
  <2>2. devState = "UP" /\ Busy(s)
    BY <1>1, <2>1 DEF mlx5_cmd_is_down, Busy, FullInv, IndInv, TypeOK, TypeEnv
  <2>3. /\ entArr[s] \in Ents  /\ idx[entArr[s]] = s  /\ fw[s] \in {NoEnt, entArr[s]}
        /\ Timeouts \/ pending[entArr[s]]
    BY <1>1, <2>2 DEF RefInv, Answers
  <2>4. PICK e \in Ents : e = entArr[s]
    BY <2>3
  <2>5. RealRef(e)
    BY <2>2, <2>3, <2>4 DEF RealRef, Due
  <2>6. s \notin bitmask
    BY <1>1, <2>3, <2>4, <2>5, Alive
  <2> QED BY <2>1, <2>3, <2>6
<1> QED BY <1>1, RefInvariance, FullInvariance, PTL

(* There a command is completed by one context also while the driver       *)
(* polls, before the event queues exist and after they are gone.           *)
THEOREM OneCompletionSane ==
    ASSUME Sane
    PROVE  Spec => []CompletedOnce
<1>1. FullInv /\ RefInv => CompletedOnce
  BY Unique
<1> QED BY <1>1, RefInvariance, FullInvariance, PTL

-----------------------------------------------------------------------------
(* The answers.                                                            *)

(* The caller or the callback was told.                                    *)
Told(e) == cpc[e] = "returned" /\ (Kind[e].callback => ~Under(e))

(* The firmware has never seen the command, and never will.                *)
Refused == {"EINVAL", "ENOMEM", "EBUSY", "EAGAIN", "ECANCELED"}
Dead(e) ==
    /\ idx[e] = NoIdx  /\ ~Queued(e)  /\ hpc[e] \in {"none", "slotErr", "exit"}
    /\ cpc[e] \notin Start

(* A completion, other than the flush, that will pass ent->ret on.         *)
Answering(e) == \E c \in Ctx \ {Flush} :
    /\ comp[c].pc \in {"claim"} \cup PastPcs  /\ Handled(c) = e

Sent(e) == idx[e] # NoIdx /\ hpc[e] \in {"poll", "comp", "exit"}

Told1(e) == nOut[e] = One(Told(e))
Honest(e) ==
    /\ outcome[e] = "OK" => e \in fwDone
    /\ ret[e] = "OK" /\ (done[e] \/ cpc[e] \in {"forced", "out"} \/ Answering(e)) => e \in fwDone
    /\ {outcome[e], ret[e]} \cap Refused # {} => Dead(e)
    /\ hpc[e] = "poll" => e \in fwDone \/ \E s \in Slots : idx[e] = s /\ fw[s] = e
Executes ==
    /\ \A s \in Slots, e \in Ents : fw[s] = e => Sent(e) /\ idx[e] = s /\ e \notin fwDone
    /\ \A e \in fwDone : Sent(e)
    /\ devState = "UP" => \A s \in Slots : Reported(s) => entArr[s] \in fwDone

SrvInv ==
    /\ \A e \in Ents : Told1(e) /\ Honest(e)
    /\ Executes

(* The permits, and that whoever is pending will be completed.             *)
Throttled == {e \in Ents : Kind[e].throttle /\ cpc[e] \notin {"init", "throttle", "returned"}}
Flushing == fpc \notin {"idle", "unlock", "done"}
Unanswered(e) ==
    /\ pending[e] => idx[e] # NoIdx
    /\ pending[e] /\ hpc[e] = "exit" =>
          IF devState = "UP" THEN \E s \in Slots : idx[e] = s /\ Busy(s) ELSE Flushing
ThrottleInv ==
    /\ throttleSem + Cardinality(Throttled) = ThrottleMax
    /\ \A e \in Ents :
          /\ Kind[e].throttle /\ Kind[e].callback => cpc[e] \in {"init", "returned"}
          /\ cpc[e] = "throttle" => Kind[e].throttle
PermitInv ==
    /\ fpc \in {"idle", "start", "done"} => fgot = 0
    /\ devState # "UP" => fpc # "idle"
    /\ pagesSem = 0 => got = MaxReg + 1 \/ fgot = MaxReg + 1 \/ \E e \in Ents : HoldsPages(e)
LeakInv ==
    /\ ThrottleInv  /\ PermitInv
    /\ \A e \in Ents : Unanswered(e)

(* Which steps change what.                                                *)
LEMMA WhoSteps ==
    ASSUME Next
    PROVE  /\ \/ UNCHANGED <<fw, fwDone>>
              \/ (\E e \in Ents : WorkSend(e)) \/ (\E s \in Slots : FwDone(s))
           /\ \/ UNCHANGED <<idx, entArr>>
              \/ \E e \in Ents : WorkAlloc(e)
           /\ \/ UNCHANGED eqes
              \/ (\E s \in Slots : FwDone(s)) \/ IrqTake \/ (AdminStep /\ eqes' = << >>)
           /\ devState' = devState \/ DevError
           /\ \/ UNCHANGED hpc
              \/ WorkStart \/ (\E e \in Ents : Submit(e) \/ HandlerStep(e))
           /\ \/ UNCHANGED cpc
              \/ \E e \in Ents : CmdRefuse(e) \/ CmdExec(e) \/ CallerStep(e)
           /\ \/ UNCHANGED wq
              \/ WorkStart \/ (\E e \in Ents : Submit(e) \/ CancelWork(e))
           /\ \/ UNCHANGED done
              \/ (\E e \in Ents : WorkDownTimeout(e) \/ WorkAlloc(e)) \/ (\E c \in Ctx : CompFinish(c))
           /\ \/ UNCHANGED ret
              \/ (\E e \in Ents : \/ CancelWork(e) \/ RewaitTimeout(e) \/ HandlerStep(e)
                                  \/ TimerRecover(e))
              \/ (\E c \in Ctx : CompFinish(c))
           /\ \/ UNCHANGED <<nOut, outcome>>
              \/ (\E e \in Ents : \/ CmdRefuse(e) \/ SubmitFails(e) \/ CmdReturn(e)
                                  \/ WorkDownTimeout(e) \/ WorkAlloc(e))
              \/ (\E c \in Ctx : CompFinish(c))
           /\ \/ UNCHANGED comp
              \/ (\E e \in Ents : \/ RewaitTimeout(e) \/ WorkSend(e) \/ WorkPoll(e)
                                  \/ TimerRecover(e))
              \/ (\E c \in Ctx : CompStep(c)) \/ IrqTake \/ FlushComp
<1>1. ASSUME NEW e \in Ents, CmdRefuse(e) \/ CmdExec(e) \/ CallerStep(e)
      PROVE  /\ UNCHANGED <<fw, fwDone, idx, entArr, eqes, devState, done>>
             /\ UNCHANGED hpc \/ Submit(e)
             /\ UNCHANGED wq \/ Submit(e) \/ CancelWork(e)
             /\ UNCHANGED ret \/ CancelWork(e) \/ RewaitTimeout(e)
             /\ UNCHANGED <<nOut, outcome>> \/ CmdRefuse(e) \/ SubmitFails(e) \/ CmdReturn(e)
             /\ UNCHANGED comp \/ RewaitTimeout(e)
  <2>1. CASE CmdRefuse(e) \/ CmdExec(e) \/ ThrottleDown(e) \/ SubmitFails(e) \/ WaitStep(e)
    BY <2>1 DEF CmdRefuse, CmdExec, ThrottleDown, SubmitFails, WaitStep
  <2>2. CASE Submit(e) \/ HandlingTimeout(e) \/ CancelWork(e) \/ ExecTimeout(e)
    BY <2>2 DEF Submit, HandlingTimeout, CancelWork, ExecTimeout
  <2>3. CASE Recover(e) \/ RewaitTimeout(e) \/ CmdReturn(e)
    BY <2>3 DEF Recover, RewaitTimeout, CmdReturn
  <2> QED BY <1>1, <2>1, <2>2, <2>3 DEF CallerStep
<1>2. ASSUME NEW e \in Ents, HandlerStep(e)
      PROVE  /\ UNCHANGED <<fwDone, eqes, devState, cpc, wq>>
             /\ UNCHANGED fw \/ WorkSend(e)
             /\ UNCHANGED <<idx, entArr>> \/ WorkAlloc(e)
             /\ UNCHANGED done \/ WorkDownTimeout(e) \/ WorkAlloc(e)
             /\ UNCHANGED <<nOut, outcome>> \/ WorkDownTimeout(e) \/ WorkAlloc(e)
             /\ UNCHANGED comp \/ WorkSend(e) \/ WorkPoll(e)
  <2>1. CASE WorkDown(e) \/ WorkDownTimeout(e) \/ WorkSlotErr(e) \/ WorkAlloc(e)
    BY <2>1 DEF WorkDown, WorkDownTimeout, WorkSlotErr, WorkAlloc
  <2>2. CASE WorkArm(e) \/ WorkSend(e) \/ WorkPoll(e) \/ WorkExit(e)
    BY <2>2 DEF WorkArm, WorkSend, WorkPoll, WorkExit
  <2> QED BY <1>2, <2>1, <2>2 DEF HandlerStep
<1>3. ASSUME NEW e \in Ents, TimerStep(e)
      PROVE  /\ UNCHANGED <<fw, fwDone, idx, entArr, eqes, devState, hpc, cpc, wq, done, nOut, outcome>>
             /\ UNCHANGED ret \/ TimerRecover(e)
             /\ UNCHANGED comp \/ TimerRecover(e)
  BY <1>3 DEF TimerStep, TimerFire, TimerRecover, TimerPut
<1>4. ASSUME NEW c \in Ctx, CompStep(c)
      PROVE  /\ UNCHANGED <<fw, fwDone, idx, entArr, eqes, devState, hpc, cpc, wq>>
             /\ UNCHANGED <<done, ret, nOut, outcome>> \/ CompFinish(c)
  BY <1>4 DEF CompStep, CompClaim, CompLatePut, CompCancel, CompRealPut, CompFinish
<1>5. ASSUME NEW s \in Slots, FwDone(s)
      PROVE  UNCHANGED <<idx, entArr, devState, hpc, cpc, wq, done, ret, nOut, outcome, comp>>
  BY <1>5 DEF FwDone
<1>6. ASSUME WorkStart
      PROVE  UNCHANGED <<fw, fwDone, idx, entArr, eqes, devState, cpc, done, ret, nOut, outcome, comp>>
  BY <1>6 DEF WorkStart
<1>7. ASSUME IrqTake
      PROVE  UNCHANGED <<fw, fwDone, idx, entArr, devState, hpc, cpc, wq, done, ret, nOut, outcome>>
  BY <1>7 DEF IrqTake
<1>8. ASSUME PciOffline \/ DevError
      PROVE  /\ UNCHANGED <<fw, fwDone, idx, entArr, eqes, hpc, cpc, wq, done, ret, nOut, outcome, comp>>
             /\ devState' = devState \/ DevError
  BY <1>8 DEF PciOffline, DevError
<1>9. ASSUME FlushStep
      PROVE  /\ UNCHANGED <<fw, fwDone, idx, entArr, eqes, devState, hpc, cpc, wq, done, ret, nOut,
                            outcome>>
             /\ UNCHANGED comp \/ FlushComp
  BY <1>9 DEF FlushStep, FlushTry, FlushTrigger, FlushComp, FlushPut, FlushUnlock
<1>10. ASSUME AdminNext
       PROVE  /\ UNCHANGED <<fw, fwDone, idx, entArr, devState, hpc, cpc, wq, done, ret, nOut, outcome,
                             comp>>
              /\ eqes' = eqes \/ (AdminStep /\ eqes' = << >>)
  BY <1>10 DEF AdminNext, AdminDown, AdminApply, AdminStep
<1>11. CASE \E e \in Ents : CmdRefuse(e) \/ CmdExec(e) \/ CallerStep(e)
  BY <1>1, <1>11
<1>12. CASE \E e \in Ents : HandlerStep(e)
  BY <1>2, <1>12
<1>13. CASE \E e \in Ents : TimerStep(e)
  BY <1>3, <1>13
<1>14. CASE \E c \in Ctx : CompStep(c)
  BY <1>4, <1>14
<1> QED BY <1>5, <1>6, <1>7, <1>8, <1>9, <1>10, <1>11, <1>12, <1>13, <1>14 DEF Next

(* A command that was sent stays sent.                                     *)
LEMMA SentStable ==
    ASSUME FullInv, Next, NEW e \in Ents, Sent(e)
    PROVE  Sent(e)' /\ idx'[e] = idx[e]
<1> USE IsTyped DEF Typed
<1>1. /\ hpc[e] \in {"poll", "comp", "exit"}  /\ idx[e] # NoIdx  /\ cpc[e] # "submit"
  BY DEF Sent, FullInv, IndInv, EntryShape
<1>2. idx'[e] = idx[e]
  <2>1. ASSUME NEW x \in Ents, WorkAlloc(x)
        PROVE  idx'[e] = idx[e]
    <3>1. x # e
      BY <1>1, <2>1 DEF WorkAlloc
    <3> QED BY <2>1, <3>1 DEF WorkAlloc, cmd_alloc_index
  <2> QED BY <2>1, WhoSteps
<1>3. hpc'[e] \in {"poll", "comp", "exit"}
  <2>1. ASSUME NEW x \in Ents, Submit(x)
        PROVE  hpc'[e] = hpc[e]
    BY <1>1, <2>1 DEF Submit
  <2>2. ASSUME NEW x \in Ents, HandlerStep(x)
        PROVE  hpc'[e] \in {"poll", "comp", "exit"}
    BY <1>1, <2>2 DEF HandlerStep, WorkDown, WorkDownTimeout, WorkSlotErr, WorkAlloc, WorkArm, WorkSend,
                      WorkPoll, WorkExit
  <2>3. ASSUME WorkStart
        PROVE  hpc'[e] = hpc[e]
    <3>1. hpc[Head(wq)] = "none"
      BY <2>3, 1 \in DOMAIN wq, Head(wq) = wq[1] DEF WorkStart, FullInv, IndInv, QueueShape
    <3> QED BY <1>1, <2>3, <3>1 DEF WorkStart
  <2> QED BY <1>1, <2>1, <2>2, <2>3, WhoSteps
<1> QED BY <1>1, <1>2, <1>3 DEF Sent

(* What the firmware has and has executed.                                 *)
LEMMA ExecutesStep ==
    ASSUME Sane, FullInv, RefInv, Executes, Next
    PROVE  Executes'
<1> USE IsTyped DEF Typed
<1>t. fwDone \subseteq Ents
  BY DEF FullInv, IndInv, TypeOK, TypeHw
<1>1. ASSUME NEW s \in Slots, NEW y \in Ents, fw[s] = y
      PROVE  Sent(y) /\ idx[y] = s /\ y \notin fwDone
  BY <1>1 DEF Executes
<1>2. ASSUME UNCHANGED <<fw, fwDone>>
      PROVE  /\ \A s \in Slots, y \in Ents : fw'[s] = y => Sent(y)' /\ idx'[y] = s /\ y \notin fwDone'
             /\ \A e \in fwDone' : Sent(e)'
  <2>1. ASSUME NEW s \in Slots, NEW y \in Ents, fw'[s] = y
        PROVE  Sent(y)' /\ idx'[y] = s /\ y \notin fwDone'
    <3>1. Sent(y) /\ idx[y] = s /\ y \notin fwDone
      BY <1>1, <1>2, <2>1
    <3> QED BY <1>2, <3>1, SentStable
  <2>2. ASSUME NEW e \in fwDone'
        PROVE  Sent(e)'
    BY <1>2, <1>t, <2>2, SentStable DEF Executes
  <2> QED BY <2>1, <2>2
<1>3. ASSUME NEW x \in Ents, WorkSend(x)
      PROVE  /\ \A s \in Slots, y \in Ents : fw'[s] = y => Sent(y)' /\ idx'[y] = s /\ y \notin fwDone'
             /\ \A e \in fwDone' : Sent(e)'
  <2>1. idx[x] \in Slots /\ hpc[x] = "armed" /\ fwDone' = fwDone
    BY <1>3, IdleSlot DEF WorkSend
  <2>2. CASE UNCHANGED fw
    BY <1>2, <2>1, <2>2
  <2>3. CASE /\ fw' = [fw EXCEPT ![idx[x]] = x]
             /\ hpc' = [hpc EXCEPT ![x] = IF pollCmd[x] THEN "poll" ELSE "exit"]
    <3>1. Sent(x)' /\ idx'[x] = idx[x] /\ x \notin fwDone
      <4>1. idx' = idx /\ hpc'[x] \in {"poll", "exit"}
        BY <1>3, <2>3 DEF WorkSend
      <4>2. x \notin fwDone
        BY <2>1 DEF Executes, Sent
      <4> QED BY <2>1, <4>1, <4>2 DEF Sent
    <3>2. ASSUME NEW s \in Slots, NEW y \in Ents, fw'[s] = y
          PROVE  Sent(y)' /\ idx'[y] = s /\ y \notin fwDone'
      <4>1. CASE s = idx[x]
        <5>1. y = x
          BY <2>1, <2>3, <3>2, <4>1
        <5> QED BY <2>1, <3>1, <4>1, <5>1
      <4>2. CASE s # idx[x]
        <5>1. y = fw[s]
          BY <2>1, <2>3, <3>2, <4>2
        <5>2. Sent(y) /\ idx[y] = s /\ y \notin fwDone
          BY <1>1, <5>1
        <5> QED BY <2>1, <5>2, SentStable
      <4> QED BY <4>1, <4>2
    <3>3. ASSUME NEW e \in fwDone'
          PROVE  Sent(e)'
      BY <2>1, <1>t, <3>3, SentStable DEF Executes
    <3> QED BY <3>2, <3>3
  <2> QED BY <1>3, <2>2, <2>3 DEF WorkSend
<1>4. ASSUME NEW t \in Slots, FwDone(t)
      PROVE  /\ \A s \in Slots, y \in Ents : fw'[s] = y => Sent(y)' /\ idx'[y] = s /\ y \notin fwDone'
             /\ \A e \in fwDone' : Sent(e)'
  <2>1. PICK x \in Ents : x = fw[t] /\ Sent(x) /\ idx[x] = t
    BY <1>1, <1>4 DEF FwDone
  <2>2. fw' = [fw EXCEPT ![t] = NoEnt] /\ fwDone' = fwDone \cup {x}
    BY <1>4, <2>1 DEF FwDone
  <2>3. ASSUME NEW s \in Slots, NEW y \in Ents, fw'[s] = y
        PROVE  Sent(y)' /\ idx'[y] = s /\ y \notin fwDone'
    <3>1. s # t /\ y = fw[s]
      BY <2>2, <2>3
    <3>2. Sent(y) /\ idx[y] = s /\ y \notin fwDone
      BY <1>1, <3>1
    <3> QED BY <2>1, <2>2, <3>1, <3>2, SentStable
  <2>4. ASSUME NEW e \in fwDone'
        PROVE  Sent(e)'
    <3>1. e \in Ents /\ Sent(e)
      BY <1>t, <2>1, <2>2, <2>4 DEF Executes
    <3> QED BY <3>1, SentStable
  <2> QED BY <2>3, <2>4
<1>5. ASSUME devState' = "UP", NEW s \in Slots, Reported(s)'
      PROVE  entArr'[s] \in fwDone'
  <2>1. devState = "UP"
    BY <1>5, WhoSteps DEF DevError
  <2>2. fwDone \subseteq fwDone'
    BY WhoSteps DEF WorkSend, FwDone
  <2>3. ASSUME Reported(s), UNCHANGED entArr
        PROVE  entArr'[s] \in fwDone'
    BY <2>1, <2>2, <2>3 DEF Executes
  <2>4. ASSUME NEW t \in Slots, FwDone(t)
        PROVE  entArr'[s] \in fwDone'
    <3>1. UNCHANGED entArr /\ (eqes' = eqes \/ eqes' = Append(eqes, t)) /\ fw[t] # NoEnt
      BY <2>4 DEF FwDone
    <3>2. Reported(s) \/ s = t
      <4>1. (\E i \in DOMAIN Append(eqes, t) : Append(eqes, t)[i] = s) =>
              (\E i \in DOMAIN eqes : eqes[i] = s) \/ s = t
        BY AppendElements
      <4> QED BY <1>5, <3>1, <4>1 DEF Reported
    <3>3. ASSUME s = t
          PROVE  entArr[s] = fw[s] /\ fw[s] \in fwDone'
      BY <2>1, <2>4, <3>1, <3>3 DEF RefInv, Answers, Busy, FwDone
    <3> QED BY <2>3, <3>1, <3>2, <3>3
  <2>5. ASSUME UNCHANGED eqes \/ IrqTake \/ eqes' = << >>
        PROVE  Reported(s)
    <3>1. CASE UNCHANGED eqes
      BY <1>5, <3>1 DEF Reported
    <3>2. CASE IrqTake
      BY <1>5, <3>2, TailElements DEF Reported, IrqTake
    <3>3. CASE eqes' = << >>
      BY <1>5, <3>3 DEF Reported
    <3> QED BY <2>5, <3>1, <3>2, <3>3
  <2>6. ASSUME NEW x \in Ents, WorkAlloc(x), Reported(s)
        PROVE  entArr'[s] = entArr[s]
    <3>1. /\ Lowest(FreeSlots(x)) \in Slots  /\ cmd_alloc_index(x, Lowest(FreeSlots(x)))
          /\ ~Busy(Lowest(FreeSlots(x)))
      BY <2>1, <2>6, FreshSlot
    <3> QED BY <2>6, <3>1 DEF cmd_alloc_index, Busy
  <2> QED BY <2>1, <2>2, <2>3, <2>4, <2>5, <2>6, WhoSteps DEF Executes
<1>6. /\ \A s \in Slots, y \in Ents : fw'[s] = y => Sent(y)' /\ idx'[y] = s /\ y \notin fwDone'
      /\ \A e \in fwDone' : Sent(e)'
  BY <1>2, <1>3, <1>4, WhoSteps
<1> QED BY <1>5, <1>6 DEF Executes

(* Who answers: cmd_exec() on its way out, or the completion of a command  *)
(* with a callback.  The two failures of cmd_work_handler() do not: the    *)
(* first is excluded for such a command, the second never happens.         *)
LEMMA TellSteps ==
    ASSUME Sane, FullInv, RefInv, Next
    PROVE  \/ UNCHANGED <<nOut, outcome>>
           \/ \E e \in Ents : CmdRefuse(e) \/ SubmitFails(e) \/ CmdReturn(e)
           \/ \E c \in Ctx : CompFinish(c) /\ Kind[comp[c].ent].callback
<1>1. ASSUME NEW e \in Ents, WorkDownTimeout(e)
      PROVE  UNCHANGED <<nOut, outcome>>
  BY <1>1 DEF WorkDownTimeout, FailEarly, Sane
<1>2. ASSUME NEW e \in Ents, WorkAlloc(e)
      PROVE  UNCHANGED <<nOut, outcome>>
  <2>1. SlotAvailable
    BY BackedAvailable DEF FullInv
  <2>2. hpc[e] = "gotSem"
    BY <1>2 DEF WorkAlloc
  <2>3. FreeSlots(e) # {}
    BY <2>1, <2>2 DEF SlotAvailable
  <2> QED BY <1>2, <2>3 DEF WorkAlloc
<1>3. ASSUME NEW c \in Ctx, CompFinish(c), ~Kind[comp[c].ent].callback
      PROVE  UNCHANGED <<nOut, outcome>>
  BY <1>3 DEF CompFinish
<1> QED BY <1>1, <1>2, <1>3, WhoSteps

(* A call returns by these steps only.                                     *)
LEMMA ReturnSteps ==
    ASSUME FullInv, Next, NEW f \in Ents
    PROVE  \/ CmdRefuse(f) \/ SubmitFails(f) \/ CmdReturn(f) \/ Submit(f)
           \/ cpc'[f] = "returned" <=> cpc[f] = "returned"
<1> USE IsTyped DEF Typed
<1>1. ASSUME NEW e \in Ents, CmdRefuse(e) \/ CmdExec(e) \/ CallerStep(e)
      PROVE  \/ CmdRefuse(f) \/ SubmitFails(f) \/ CmdReturn(f) \/ Submit(f)
             \/ cpc'[f] = "returned" <=> cpc[f] = "returned"
  <2>1. CASE e # f
    <3>1. cpc'[f] = cpc[f]
      BY <1>1, <2>1 DEF CmdRefuse, CmdExec, CallerStep, ThrottleDown, SubmitFails, Submit, WaitStep,
             HandlingTimeout, CancelWork, ExecTimeout, Recover, RewaitTimeout, CmdReturn
    <3> QED BY <3>1
  <2>2. CASE CmdExec(f) \/ ThrottleDown(f) \/ WaitStep(f) \/ HandlingTimeout(f)
    BY <2>2 DEF CmdExec, ThrottleDown, WaitStep, HandlingTimeout
  <2>3. CASE CancelWork(f) \/ ExecTimeout(f) \/ Recover(f) \/ RewaitTimeout(f)
    BY <2>3 DEF CancelWork, ExecTimeout, Recover, RewaitTimeout
  <2> QED BY <1>1, <2>1, <2>2, <2>3 DEF CallerStep
<1> QED BY <1>1, WhoSteps

(* A call that has not handed its entry over has nothing under way.        *)
LEMMA StartNotUnder ==
    ASSUME FullInv, RefInv, NEW f \in Ents, cpc[f] \in Start
    PROVE  ~Under(f)
<1>1. hpc[f] = "none"
  BY DEF FullInv, IndInv, EntryShape, Start
<1>2. ~Queued(f)
  BY DEF FullInv, IndInv, QueueShape, Start, Queued
<1>3. ~pending[f]
  BY <1>1 DEF FullInv, ClaimedOnce, Armed
<1>4. ~Finishing(f)
  BY <1>1, PastArmed DEF Finishing, Armed
<1> QED BY <1>1, <1>2, <1>3, <1>4 DEF Under

(* The end of a command with a callback.                                   *)
LEMMA FinishUnder ==
    ASSUME Sane, FullInv, RefInv, Next, NEW c \in Ctx, CompFinish(c), NEW e, e = comp[c].ent
    PROVE  /\ e \in Ents  /\ Under(e)  /\ ~Under(e)'
           /\ Kind[e].callback => cpc[e] = "returned"
           /\ UNCHANGED <<cpc, hpc, idx, wq>>
<1>1. /\ e \in Ents  /\ comp[c].pc = "finish"  /\ ~pending[e]  /\ ~Finishing(e)'
      /\ UNCHANGED pending
  BY FinishEffect
<1>2. UNCHANGED <<cpc, hpc, idx, wq>>
  BY DEF CompFinish
<1>3. Armed(e) /\ Under(e)
  BY <1>1, PastArmed, PastUnder DEF PastPcs
<1>4. hpc[e] \notin {"none", "wantSem", "gotSem", "slotted"}
  BY <1>3 DEF Armed
<1>5. ~Queued(e)
  BY <1>4 DEF FullInv, IndInv, QueueShape, Queued
<1>6. ~Queued(e)'
  BY <1>2, <1>5 DEF Queued
<1>7. ~Under(e)'
  BY <1>1, <1>2, <1>4, <1>6 DEF Under
<1>8. Kind[e].callback => cpc[e] = "returned"
  BY <1>1, <1>4 DEF FullInv, IndInv, EntryShape
<1> QED BY <1>1, <1>2, <1>3, <1>7, <1>8

(* One answer to everybody who was told, none to the others.               *)
LEMMA Told1Step ==
    ASSUME Sane, FullInv, RefInv, Next, NEW f \in Ents, Told1(f)
    PROVE  Told1(f)'
<1> USE IsTyped DEF Typed
<1>t. nOut \in [Ents -> Nat] /\ Kind[f].callback \in BOOLEAN
  BY KindAssumption DEF FullInv, IndInv, TypeOK, TypeOut
<1>1. ASSUME ~Told(f), Told(f)', nOut'[f] = nOut[f] + 1
      PROVE  Told1(f)'
  BY <1>1, <1>t DEF Told1, One
<1>2. ASSUME nOut'[f] = nOut[f], Told(f)' <=> Told(f)
      PROVE  Told1(f)'
  BY <1>2 DEF Told1, One
<1>3. CASE CmdRefuse(f) \/ SubmitFails(f)
  <2>1. /\ cpc[f] \in {"init", "submit"}  /\ cpc'[f] = "returned"  /\ UNCHANGED <<wq, hpc, pending, comp>>
        /\ nOut'[f] = nOut[f] + 1
    BY <1>3, <1>t DEF CmdRefuse, SubmitFails, Tell
  <2>2. ~Under(f)
    BY <2>1, StartNotUnder DEF Start
  <2>3. ~Under(f)'
    BY <2>1, <2>2 DEF Under, Queued, Finishing
  <2> QED BY <1>1, <2>1, <2>3 DEF Told
<1>4. CASE CmdReturn(f)
  <2>1. cpc[f] = "out" /\ cpc'[f] = "returned" /\ nOut'[f] = nOut[f] + 1
    BY <1>4, <1>t DEF CmdReturn, Tell
  <2>2. ~Kind[f].callback
    BY <2>1 DEF FullInv, IndInv, EntryShape
  <2> QED BY <1>1, <2>1, <2>2 DEF Told
<1>5. CASE Submit(f)
  <2>1. nOut'[f] = nOut[f] /\ cpc[f] = "submit"
    BY <1>5 DEF Submit
  <2>2. ASSUME cpc'[f] = "returned"
        PROVE  Kind[f].callback /\ wq' = Append(wq, f)
    BY <1>5, <2>2 DEF Submit
  <2>3. ASSUME cpc'[f] = "returned"
        PROVE  Under(f)'
    <3>1. wq' = Append(wq, f)
      BY <2>2, <2>3
    <3>2. \E i \in DOMAIN Append(wq, f) : Append(wq, f)[i] = f
      <4>1. wq \in Seq(Ents)
        OBVIOUS
      <4>2. Len(wq) + 1 \in DOMAIN Append(wq, f) /\ Append(wq, f)[Len(wq) + 1] = f
        BY <4>1
      <4> QED BY <4>2
    <3> QED BY <3>1, <3>2 DEF Under, Queued
  <2> QED BY <1>2, <2>1, <2>2, <2>3 DEF Told
<1>6. CASE \E c \in Ctx : CompFinish(c) /\ comp[c].ent = f /\ Kind[f].callback
  <2>1. PICK c \in Ctx : CompFinish(c) /\ comp[c].ent = f /\ Kind[f].callback
    BY <1>6
  <2>2. nOut'[f] = nOut[f] + 1
    BY <2>1, <1>t DEF CompFinish, Tell
  <2>3. Under(f) /\ ~Under(f)' /\ cpc'[f] = cpc[f] /\ cpc[f] = "returned"
    BY <2>1, FinishUnder
  <2> QED BY <1>1, <2>1, <2>2, <2>3 DEF Told
<1>7. CASE /\ ~(CmdRefuse(f) \/ SubmitFails(f) \/ CmdReturn(f) \/ Submit(f))
           /\ ~\E c \in Ctx : CompFinish(c) /\ comp[c].ent = f /\ Kind[f].callback
  <2>1. cpc'[f] = "returned" <=> cpc[f] = "returned"
    BY <1>7, ReturnSteps
  <2>2. nOut'[f] = nOut[f]
    <3>1. ASSUME NEW e \in Ents, CmdRefuse(e) \/ SubmitFails(e) \/ CmdReturn(e)
          PROVE  nOut'[f] = nOut[f]
      <4>1. e # f
        BY <1>7, <3>1
      <4> QED BY <1>t, <3>1, <4>1 DEF CmdRefuse, SubmitFails, CmdReturn, Tell
    <3>2. ASSUME NEW c \in Ctx, CompFinish(c), Kind[comp[c].ent].callback
          PROVE  nOut'[f] = nOut[f]
      <4>1. comp[c].ent # f
        BY <1>7, <3>2
      <4> QED BY <1>t, <3>2, <4>1 DEF CompFinish, Tell
    <3> QED BY <3>1, <3>2, TellSteps
  <2>3. Kind[f].callback => (Under(f)' <=> Under(f))
    <3>1. ASSUME Kind[f].callback
          PROVE  ~CancelWork(f) /\ ~WorkDownTimeout(f)
      <4>1. cpc[f] # "cancel"
        BY <3>1 DEF FullInv, IndInv, EntryShape
      <4> QED BY <3>1, <4>1 DEF CancelWork, WorkDownTimeout, Sane
    <3> QED BY <1>7, <3>1, UnderSteps
  <2>4. Told(f)' <=> Told(f)
    BY <2>1, <2>3 DEF Told
  <2> QED BY <1>2, <2>2, <2>4
<1> QED BY <1>3, <1>4, <1>5, <1>6, <1>7

(* A command that was refused stays so.                                    *)
LEMMA DeadStable ==
    ASSUME FullInv, Next, NEW e \in Ents, Dead(e)
    PROVE  Dead(e)'
<1> USE IsTyped DEF Typed
<1>1. /\ hpc[e] \in {"none", "slotErr", "exit"}  /\ idx[e] = NoIdx  /\ cpc[e] \notin Start
      /\ ~Queued(e)
  BY DEF Dead
<1>2. idx'[e] = NoIdx
  <2>1. ASSUME NEW x \in Ents, WorkAlloc(x)
        PROVE  idx'[e] = idx[e]
    <3>1. x # e
      BY <1>1, <2>1 DEF WorkAlloc
    <3> QED BY <2>1, <3>1 DEF WorkAlloc, cmd_alloc_index
  <2> QED BY <1>1, <2>1, WhoSteps
<1>3. WorkStart => Head(wq) # e /\ wq # << >>
  <2>1. ASSUME WorkStart
        PROVE  1 \in DOMAIN wq /\ Head(wq) = wq[1] /\ wq # << >>
    BY <2>1 DEF WorkStart
  <2> QED BY <1>1, <2>1 DEF Queued
<1>4. hpc'[e] \in {"none", "slotErr", "exit"}
  <2>1. ASSUME NEW x \in Ents, Submit(x)
        PROVE  hpc'[e] = hpc[e]
    BY <1>1, <2>1 DEF Submit, Start
  <2>2. ASSUME NEW x \in Ents, HandlerStep(x)
        PROVE  hpc'[e] \in {"none", "slotErr", "exit"}
    BY <1>1, <2>2 DEF HandlerStep, WorkDown, WorkDownTimeout, WorkSlotErr, WorkAlloc, WorkArm, WorkSend,
                      WorkPoll, WorkExit
  <2>3. ASSUME WorkStart
        PROVE  hpc'[e] = hpc[e]
    BY <1>1, <1>3, <2>3 DEF WorkStart
  <2> QED BY <1>1, <2>1, <2>2, <2>3, WhoSteps
<1>5. cpc'[e] \notin Start
  <2>1. ASSUME NEW x \in Ents, CmdRefuse(x) \/ CmdExec(x) \/ CallerStep(x)
        PROVE  cpc'[e] = cpc[e] \/ (x = e /\ cpc'[e] \notin Start)
    <3>1. CASE CmdRefuse(x) \/ CmdExec(x) \/ ThrottleDown(x) \/ SubmitFails(x) \/ Submit(x)
      BY <1>1, <3>1 DEF CmdRefuse, CmdExec, ThrottleDown, SubmitFails, Submit, Start
    <3>2. CASE WaitStep(x) \/ HandlingTimeout(x) \/ CancelWork(x) \/ ExecTimeout(x)
      BY <1>1, <3>2 DEF WaitStep, HandlingTimeout, CancelWork, ExecTimeout, Start
    <3>3. CASE Recover(x) \/ RewaitTimeout(x) \/ CmdReturn(x)
      BY <1>1, <3>3 DEF Recover, RewaitTimeout, CmdReturn, Start
    <3> QED BY <2>1, <3>1, <3>2, <3>3 DEF CallerStep
  <2> QED BY <1>1, <2>1, WhoSteps
<1>6. ~Queued(e)'
  <2>1. CASE UNCHANGED wq
    BY <1>1, <2>1 DEF Queued
  <2>2. CASE WorkStart
    <3>1. wq' = Tail(wq)
      BY <2>2 DEF WorkStart
    <3>2. (\E i \in DOMAIN Tail(wq) : Tail(wq)[i] = e) => \E i \in DOMAIN wq : wq[i] = e
      BY <1>3, <2>2, TailElements
    <3> QED BY <1>1, <3>1, <3>2 DEF Queued
  <2>3. ASSUME NEW x \in Ents, Submit(x)
        PROVE  ~Queued(e)'
    <3>1. x # e /\ (wq' = wq \/ wq' = Append(wq, x))
      BY <1>1, <2>3 DEF Submit, Start
    <3>2. (\E i \in DOMAIN Append(wq, x) : Append(wq, x)[i] = e) => \E i \in DOMAIN wq : wq[i] = e
      BY <3>1, AppendElements
    <3> QED BY <1>1, <3>1, <3>2 DEF Queued
  <2>4. ASSUME NEW x \in Ents, CancelWork(x)
        PROVE  ~Queued(e)'
    <3>1. wq' = wq \/ \E k \in DOMAIN wq : wq' = Without(wq, k)
      BY <2>4 DEF CancelWork
    <3>2. ASSUME NEW k \in DOMAIN wq
          PROVE  (\E i \in DOMAIN Without(wq, k) : Without(wq, k)[i] = e) => \E i \in DOMAIN wq : wq[i] = e
      <4>1. wq \in Seq(Ents)
        OBVIOUS
      <4> HIDE IsTyped DEF Typed
      <4>2. (\E i \in DOMAIN Without(wq, k) : Without(wq, k)[i] = e) =>
                   (\E i \in DOMAIN wq : i # k /\ wq[i] = e)
        BY <4>1, WithoutElements
      <4> QED BY <4>2
    <3> QED BY <1>1, <3>1, <3>2 DEF Queued
  <2> QED BY <2>1, <2>2, <2>3, <2>4, WhoSteps
<1> QED BY <1>2, <1>4, <1>5, <1>6 DEF Dead

(* A new call of mlx5_cmd_comp_handler() passes on an answer of the        *)
(* firmware, or an error.                                                  *)
LEMMA AnswerSteps ==
    ASSUME Sane, FullInv, RefInv, Executes, Next, NEW e \in Ents, Honest(e), Answering(e)'
    PROVE  Answering(e) \/ e \in fwDone \/ ret'[e] # "OK"
<1> USE IsTyped, Contexts DEF Typed
<1>1. PICK c \in Ctx : c # Flush /\ comp'[c].pc \in {"claim"} \cup PastPcs /\ Handled(c)' = e
  BY DEF Answering
<1>2. ASSUME comp'[c] = comp[c], UNCHANGED entArr
      PROVE  Answering(e)
  BY <1>1, <1>2 DEF Answering, Handled
<1>3. ASSUME NEW x \in Ents, BaseRef(x) \/ TimerRef(x) \/ RealRef(x), idx[x] # NoIdx
      PROVE  entArr[idx[x]] = x
  BY <1>3, Alive
<1>4. ASSUME NEW x \in Ents, WorkAlloc(x)
      PROVE  Answering(e)
  <2>1. comp' = comp
    BY <1>4 DEF WorkAlloc
  <2>2. CASE comp[c].pc # "claim"
    BY <1>1, <2>1, <2>2 DEF Answering, Handled
  <2>3. CASE comp[c].pc = "claim"
    <3>1. PICK y \in Ents : /\ y = entArr[comp[c].slot]  /\ comp[c].slot \in Slots
                            /\ idx[y] = comp[c].slot  /\ refcnt[y] > 0
      BY <2>3, ClaimAlive
    <3>2. comp[c].slot \notin bitmask
      BY <3>1 DEF FullInv, IndInv, SlotExclusive
    <3>3. /\ Lowest(FreeSlots(x)) \in bitmask /\ cmd_alloc_index(x, Lowest(FreeSlots(x)))
      BY <1>4, FreshSlot
    <3>4. entArr'[comp[c].slot] = entArr[comp[c].slot]
      BY <3>1, <3>2, <3>3 DEF cmd_alloc_index
    <3> QED BY <1>1, <2>1, <2>3, <3>4 DEF Answering, Handled
  <2> QED BY <2>2, <2>3
<1>5. ASSUME UNCHANGED entArr, NEW d \in Ctx, NEW s, NEW t, CallComp(d, s, t)
      PROVE  Answering(e) \/ (c = d /\ entArr[s] = e)
  <2>1. CASE c # d
    BY <1>2, <1>5, <2>1 DEF CallComp
  <2>2. CASE c = d
    <3>1. comp'[c].pc = "claim" /\ comp'[c].slot = s
      BY <1>5, <2>2 DEF CallComp
    <3> QED BY <1>1, <1>5, <2>2, <3>1 DEF Handled
  <2> QED BY <2>1, <2>2
<1>6. ASSUME NEW x \in Ents, RewaitTimeout(x)
      PROVE  Answering(e) \/ ret'[e] # "OK"
  <2>1. /\ UNCHANGED entArr  /\ CallComp(Wait(x), idx[x], "FORCED")
        /\ ret' = [ret EXCEPT ![x] = "ETIMEDOUT"]  /\ cpc[x] = "rewait"
    BY <1>6 DEF RewaitTimeout
  <2>2. BaseRef(x) /\ slotted[x] /\ ~done[x] /\ ~Kind[x].callback
    BY <1>6, <2>1, CallerAlive DEF BaseRef, Waiting, CallerPcs, Start, RewaitTimeout, FullInv, IndInv,
       EntryShape
  <2>3. idx[x] # NoIdx
    BY <2>2 DEF FullInv, IndInv, EntryShape
  <2>4. entArr[idx[x]] = x
    BY <1>3, <2>2, <2>3
  <2>5. Answering(e) \/ x = e
    BY <1>5, <2>1, <2>4
  <2> QED BY <2>1, <2>5
<1>7. ASSUME NEW x \in Ents, TimerRecover(x), ~UNCHANGED comp
      PROVE  Answering(e) \/ ret'[e] # "OK"
  <2>1. /\ UNCHANGED entArr  /\ CallComp(Tmo(x), idx[x], "FORCED")
        /\ ret' = [ret EXCEPT ![x] = "ETIMEDOUT"]  /\ timer[x] = "recover"
    BY <1>7 DEF TimerRecover
  <2>2. TimerRef(x) /\ idx[x] # NoIdx
    BY <2>1 DEF TimerRef, FullInv, IndInv, EntryShape
  <2>3. Answering(e) \/ x = e
    BY <1>3, <1>5, <2>1, <2>2
  <2> QED BY <2>1, <2>3
<1>8. ASSUME NEW x \in Ents, WorkSend(x) \/ WorkPoll(x), ~UNCHANGED comp
      PROVE  Answering(e) \/ e \in fwDone \/ ret'[e] # "OK"
  <2>1. hpc[x] \in {"armed", "poll"} /\ UNCHANGED entArr
    BY <1>8 DEF WorkSend, WorkPoll
  <2>2. idx[x] # NoIdx /\ entArr[idx[x]] = x
    <3>1. idx[x] \in Slots
      BY <2>1 DEF FullInv, IndInv, EntryShape
    <3>2. \A s \in Slots : idx[x] = s => entArr[s] = x
      BY <2>1, HandlerAlive
    <3> QED BY <3>1, <3>2
  <2>3. \E t : CallComp(Work(x), idx[x], t)
    BY <1>8 DEF WorkSend, WorkPoll
  <2>4. Answering(e) \/ x = e
    BY <1>5, <2>1, <2>2, <2>3
  <2>5. ret'[x] = "OK" => hpc[x] = "poll" /\ fw[idx[x]] # x
    BY <1>8 DEF WorkSend, WorkPoll
  <2>6. hpc[e] = "poll" /\ fw[idx[e]] # e => e \in fwDone
    BY DEF Honest
  <2> QED BY <2>4, <2>5, <2>6
<1>9. ASSUME IrqTake
      PROVE  Answering(e) \/ e \in fwDone
  <2>1. UNCHANGED entArr /\ eqes # << >>
    BY <1>9 DEF IrqTake
  <2>2. CASE comp' = comp
    BY <1>2, <2>1, <2>2
  <2>3. CASE devState # "INTERNAL_ERROR" /\ CallComp(Irq, Head(eqes), "EVENT")
    <3>1. devState = "UP"
      BY <2>3 DEF FullInv, IndInv, TypeOK, TypeEnv
    <3>2. Head(eqes) \in Slots /\ Reported(Head(eqes))
      BY <2>1 DEF Reported
    <3>3. entArr[Head(eqes)] \in fwDone
      BY <3>1, <3>2 DEF Executes
    <3> QED BY <1>5, <2>1, <2>3, <3>3
  <2> QED BY <1>9, <2>2, <2>3 DEF IrqTake
<1>10. ASSUME FlushComp
       PROVE  Answering(e)
  <2>1. UNCHANGED entArr /\ (comp' = comp \/ CallComp(Flush, Lowest(ftodo), "FORCED"))
    BY <1>10 DEF FlushComp
  <2> QED BY <1>1, <1>2, <1>5, <2>1
<1>11. ASSUME NEW d \in Ctx, CompStep(d)
       PROVE  Answering(e)
  <2>1. UNCHANGED entArr /\ \A x \in Ctx : x # d => comp'[x] = comp[x]
    BY <1>11, CompStepFrame
  <2>2. CASE c # d
    BY <1>2, <2>1, <2>2
  <2>3. CASE c = d /\ CompClaim(c)
    <3>1. /\ comp[c].pc = "claim"
          /\ comp' = [comp EXCEPT ![c] = IF Claimed(c, entArr[comp[c].slot]) = "idle" THEN CompIdle
                        ELSE [@ EXCEPT !.pc = Claimed(c, entArr[comp[c].slot]), !.ent = entArr[comp[c].slot]]]
      BY <2>3 DEF CompClaim
    <3>2. comp'[c].pc # "idle" => comp'[c].ent = entArr[comp[c].slot]
      BY <3>1 DEF CompIdle
    <3>3. comp'[c].pc # "claim"
      BY <3>1 DEF Claimed, CompIdle
    <3>4. Handled(c) = e
      BY <1>1, <3>1, <3>2, <3>3 DEF Handled, PastPcs
    <3> QED BY <1>1, <3>1, <3>4 DEF Answering
  <2>4. CASE c = d /\ (CompCancel(c) \/ CompRealPut(c))
    <3>1. comp[c].pc \in {"cancel", "rput"} /\ comp'[c].ent = comp[c].ent /\ comp'[c].pc # "claim"
      BY <2>4 DEF CompCancel, CompRealPut, CompAt
    <3> QED BY <1>1, <3>1 DEF Answering, Handled, PastPcs
  <2>5. CASE c = d /\ (CompLatePut(c) \/ CompFinish(c))
    <3>1. comp'[c].pc = "idle"
      BY <2>5 DEF CompLatePut, CompFinish, CompReturn, CompIdle
    <3> QED BY <1>1, <3>1 DEF PastPcs
  <2> QED BY <1>11, <2>2, <2>3, <2>4, <2>5 DEF CompStep
<1> QED BY <1>2, <1>4, <1>6, <1>7, <1>8, <1>9, <1>10, <1>11, WhoSteps

(* Where the result of a command comes from.                               *)
LEMMA RetSteps ==
    ASSUME Sane, FullInv, RefInv, Next, NEW e \in Ents
    PROVE  /\ ret'[e] = "OK" => ret[e] = "OK" \/ (hpc[e] = "poll" /\ fw[idx[e]] # e)
           /\ ret'[e] \in Refused => \/ ret[e] \in Refused  \/ WorkDownTimeout(e)
                                     \/ \E k \in DOMAIN wq : /\ wq[k] = e  /\ wq' = Without(wq, k)
                                                             /\ cpc' = [cpc EXCEPT ![e] = "out"]
                                                             /\ UNCHANGED <<idx, hpc>>
<1> USE IsTyped DEF Typed
<1>1. ASSUME NEW x \in Ents, CancelWork(x)
      PROVE  \/ ret'[e] = ret[e]
             \/ /\ ret'[e] = "ECANCELED"
                /\ \E k \in DOMAIN wq : /\ wq[k] = e  /\ wq' = Without(wq, k)
                                        /\ cpc' = [cpc EXCEPT ![e] = "out"]
                                        /\ UNCHANGED <<idx, hpc>>
  BY <1>1 DEF CancelWork
<1>2. ASSUME NEW x \in Ents, RewaitTimeout(x) \/ TimerRecover(x)
      PROVE  ret'[e] = ret[e] \/ ret'[e] = "ETIMEDOUT"
  BY <1>2 DEF RewaitTimeout, TimerRecover
<1>3. ASSUME NEW x \in Ents, HandlerStep(x)
      PROVE  \/ ret'[e] \in {ret[e], "ETIMEDOUT", "ENXIO"}
             \/ ret'[e] = "EBUSY" /\ WorkDownTimeout(e)
             \/ ret'[e] = "OK" /\ hpc[e] = "poll" /\ fw[idx[e]] # e
  <2>1. CASE WorkDown(x) \/ WorkSlotErr(x) \/ WorkArm(x) \/ WorkExit(x)
    BY <2>1 DEF WorkDown, WorkSlotErr, WorkArm, WorkExit
  <2>2. CASE WorkAlloc(x)
    BY <2>2, FreshSlot
  <2>3. CASE WorkDownTimeout(x)
    <3>1. ret'[e] = ret[e] \/ (x = e /\ ret'[e] = "EBUSY")
      BY <2>3 DEF WorkDownTimeout, FailEarly
    <3> QED BY <2>3, <3>1
  <2>4. CASE WorkSend(x) \/ WorkPoll(x)
    BY <2>4 DEF WorkSend, WorkPoll
  <2> QED BY <1>3, <2>1, <2>2, <2>3, <2>4 DEF HandlerStep
<1>4. ASSUME NEW c \in Ctx, CompFinish(c)
      PROVE  ret'[e] \in {ret[e], "ENXIO"}
  BY <1>4 DEF CompFinish
<1> QED BY <1>1, <1>2, <1>3, <1>4, WhoSteps DEF Refused

(* What is being answered.                                                 *)
LEMMA DoneSteps ==
    ASSUME Sane, FullInv, RefInv, Next, NEW e \in Ents, ret'[e] = "OK", ret[e] = "OK",
           done'[e] \/ cpc'[e] \in {"forced", "out"}
    PROVE  done[e] \/ cpc[e] \in {"forced", "out"} \/ Answering(e)
<1> USE IsTyped DEF Typed
<1>1. ASSUME NEW x \in Ents, WorkDownTimeout(x) \/ WorkAlloc(x)
      PROVE  done'[e] = done[e]
  <2>1. CASE WorkAlloc(x)
    BY <2>1, FreshSlot
  <2>2. CASE WorkDownTimeout(x)
    BY <2>2 DEF WorkDownTimeout, FailEarly
  <2> QED BY <1>1, <2>1, <2>2
<1>2. ASSUME NEW c \in Ctx, CompFinish(c), done'[e] # done[e]
      PROVE  Answering(e)
  <2>1. /\ comp[c].ent = e  /\ comp[c].pc = "finish"
        /\ ret'[e] = IF Trig(c) THEN "ENXIO" ELSE ret[e]
    BY <1>2 DEF CompFinish
  <2>2. c # Flush
    BY <2>1 DEF Trig
  <2> QED BY <2>1, <2>2 DEF Answering, Handled, PastPcs
<1>3. ASSUME NEW x \in Ents, CmdRefuse(x) \/ CmdExec(x) \/ CallerStep(x), cpc'[e] \in {"forced", "out"}
      PROVE  done[e] \/ cpc[e] \in {"forced", "out"}
  <2>1. CASE cpc'[e] = cpc[e]
    BY <1>3, <2>1
  <2>2. CASE cpc'[e] # cpc[e]
    <3>1. CASE CmdRefuse(x) \/ CmdExec(x) \/ ThrottleDown(x) \/ SubmitFails(x) \/ Submit(x)
      BY <1>3, <2>2, <3>1 DEF CmdRefuse, CmdExec, ThrottleDown, SubmitFails, Submit
    <3>2. CASE WaitStep(x) \/ HandlingTimeout(x) \/ ExecTimeout(x) \/ Recover(x) \/ CmdReturn(x)
      BY <1>3, <2>2, <3>2 DEF WaitStep, HandlingTimeout, ExecTimeout, Recover, CmdReturn
    <3>3. CASE CancelWork(x) \/ RewaitTimeout(x)
      BY <1>3, <2>2, <3>3 DEF CancelWork, RewaitTimeout
    <3> QED BY <1>3, <3>1, <3>2, <3>3 DEF CallerStep
  <2> QED BY <2>1, <2>2
<1> QED BY <1>1, <1>2, <1>3, WhoSteps

(* "OK" means executed, a refusal means never seen.                        *)
LEMMA HonestStep ==
    ASSUME Sane, FullInv, RefInv, Executes, Next, NEW e \in Ents, Honest(e)
    PROVE  Honest(e)'
<1> USE IsTyped DEF Typed
<1>t. outcome \in [Ents -> OutcomeCodes]
  BY DEF FullInv, IndInv, TypeOK, TypeOut
<1>0. e \in fwDone => e \in fwDone'
  BY WhoSteps DEF WorkSend, FwDone
<1>1. hpc[e] = "poll" /\ fw[idx[e]] # e => e \in fwDone
  BY DEF Honest
<1>2. \/ outcome'[e] = outcome[e]
      \/ (CmdRefuse(e) \/ SubmitFails(e)) /\ outcome'[e] \in {"ENXIO", "EINVAL", "ENOMEM"}
      \/ CmdReturn(e) /\ outcome'[e] = ret[e]
      \/ outcome'[e] = "ENXIO"
      \/ outcome'[e] = ret[e] /\ Answering(e)
  <2>1. ASSUME NEW x \in Ents, CmdRefuse(x) \/ SubmitFails(x)
        PROVE  \/ outcome'[e] = outcome[e]
               \/ x = e /\ outcome'[e] \in {"ENXIO", "EINVAL", "ENOMEM"}
    BY <1>t, <2>1 DEF CmdRefuse, SubmitFails, Tell
  <2>2. ASSUME NEW x \in Ents, CmdReturn(x)
        PROVE  outcome'[e] = outcome[e] \/ (x = e /\ outcome'[e] = ret[e])
    BY <1>t, <2>2 DEF CmdReturn, Tell
  <2>3. ASSUME NEW c \in Ctx, CompFinish(c)
        PROVE  \/ outcome'[e] = outcome[e]  \/ outcome'[e] = "ENXIO"
               \/ outcome'[e] = ret[e] /\ Answering(e)
    <3>1. \/ outcome'[e] = outcome[e]
          \/ comp[c].ent = e /\ outcome'[e] = IF Trig(c) THEN "ENXIO" ELSE ret[e]
      BY <1>t, <2>3 DEF CompFinish, Tell
    <3>2. comp[c].pc = "finish"
      BY <2>3 DEF CompFinish
    <3> QED BY <3>1, <3>2 DEF Answering, Handled, PastPcs, Trig
  <2> QED BY <2>1, <2>2, <2>3, TellSteps
<1>3. outcome'[e] = "OK" => e \in fwDone'
  <2>1. CmdReturn(e) => cpc[e] = "out"
    BY DEF CmdReturn
  <2> QED BY <1>0, <1>2, <2>1 DEF Honest
<1>4. ASSUME ret'[e] = "OK", done'[e] \/ cpc'[e] \in {"forced", "out"} \/ Answering(e)'
      PROVE  e \in fwDone'
  <2>1. CASE ret[e] # "OK"
    BY <1>0, <1>1, <1>4, <2>1, RetSteps
  <2>2. CASE ret[e] = "OK"
    <3>1. \/ done[e] \/ cpc[e] \in {"forced", "out"} \/ Answering(e) \/ e \in fwDone
      BY <1>4, <2>2, DoneSteps, AnswerSteps
    <3> QED BY <1>0, <2>2, <3>1 DEF Honest
  <2> QED BY <2>1, <2>2
<1>5. ASSUME outcome'[e] \in Refused \/ ret'[e] \in Refused
      PROVE  Dead(e)'
  <2>1. CASE outcome[e] \in Refused \/ ret[e] \in Refused
    BY <2>1, DeadStable DEF Honest
  <2>2. CASE CmdRefuse(e) \/ SubmitFails(e)
    <3>1. /\ cpc[e] \in Start  /\ cpc'[e] = "returned"  /\ UNCHANGED <<idx, wq, hpc>>
      BY <2>2 DEF CmdRefuse, SubmitFails, Start
    <3>2. hpc[e] = "none" /\ idx[e] = NoIdx
      BY <3>1 DEF FullInv, IndInv, EntryShape, Start
    <3>3. ~Queued(e)
      BY <3>1, StartNotUnder DEF Under
    <3>4. ~Queued(e)'
      BY <3>1, <3>3 DEF Queued
    <3> QED BY <3>1, <3>2, <3>4 DEF Dead, Start
  <2>3. CASE WorkDownTimeout(e)
    <3>1. hpc[e] = "wantSem" /\ hpc'[e] = "slotErr" /\ UNCHANGED <<idx, wq, cpc>>
      BY <2>3 DEF WorkDownTimeout
    <3>2. idx[e] = NoIdx /\ cpc[e] \notin Start
      BY <3>1 DEF FullInv, IndInv, EntryShape, Start
    <3>3. ~Queued(e)
      BY <3>1 DEF FullInv, IndInv, QueueShape, Queued
    <3>4. ~Queued(e)'
      BY <3>1, <3>3 DEF Queued
    <3> QED BY <3>1, <3>2, <3>4 DEF Dead
  <2>4. CASE \E k \in DOMAIN wq : /\ wq[k] = e  /\ wq' = Without(wq, k)
                                  /\ cpc' = [cpc EXCEPT ![e] = "out"]
                                  /\ UNCHANGED <<idx, hpc>>
    <3>1. PICK k \in DOMAIN wq : /\ wq[k] = e  /\ wq' = Without(wq, k)
                                 /\ cpc' = [cpc EXCEPT ![e] = "out"]
                                 /\ UNCHANGED <<idx, hpc>>
      BY <2>4
    <3>2. hpc[e] = "none" /\ \A i \in DOMAIN wq : wq[i] = e => i = k
      BY <3>1 DEF FullInv, IndInv, QueueShape
    <3>3. idx[e] = NoIdx
      BY <3>2 DEF FullInv, IndInv, EntryShape
    <3>4. wq \in Seq(Ents)
      OBVIOUS
    <3>5. ~Queued(e)'
      <4> HIDE IsTyped DEF Typed
      <4>1. ~\E i \in DOMAIN Without(wq, k) : Without(wq, k)[i] = e
        BY <3>2, <3>4, WithoutElements
      <4> QED BY <3>1, <4>1 DEF Queued
    <3>6. cpc'[e] = "out"
      BY <3>1
    <3> QED BY <3>1, <3>2, <3>3, <3>5, <3>6 DEF Dead, Start
  <2> QED BY <1>2, <1>5, <2>1, <2>2, <2>3, <2>4, RetSteps DEF Refused
<1>6. ASSUME hpc'[e] = "poll"
      PROVE  e \in fwDone' \/ \E s \in Slots : idx'[e] = s /\ fw'[s] = e
  <2>1. CASE hpc[e] # "poll"
    <3>1. ASSUME NEW x \in Ents, HandlerStep(x)
          PROVE  WorkSend(e) /\ ~(mlx5_cmd_is_down \/ ~opcode_allowed)
      BY <1>6, <2>1, <3>1 DEF HandlerStep, WorkDown, WorkDownTimeout, WorkSlotErr, WorkAlloc, WorkArm,
            WorkSend, WorkPoll, WorkExit
    <3>2. ~WorkStart /\ \A x \in Ents : ~Submit(x)
      BY <1>6, <2>1 DEF WorkStart, Submit
    <3>3. WorkSend(e) /\ ~(mlx5_cmd_is_down \/ ~opcode_allowed)
      BY <1>6, <2>1, <3>1, <3>2, WhoSteps
    <3>4. hpc[e] = "armed" /\ UNCHANGED idx /\ fw' = [fw EXCEPT ![idx[e]] = e]
      BY <3>3 DEF WorkSend
    <3>5. idx[e] \in Slots
      BY <3>4, IdleSlot
    <3> QED BY <3>4, <3>5
  <2>2. CASE hpc[e] = "poll" /\ e \notin fwDone
    <3>1. idx[e] \in Slots /\ fw[idx[e]] = e
      BY <2>2 DEF Honest
    <3>2. idx'[e] = idx[e]
      BY <2>2, <3>1, SentStable DEF Sent
    <3>3. ASSUME NEW x \in Ents, WorkSend(x)
          PROVE  fw'[idx[e]] = e
      <4>1. hpc[x] = "armed"
        BY <3>3 DEF WorkSend
      <4>2. entArr[idx[x]] = x /\ idx[x] \in Slots
        BY <4>1, IdleSlot
      <4>3. entArr[idx[e]] = e
        BY <2>2, <3>1, HandlerAlive
      <4>4. idx[x] # idx[e]
        BY <2>2, <4>1, <4>2, <4>3
      <4> QED BY <3>1, <3>3, <4>4 DEF WorkSend
    <3>4. ASSUME NEW s \in Slots, FwDone(s)
          PROVE  fw'[idx[e]] = e \/ e \in fwDone'
      BY <3>1, <3>4 DEF FwDone
    <3>5. fw'[idx[e]] = e \/ e \in fwDone'
      BY <3>1, <3>3, <3>4, WhoSteps
    <3> QED BY <3>1, <3>2, <3>5
  <2> QED BY <1>0, <2>1, <2>2
<1> QED BY <1>3, <1>4, <1>5, <1>6 DEF Honest

LEMMA SrvInit ==
    ASSUME Sane, Init
    PROVE  SrvInv
<1> USE IsTyped DEF Typed
<1>1. \A e \in Ents : ~Told(e) /\ nOut[e] = 0 /\ outcome[e] = "none" /\ ret[e] = "OK" /\ ~done[e]
      /\ cpc[e] = "init" /\ hpc[e] = "none"
  BY DEF Init, Told
<1>2. \A c \in Ctx : comp[c].pc = "idle"
  BY DEF Init, CompIdle
<1>3. \A e \in Ents : ~Answering(e)
  BY <1>2 DEF Answering, PastPcs
<1>4. \A e \in Ents : Told1(e) /\ Honest(e)
  BY <1>1, <1>3 DEF Told1, One, Honest, Refused
<1>5. Executes
  <2>1. \A s \in Slots, e \in Ents : fw[s] # e
    BY EntsAssumption DEF Init
  <2>2. fwDone = {} /\ \A s \in Slots : ~Reported(s)
    BY DEF Init, Reported
  <2> QED BY <2>1, <2>2 DEF Executes
<1> QED BY <1>4, <1>5 DEF SrvInv

LEMMA SrvStep ==
    ASSUME Sane, FullInv, RefInv, SrvInv, [Next]_vars
    PROVE  SrvInv'
<1>1. CASE Next
  <2>1. ASSUME NEW e \in Ents
        PROVE  Told1(e)' /\ Honest(e)'
    BY <1>1, Told1Step, HonestStep DEF SrvInv
  <2>2. Executes'
    BY <1>1, ExecutesStep DEF SrvInv
  <2> QED BY <2>1, <2>2 DEF SrvInv
<1>2. CASE UNCHANGED vars
  <2>1. UNCHANGED <<nOut, outcome, cpc, wq, hpc, pending, comp, ret, done, idx, entArr, fw, fwDone, eqes,
                    devState>>
    BY <1>2 DEF vars
  <2>2. ASSUME NEW e \in Ents
        PROVE  Told1(e)' /\ Honest(e)'
    <3>1. Told1(e) /\ Honest(e)
      BY DEF SrvInv
    <3>2. Told1(e)'
      BY <2>1, <3>1 DEF Told1, Told, One, Under, Queued, Finishing
    <3>3. Answering(e)' <=> Answering(e)
      BY <2>1 DEF Answering, Handled
    <3>4. Dead(e)' <=> Dead(e)
      BY <2>1 DEF Dead, Queued
    <3> QED BY <2>1, <3>1, <3>2, <3>3, <3>4 DEF Honest
  <2>3. Executes'
    <3>1. \A e \in Ents : Sent(e)' <=> Sent(e)
      BY <2>1 DEF Sent
    <3>2. \A s \in Slots : Reported(s)' <=> Reported(s)
      BY <2>1 DEF Reported
    <3>3. fwDone \subseteq Ents
      BY DEF FullInv, IndInv, TypeOK, TypeHw
    <3> QED BY <2>1, <3>1, <3>2, <3>3 DEF Executes, SrvInv
  <2> QED BY <2>2, <2>3 DEF SrvInv
<1> QED BY <1>1, <1>2

(* A step that answers is an answer of the service: the first one to this  *)
(* command, "OK" only after the firmware executed it, a refusal only when  *)
(* it did not.                                                             *)
LEMMA TellAnswers ==
    ASSUME FullInv, SrvInv, SrvInv', NEW e \in Ents, NEW r \in OutcomeCodes \ {"none"}, Tell(e, r),
           nOut[e] = 0, UNCHANGED fwDone
    PROVE  Service!Answer(e, r) /\ Service!Next
<1>t. outcome \in [Ents -> OutcomeCodes] /\ nOut \in [Ents -> Nat]
  BY DEF FullInv, IndInv, TypeOK, TypeOut
<1>1. outcome'[e] = r /\ nOut' = [nOut EXCEPT ![e] = 1] /\ outcome' = [outcome EXCEPT ![e] = r]
  BY <1>t DEF Tell
<1>2. r = "OK" => e \in fwDone
  BY <1>1 DEF SrvInv, Honest
<1>3. r \in Refused => e \notin fwDone
  <2>1. ASSUME r \in Refused
        PROVE  Dead(e)'
    BY <1>1, <2>1 DEF SrvInv, Honest
  <2>2. e \in fwDone' => Sent(e)'
    BY DEF SrvInv, Executes
  <2>3. ~(Sent(e)' /\ Dead(e)')
    BY DEF Sent, Dead
  <2> QED BY <2>1, <2>2, <2>3
<1>4. {x \in Ents : nOut[x] = 1}' = {x \in Ents : nOut[x] = 1} \cup {e} /\ e \notin {x \in Ents : nOut[x] = 1}
  BY <1>t, <1>1
<1>5. Service!Answer(e, r)
  BY <1>1, <1>2, <1>3, <1>4 DEF Service!Answer, Refused
<1>6. r \in Refused \cup {"ENXIO", "ETIMEDOUT"} \cup {"OK"}
  BY DEF OutcomeCodes, RetCodes, Refused
<1> QED BY <1>5, <1>6 DEF Service!Next, Refused

(* Every step of the interface is a step of the service, or none.          *)
LEMMA ServiceStep ==
    ASSUME Sane, FullInv, RefInv, SrvInv, SrvInv', [Next]_vars
    PROVE  [Service!Next]_(Service!svars)
<1> USE IsTyped DEF Typed
<1>t. nOut \in [Ents -> Nat] /\ fwDone \subseteq Ents
  BY DEF FullInv, IndInv, TypeOK, TypeOut, TypeHw
<1>1. ASSUME NEW e \in Ents, CmdRefuse(e) \/ SubmitFails(e) \/ CmdReturn(e), Next
      PROVE  Service!Next
  <2>1. PICK r \in OutcomeCodes \ {"none"} : Tell(e, r)
    <3>1. CASE CmdRefuse(e) \/ SubmitFails(e)
      BY <3>1 DEF CmdRefuse, SubmitFails, OutcomeCodes, RetCodes
    <3>2. CASE CmdReturn(e)
      <4>1. ret[e] \in OutcomeCodes \ {"none"}
        BY DEF OutcomeCodes, RetCodes
      <4> QED BY <3>2, <4>1 DEF CmdReturn
    <3> QED BY <1>1, <3>1, <3>2
  <2>2. cpc[e] # "returned" /\ UNCHANGED fwDone
    BY <1>1 DEF CmdRefuse, SubmitFails, CmdReturn
  <2>3. nOut[e] = 0
    BY <2>2 DEF SrvInv, Told1, Told, One
  <2> QED BY <2>1, <2>2, <2>3, TellAnswers
<1>2. ASSUME NEW c \in Ctx, CompFinish(c), Kind[comp[c].ent].callback, Next
      PROVE  Service!Next
  <2>1. PICK e \in Ents : e = comp[c].ent /\ Under(e) /\ Kind[e].callback
    BY <1>2, FinishUnder
  <2>2. PICK r \in OutcomeCodes \ {"none"} : Tell(e, r)
    <3>1. ret[e] \in RetCodes
      OBVIOUS
    <3>2. ret[e] \in OutcomeCodes \ {"none"} /\ "ENXIO" \in OutcomeCodes \ {"none"}
      BY <3>1 DEF OutcomeCodes, RetCodes
    <3> QED BY <1>2, <2>1, <3>2 DEF CompFinish
  <2>3. UNCHANGED fwDone
    BY <1>2 DEF CompFinish
  <2>4. nOut[e] = 0
    BY <2>1 DEF SrvInv, Told1, Told, One
  <2> QED BY <2>2, <2>3, <2>4, TellAnswers
<1>3. ASSUME NEW s \in Slots, FwDone(s)
      PROVE  Service!Next
  <2>1. PICK e \in Ents : e = fw[s]
    BY <1>3 DEF FwDone
  <2>2. Sent(e) /\ e \notin fwDone
    BY <2>1 DEF SrvInv, Executes
  <2>3. fwDone' = fwDone \cup {e} /\ UNCHANGED <<nOut, outcome>>
    BY <1>3, <2>1 DEF FwDone
  <2>4. outcome[e] \notin Refused /\ outcome[e] # "OK"
    BY <2>2 DEF SrvInv, Honest, Sent, Dead
  <2>5. outcome[e] \in {"ENXIO", "ETIMEDOUT"} \cup {"none"}
    BY <2>4 DEF FullInv, IndInv, TypeOK, TypeOut, OutcomeCodes, RetCodes, Refused
  <2>6. {x \in Ents : nOut[x] = 1}' = {x \in Ents : nOut[x] = 1}
    BY <2>3
  <2>7. Service!Execute(e)
    BY <2>2, <2>3, <2>5, <2>6 DEF Service!Execute
  <2> QED BY <2>7 DEF Service!Next
<1>4. ASSUME UNCHANGED <<nOut, outcome>>, UNCHANGED fwDone
      PROVE  UNCHANGED Service!svars
  BY <1>4 DEF Service!svars
<1>5. CASE UNCHANGED vars
  BY <1>4, <1>5 DEF vars
<1>6. CASE Next
  <2>1. (\E s \in Slots : FwDone(s)) \/ UNCHANGED fwDone
    BY <1>6, WhoSteps DEF WorkSend
  <2> QED BY <1>1, <1>2, <1>3, <1>4, <1>6, <2>1, TellSteps
<1> QED BY <1>5, <1>6

(* Under Sane the command interface keeps the promise of CmdService for    *)
(* every number of commands and slots: mlx5_cmd_exec() and the callback of *)
(* mlx5_cmd_exec_cb() answer each command at most once, say "OK" only      *)
(* after the firmware executed it, and the firmware never executes a       *)
(* command that was refused, cancelled or found no slot.                   *)
THEOREM KeepsPromise ==
    ASSUME Sane
    PROVE  Spec => Implements
<1>1. Init => SrvInv
  BY SrvInit
<1>2. FullInv /\ RefInv /\ SrvInv /\ [Next]_vars => SrvInv'
  BY SrvStep
<1>3. Spec => []SrvInv
  BY <1>1, <1>2, FullInvariance, RefInvariance, PTL DEF Spec
<1>4. Init => Service!Init
  BY DEF Init, Service!Init
<1>5. FullInv /\ RefInv /\ SrvInv /\ SrvInv' /\ [Next]_vars => [Service!Next]_(Service!svars)
  BY ServiceStep
<1> QED BY <1>3, <1>4, <1>5, FullInvariance, RefInvariance, PTL DEF Spec, Implements, Service!Spec
-----------------------------------------------------------------------------
(* The steps of the permits.                                               *)

LEMMA PermitSteps ==
    ASSUME FullInv, Next
    PROVE  /\ \/ UNCHANGED throttleSem
              \/ \E e \in Ents : ThrottleDown(e) \/ SubmitFails(e) \/ CmdReturn(e)
           /\ UNCHANGED got \/ AdminDown \/ AdminApply
           /\ UNCHANGED <<fgot, fpc>> \/ FlushStep \/ DevError
           /\ \/ pagesSem' \in Nat /\ pagesSem' >= pagesSem
              \/ FlushTry \/ AdminDown \/ (\E e \in Ents : WorkDown(e))
<1>0. pagesSem \in Nat
  BY DEF FullInv, IndInv, TypeOK, TypeLife
<1>1. ASSUME NEW e \in Ents, CmdRefuse(e) \/ CmdExec(e) \/ CallerStep(e)
      PROVE  /\ UNCHANGED throttleSem \/ ThrottleDown(e) \/ SubmitFails(e) \/ CmdReturn(e)
             /\ UNCHANGED <<got, fgot, fpc>>  /\ pagesSem' \in Nat /\ pagesSem' >= pagesSem
  <2>1. CASE CmdRefuse(e) \/ CmdExec(e) \/ ThrottleDown(e) \/ SubmitFails(e) \/ WaitStep(e)
    BY <1>0, <2>1 DEF CmdRefuse, CmdExec, ThrottleDown, SubmitFails, WaitStep, Touch
  <2>2. CASE Submit(e) \/ HandlingTimeout(e) \/ CancelWork(e) \/ ExecTimeout(e)
    BY <1>0, <2>2 DEF Submit, HandlingTimeout, CancelWork, ExecTimeout, Touch
  <2>3. CASE Recover(e) \/ RewaitTimeout(e) \/ CmdReturn(e)
    BY <1>0, <2>3 DEF Recover, RewaitTimeout, CmdReturn, Touch, cmd_ent_put
  <2> QED BY <1>1, <2>1, <2>2, <2>3 DEF CallerStep
<1>2. ASSUME NEW e \in Ents, HandlerStep(e)
      PROVE  /\ UNCHANGED <<throttleSem, got, fgot, fpc>>
             /\ WorkDown(e) \/ (pagesSem' \in Nat /\ pagesSem' >= pagesSem)
  <2>1. CASE WorkDown(e) \/ WorkDownTimeout(e) \/ WorkSlotErr(e)
    BY <1>0, <2>1 DEF WorkDown, WorkDownTimeout, WorkSlotErr, FailEarly, Touch
  <2>2. CASE WorkAlloc(e)
    BY <1>0, <2>2 DEF WorkAlloc, FailEarly, cmd_alloc_index
  <2>3. CASE WorkArm(e) \/ WorkSend(e) \/ WorkPoll(e) \/ WorkExit(e)
    BY <1>0, <2>3 DEF WorkArm, WorkSend, WorkPoll, WorkExit, Touch
  <2> QED BY <1>2, <2>1, <2>2, <2>3 DEF HandlerStep
<1>3. ASSUME NEW e \in Ents, TimerStep(e)
      PROVE  UNCHANGED <<throttleSem, got, fgot, fpc>> /\ pagesSem' \in Nat /\ pagesSem' >= pagesSem
  BY <1>0, <1>3 DEF TimerStep, TimerFire, TimerRecover, TimerPut, Touch, cmd_ent_put
<1>4. ASSUME NEW c \in Ctx, CompStep(c)
      PROVE  UNCHANGED <<throttleSem, got, fgot, fpc>> /\ pagesSem' \in Nat /\ pagesSem' >= pagesSem
  BY <1>0, <1>4 DEF CompStep, CompClaim, CompLatePut, CompCancel, CompRealPut, CompFinish, Touch,
                    cmd_ent_put
<1>5. ASSUME (\E s \in Slots : FwDone(s)) \/ WorkStart \/ IrqTake \/ PciOffline
      PROVE  UNCHANGED <<throttleSem, got, fgot, fpc, pagesSem>>
  BY <1>5 DEF FwDone, WorkStart, IrqTake, PciOffline, Touch
<1>6. ASSUME DevError
      PROVE  UNCHANGED <<throttleSem, got, pagesSem>>
  BY <1>6 DEF DevError
<1>7. ASSUME FlushStep
      PROVE  UNCHANGED <<throttleSem, got>> /\ (FlushTry \/ (pagesSem' \in Nat /\ pagesSem' >= pagesSem))
  <2>0. ASSUME FlushTry
        PROVE  UNCHANGED <<throttleSem, got>>
    BY <2>0 DEF FlushTry
  <2>1. ASSUME FlushTrigger \/ FlushComp
        PROVE  UNCHANGED <<throttleSem, got, pagesSem>>
    BY <2>1 DEF FlushTrigger, FlushComp
  <2>2. CASE FlushPut \/ FlushUnlock
    BY <1>0, <2>2 DEF FlushPut, FlushUnlock, cmd_ent_put
  <2> QED BY <1>0, <1>7, <2>0, <2>1, <2>2 DEF FlushStep
<1>8. ASSUME AdminNext
      PROVE  /\ UNCHANGED <<throttleSem, fgot, fpc>>
             /\ UNCHANGED got \/ AdminDown \/ AdminApply
             /\ AdminDown \/ (pagesSem' \in Nat /\ pagesSem' >= pagesSem)
  BY <1>0, <1>8 DEF AdminNext, AdminDown, AdminApply, AdminStep
<1>9. pagesSem >= pagesSem
  BY <1>0
<1>10. CASE \E e \in Ents : CmdRefuse(e) \/ CmdExec(e) \/ CallerStep(e)
  BY <1>1, <1>10
<1>11. CASE \E e \in Ents : HandlerStep(e) \/ TimerStep(e)
  BY <1>2, <1>3, <1>11
<1>12. CASE (\E c \in Ctx : CompStep(c)) \/ FlushStep \/ AdminNext
  BY <1>4, <1>7, <1>8, <1>12
<1>13. CASE (\E s \in Slots : FwDone(s)) \/ WorkStart \/ IrqTake \/ PciOffline \/ DevError
  BY <1>0, <1>5, <1>6, <1>9, <1>13
<1> QED BY <1>10, <1>11, <1>12, <1>13 DEF Next

(* The throttle semaphore: a call that took a permit gives it back when it *)
(* returns, by whatever branch.                                            *)
LEMMA ThrottleStep ==
    ASSUME FullInv, Next, ThrottleInv
    PROVE  ThrottleInv'
<1> USE IsTyped DEF Typed
<1>t. throttleSem \in Nat /\ cpc \in [Ents -> CallerPcs] /\ throttleSem' \in Nat
  <2>1. TypeOut'
    BY StepInd DEF FullInv, IndInv, TypeOK
  <2> QED BY <2>1 DEF FullInv, IndInv, TypeOK, TypeOut
<1>f. IsFiniteSet(Throttled) /\ Cardinality(Throttled) \in Nat
  BY CountedFinite DEF Throttled
<1>1. ASSUME NEW e \in Ents, CmdRefuse(e) \/ CmdExec(e) \/ CallerStep(e)
      PROVE  /\ \A f \in Ents : f # e => cpc'[f] = cpc[f]
             /\ Kind[e].throttle /\ Kind[e].callback => cpc'[e] \in {"init", "returned"}
             /\ cpc'[e] = "throttle" => Kind[e].throttle
             /\ ThrottleDown(e) \/ SubmitFails(e) \/ CmdReturn(e) \/ (e \in Throttled' <=> e \in Throttled)
  <2>0. /\ Kind[e].throttle /\ Kind[e].callback => cpc[e] \in {"init", "returned"}
        /\ cpc[e] = "throttle" => Kind[e].throttle
    BY DEF ThrottleInv
  <2>1. CASE CmdRefuse(e) \/ CmdExec(e) \/ ThrottleDown(e) \/ SubmitFails(e) \/ WaitStep(e)
    BY <2>0, <2>1 DEF CmdRefuse, CmdExec, ThrottleDown, SubmitFails, WaitStep, Throttled
  <2>2. CASE Submit(e) \/ HandlingTimeout(e) \/ CancelWork(e) \/ ExecTimeout(e)
    BY <2>0, <2>2 DEF Submit, HandlingTimeout, CancelWork, ExecTimeout, Throttled
  <2>3. CASE Recover(e) \/ RewaitTimeout(e) \/ CmdReturn(e)
    BY <2>0, <2>3 DEF Recover, RewaitTimeout, CmdReturn, Throttled
  <2> QED BY <1>1, <2>1, <2>2, <2>3 DEF CallerStep
<1>2. \A f \in Ents : /\ Kind[f].throttle /\ Kind[f].callback => cpc'[f] \in {"init", "returned"}
                      /\ cpc'[f] = "throttle" => Kind[f].throttle
  BY <1>1, WhoSteps DEF ThrottleInv
<1>3. ASSUME Throttled' = Throttled, throttleSem' = throttleSem
      PROVE  ThrottleInv'
  BY <1>2, <1>3 DEF ThrottleInv, ThrottleMax
<1>4. ASSUME NEW e \in Ents, ThrottleDown(e)
      PROVE  ThrottleInv'
  <2>1. /\ cpc[e] = "throttle"  /\ cpc' = [cpc EXCEPT ![e] = "submit"]
        /\ throttleSem > 0  /\ throttleSem' = throttleSem - 1
    BY <1>4 DEF ThrottleDown
  <2>2. Kind[e].throttle
    BY <2>1 DEF ThrottleInv
  <2>3. QED
    <3>1. e \notin Throttled /\ Throttled' = Throttled \cup {e}
      BY <1>t, <2>1, <2>2 DEF Throttled
    <3>2. Cardinality(Throttled') = Cardinality(Throttled) + 1
      BY <1>f, <3>1, FS_AddElement
    <3>3. throttleSem' + Cardinality(Throttled') = ThrottleMax
      BY <1>t, <1>f, <2>1, <3>2 DEF ThrottleInv
    <3> QED BY <1>2, <3>3 DEF ThrottleInv, ThrottleMax
<1>5. ASSUME NEW e \in Ents, SubmitFails(e) \/ CmdReturn(e)
      PROVE  ThrottleInv'
  <2>1. cpc[e] \in {"submit", "out"} /\ cpc' = [cpc EXCEPT ![e] = "returned"] /\ ThrottleUp(e)
    BY <1>5 DEF SubmitFails, CmdReturn
  <2>2. CASE ~Kind[e].throttle
    <3>1. Throttled' = Throttled
      BY <1>t, <2>1, <2>2 DEF Throttled
    <3> QED BY <1>3, <2>1, <2>2, <3>1 DEF ThrottleUp
  <2>3. CASE Kind[e].throttle
    <3>1. e \in Throttled /\ Throttled' = Throttled \ {e} /\ throttleSem' = throttleSem + 1
      BY <1>t, <2>1, <2>3 DEF Throttled, ThrottleUp
    <3>2. Cardinality(Throttled') = Cardinality(Throttled) - 1
      BY <1>f, <3>1, FS_RemoveElement
    <3>3. throttleSem' + Cardinality(Throttled') = ThrottleMax
      BY <1>t, <1>f, <3>1, <3>2 DEF ThrottleInv
    <3> QED BY <1>2, <3>3 DEF ThrottleInv, ThrottleMax
  <2> QED BY <2>2, <2>3
<1>6. ASSUME NEW e \in Ents, CmdRefuse(e) \/ CmdExec(e) \/ CallerStep(e),
             ~(ThrottleDown(e) \/ SubmitFails(e) \/ CmdReturn(e))
      PROVE  Throttled' = Throttled
  <2>1. e \in Throttled' <=> e \in Throttled
    BY <1>1, <1>6
  <2>2. \A f \in Ents : f # e => cpc'[f] = cpc[f]
    BY <1>1, <1>6
  <2> QED BY <2>1, <2>2 DEF Throttled
<1>7. CASE UNCHANGED cpc
  BY <1>3, <1>4, <1>5, <1>7, PermitSteps DEF Throttled
<1>8. ASSUME NEW e \in Ents, CmdRefuse(e) \/ CmdExec(e) \/ CallerStep(e)
      PROVE  ThrottleInv'
  BY <1>3, <1>4, <1>5, <1>6, <1>8, PermitSteps
<1> QED BY <1>7, <1>8, WhoSteps

(* The flush holds permits between its start and its end, and somebody     *)
(* holds pages_sem while it is taken.                                      *)
LEMMA HolderSteps ==
    ASSUME FullInv, RefInv, Next, NEW e \in Ents, HoldsPages(e)
    PROVE  HoldsPages(e)' \/ (pagesSem' \in Nat /\ pagesSem' > 0)
<1> USE IsTyped DEF Typed
<1>t. pagesSem \in Nat /\ MaxReg # NoIdx
  BY MaxRegAssumption DEF FullInv, IndInv, TypeOK, TypeLife, NoIdx
<1>1. CASE hpc[e] = "gotSem"
  <2>1. idx[e] = NoIdx /\ cpc[e] # "submit"
    BY <1>1 DEF FullInv, IndInv, EntryShape
  <2>2. CASE hpc'[e] = "gotSem"
    BY <2>2 DEF HoldsPages
  <2>3. CASE WorkAlloc(e)
    <3>1. FreeSlots(e) = {MaxReg}
      BY DEF HoldsPages, FreeSlots
    <3>2. Lowest(FreeSlots(e)) = MaxReg
      <4>1. FreeSlots(e) \in SUBSET Slots /\ FreeSlots(e) # {}
        BY <3>1, MaxRegAssumption DEF Slots
      <4>2. Lowest(FreeSlots(e)) \in FreeSlots(e)
        BY <4>1, LowestIn
      <4> QED BY <3>1, <4>2
    <3>3. cmd_alloc_index(e, MaxReg)
      BY <2>3, <3>1, <3>2 DEF WorkAlloc
    <3>4. idx'[e] = MaxReg /\ refcnt'[e] = refcnt[e]
      BY <3>3 DEF cmd_alloc_index
    <3>5. refcnt[e] > 0
      BY <1>1, HandlerAlive
    <3> QED BY <3>4, <3>5 DEF HoldsPages
  <2>4. ASSUME NEW x \in Ents, Submit(x)
        PROVE  hpc'[e] = hpc[e]
    BY <2>1, <2>4 DEF Submit
  <2>5. ASSUME NEW x \in Ents, HandlerStep(x)
        PROVE  hpc'[e] = hpc[e] \/ WorkAlloc(e)
    BY <1>1, <2>5 DEF HandlerStep, WorkDown, WorkDownTimeout, WorkSlotErr, WorkArm, WorkSend,
                      WorkPoll, WorkExit, WorkAlloc
  <2>6. ASSUME WorkStart
        PROVE  hpc'[e] = hpc[e]
    <3>1. hpc[Head(wq)] = "none"
      BY <2>6, QueuedAlive DEF WorkStart
    <3> QED BY <1>1, <2>6, <3>1 DEF WorkStart
  <2> QED BY <1>1, <2>2, <2>3, <2>4, <2>5, <2>6, WhoSteps
<1>2. CASE refcnt[e] > 0 /\ idx[e] = MaxReg
  <2>0. IndInv
    BY DEF FullInv
  <2>1. CASE UNCHANGED idx /\ refcnt'[e] > 0
    BY <1>2, <2>1 DEF HoldsPages
  <2>2. ASSUME UNCHANGED idx, NEW x \in Ents, cmd_ent_put(x)
        PROVE  HoldsPages(e)' \/ (pagesSem' \in Nat /\ pagesSem' > 0)
    <3>1. CASE x # e
      BY <1>2, <2>1, <2>2, <3>1 DEF cmd_ent_put
    <3>2. CASE x = e /\ refcnt[e] > 1
      BY <1>2, <2>1, <2>2, <3>2 DEF cmd_ent_put
    <3>3. CASE x = e /\ ~(refcnt[e] > 1)
      <4>1. LastRef(e) /\ Kind[e].page
        BY <1>t, <1>2, <3>3 DEF LastRef, HoldsPages
      <4> QED BY <1>t, <2>2, <3>3, <4>1 DEF cmd_ent_put
    <3> QED BY <3>1, <3>2, <3>3
  <2>3. ASSUME NEW x \in Ents, WorkAlloc(x), cmd_alloc_index(x, Lowest(FreeSlots(x)))
        PROVE  HoldsPages(e)'
    <3>1. x # e
      BY <1>t, <1>2, <2>3 DEF WorkAlloc, FullInv, IndInv, EntryShape
    <3>2. idx'[e] = idx[e] /\ refcnt' = refcnt
      BY <2>3, <3>1 DEF cmd_alloc_index
    <3> QED BY <1>2, <3>2 DEF HoldsPages
  <2> QED BY <1>t, <1>2, <2>0, <2>1, <2>2, <2>3, SlotSteps
<1> QED BY <1>1, <1>2 DEF HoldsPages

LEMMA PermitStep ==
    ASSUME FullInv, RefInv, Next, PermitInv
    PROVE  PermitInv'
<1>t. /\ pagesSem \in Nat  /\ got \in 0 .. MaxReg + 1  /\ fgot \in 0 .. MaxReg + 1  /\ MaxReg \in Nat
      /\ devState \in {"UP", "INTERNAL_ERROR"}
  BY MaxRegAssumption DEF FullInv, IndInv, TypeOK, TypeLife, TypeEnv
<1>1. fpc' \in {"idle", "start", "done"} => fgot' = 0
  <2>1. CASE UNCHANGED <<fgot, fpc>>
    BY <2>1 DEF PermitInv
  <2>2. CASE DevError
    <3>1. devState = "UP" /\ fgot' = fgot
      BY <2>2 DEF DevError
    <3>2. fpc = "idle"
      BY <3>1 DEF RefInv, Held
    <3> QED BY <3>1, <3>2 DEF PermitInv
  <2>3. CASE FlushStep
    BY <2>3 DEF FlushStep, FlushTry, FlushTrigger, FlushComp, FlushPut, FlushUnlock
  <2> QED BY <2>1, <2>2, <2>3, PermitSteps
<1>2. devState' # "UP" => fpc' # "idle"
  <2>1. fpc' = fpc \/ fpc' # "idle"
    BY PermitSteps DEF DevError, FlushStep, FlushTry, FlushTrigger, FlushComp, FlushPut, FlushUnlock
  <2>2. devState' = devState \/ DevError
    BY WhoSteps
  <2>3. DevError => fpc' # "idle"
    BY DEF DevError
  <2> QED BY <2>1, <2>2, <2>3 DEF PermitInv
<1>3. ASSUME pagesSem' = 0
      PROVE  got' = MaxReg + 1 \/ fgot' = MaxReg + 1 \/ \E e \in Ents : HoldsPages(e)'
  <2>1. CASE pagesSem = 0 /\ got = MaxReg + 1
    <3>1. ~AdminDown
      BY <1>t, <2>1 DEF AdminDown
    <3>2. ~AdminApply
      BY <1>t, <1>3 DEF AdminApply
    <3> QED BY <2>1, <3>1, <3>2, PermitSteps
  <2>2. CASE pagesSem = 0 /\ fgot = MaxReg + 1
    <3>1. FlushStep => fgot' = fgot
      <4>1. FlushTrigger \/ FlushComp \/ FlushPut => fgot' = fgot
        BY DEF FlushTrigger, FlushComp, FlushPut
      <4>2. FlushTry \/ FlushUnlock => fgot' = fgot
        BY <1>t, <1>3, <2>2 DEF FlushTry, FlushUnlock
      <4> QED BY <4>1, <4>2 DEF FlushStep
    <3>2. DevError => fgot' = fgot
      BY DEF DevError
    <3> QED BY <2>2, <3>1, <3>2, PermitSteps
  <2>3. CASE pagesSem = 0 /\ \E e \in Ents : HoldsPages(e)
    BY <1>3, <2>3, HolderSteps
  <2>4. CASE pagesSem # 0
    <3>1. FlushTry => fgot' = MaxReg + 1
      BY <1>t, <1>3, <2>4 DEF FlushTry
    <3>2. AdminDown => got' = MaxReg + 1
      BY <1>t, <1>3, <2>4 DEF AdminDown
    <3>3. ASSUME NEW e \in Ents, WorkDown(e)
          PROVE  HoldsPages(e)'
      <4>1. hpc \in [Ents -> HandlerPcs]
        BY DEF FullInv, IndInv, TypeOK, TypePc
      <4> QED BY <1>t, <1>3, <2>4, <3>3, <4>1 DEF WorkDown, HoldsPages
    <3>4. ~(pagesSem' >= pagesSem)
      BY <1>t, <1>3, <2>4
    <3> QED BY <3>1, <3>2, <3>3, <3>4, PermitSteps
  <2> QED BY <2>1, <2>2, <2>3, <2>4 DEF PermitInv
<1> QED BY <1>1, <1>2, <1>3 DEF PermitInv

(* An answer of the firmware is not lost while the interface uses events.  *)
LEMMA BusySteps ==
    ASSUME Sane, FullInv, RefInv, Next, devState = "UP", mode = "EVENTS", NEW s \in Slots, Busy(s)
    PROVE  Busy(s)' \/ (CompClaim(Irq) /\ comp[Irq].slot = s)
<1> USE IsTyped, Contexts DEF Typed
<1>1. eqUp /\ nbReg
  BY DEF RefInv, Modes
<1>2. CASE fw[s] # NoEnt
  <2>1. ASSUME NEW x \in Ents, WorkSend(x)
        PROVE  fw'[s] # NoEnt
    BY <1>2, <2>1 DEF WorkSend
  <2>2. ASSUME NEW t \in Slots, FwDone(t)
        PROVE  Busy(s)'
    <3>1. fw' = [fw EXCEPT ![t] = NoEnt] /\ eqes' = Append(eqes, t)
      BY <1>1, <2>2 DEF FwDone
    <3>2. CASE s # t
      BY <1>2, <3>1, <3>2 DEF Busy
    <3>3. CASE s = t
      <4>1. eqes \in Seq(Slots)
        OBVIOUS
      <4>2. Len(eqes) + 1 \in DOMAIN Append(eqes, t) /\ Append(eqes, t)[Len(eqes) + 1] = t
        BY <4>1
      <4> QED BY <3>1, <3>3, <4>2 DEF Busy, Reported
    <3> QED BY <3>2, <3>3
  <2> QED BY <1>2, <2>1, <2>2, WhoSteps DEF Busy
<1>3. CASE Reported(s)
  <2>1. PICK i \in DOMAIN eqes : eqes[i] = s
    BY <1>3 DEF Reported
  <2>2. ASSUME NEW t \in Slots, FwDone(t)
        PROVE  Reported(s)'
    <3>1. eqes' = Append(eqes, t)
      BY <1>1, <2>2 DEF FwDone
    <3>2. i \in DOMAIN Append(eqes, t) /\ Append(eqes, t)[i] = s
      BY <2>1
    <3> QED BY <3>1, <3>2 DEF Reported
  <2>3. ASSUME IrqTake
        PROVE  Busy(s)'
    <3>1. /\ eqes' = Tail(eqes)  /\ eqes # << >>  /\ CallComp(Irq, Head(eqes), "EVENT")
      BY <1>1, <2>3 DEF IrqTake
    <3>2. comp'[Irq].pc = "claim" /\ comp'[Irq].slot = Head(eqes)
      BY <3>1 DEF CallComp
    <3>3. s = Head(eqes) \/ \E j \in DOMAIN Tail(eqes) : Tail(eqes)[j] = s
      <4>1. eqes \in Seq(Slots) /\ eqes # << >>
        BY <3>1
      <4> HIDE IsTyped, Contexts DEF Typed
      <4>2. (\E j \in DOMAIN eqes : eqes[j] = s)
              <=> s = Head(eqes) \/ (\E j \in DOMAIN Tail(eqes) : Tail(eqes)[j] = s)
        BY <4>1, TailElements
      <4> QED BY <2>1, <4>2
    <3> QED BY <3>1, <3>2, <3>3 DEF Busy, Asked, Reported
  <2>4. ASSUME AdminStep
        PROVE  eqes' = eqes
    <3>1. phase # "destroy"
      BY DEF RefInv, Modes
    <3> QED BY <2>4, <3>1 DEF AdminStep
  <2> QED BY <1>3, <2>2, <2>3, <2>4, WhoSteps DEF Busy, Reported
<1>4. CASE Asked(s)
  <2>1. comp[Irq].pc = "claim" /\ comp[Irq].slot = s
    BY <1>4 DEF Asked
  <2>2. ASSUME NEW d \in Ctx, NEW r, NEW t, CallComp(d, r, t), d # Irq
        PROVE  comp'[Irq] = comp[Irq]
    BY <2>2 DEF CallComp
  <2>3. ASSUME NEW x \in Ents, RewaitTimeout(x) \/ WorkSend(x) \/ WorkPoll(x) \/ TimerRecover(x)
        PROVE  comp'[Irq] = comp[Irq]
    <3>1. \/ UNCHANGED comp  \/ \E r, t : CallComp(Work(x), r, t)
          \/ \E r, t : CallComp(Wait(x), r, t)
          \/ \E r, t : CallComp(Tmo(x), r, t)
      BY <2>3 DEF RewaitTimeout, WorkSend, WorkPoll, TimerRecover
    <3>2. /\ Work(x) # Irq  /\ Wait(x) # Irq  /\ Tmo(x) # Irq
          /\ Work(x) \in Ctx  /\ Wait(x) \in Ctx  /\ Tmo(x) \in Ctx
      OBVIOUS
    <3> QED BY <2>2, <3>1, <3>2
  <2>4. ASSUME NEW c \in Ctx, CompStep(c)
        PROVE  comp'[Irq] = comp[Irq] \/ CompClaim(Irq)
    <3>1. CASE c # Irq
      BY <2>4, <3>1, CompStepFrame
    <3>2. CASE c = Irq
      BY <2>1, <2>4, <3>2 DEF CompStep, CompLatePut, CompCancel, CompRealPut, CompFinish
    <3> QED BY <3>1, <3>2
  <2>5. ~IrqTake
    BY <2>1 DEF IrqTake
  <2>6. FlushComp => comp'[Irq] = comp[Irq]
    <3>1. FlushComp => UNCHANGED comp \/ CallComp(Flush, Lowest(ftodo), "FORCED")
      BY DEF FlushComp
    <3> QED BY <2>2, <3>1
  <2>7. comp'[Irq] = comp[Irq] \/ CompClaim(Irq)
    BY <2>3, <2>4, <2>5, <2>6, WhoSteps
  <2> QED BY <2>1, <2>7 DEF Busy, Asked
<1> QED BY <1>2, <1>3, <1>4 DEF Busy

(* The flush has taken every permit of sem: no ordinary command has a      *)
(* slot.                                                                   *)
LEMMA FlushDrained ==
    ASSUME FullInv, fgot = MaxReg
    PROVE  Reg \subseteq bitmask
<1>0. MaxReg \in Nat \ {0} /\ sem \in Nat /\ IndInv
  BY MaxRegAssumption DEF FullInv, IndInv, TypeOK, TypeLife
<1>1. Drained(fgot) = MaxReg
  BY <1>0 DEF Drained
<1>2. Cardinality(bitmask \cap Reg) >= MaxReg
  BY <1>0, <1>1, Counts DEF IndInv, PermitsBacked
<1>3. IsFiniteSet(Reg) /\ Cardinality(Reg) = MaxReg
  <2>1. IsFiniteSet(0 .. MaxReg - 1) /\ Cardinality(0 .. MaxReg - 1) = MaxReg
    BY <1>0, FS_Interval
  <2> QED BY <2>1, Zenon DEF Reg
<1>4. /\ Cardinality(bitmask \cap Reg) <= Cardinality(Reg)
      /\ Cardinality(bitmask \cap Reg) = Cardinality(Reg) => bitmask \cap Reg = Reg
  BY <1>3, FS_Subset
<1>5. Cardinality(bitmask \cap Reg) \in Nat
  BY CountedFinite
<1> QED BY <1>0, <1>2, <1>3, <1>4, <1>5

(* An armed command leaves its handler answered, with the firmware, or to  *)
(* the flush.                                                              *)
LEMMA ExitSteps ==
    ASSUME Sane, FullInv, RefInv, Next, NEW e \in Ents, pending'[e], hpc'[e] = "exit"
    PROVE  /\ pending[e]
           /\ \/ hpc[e] = "exit"
              \/ devState = "UP" /\ devState' = "UP" /\ idx[e] \in Slots /\ idx' = idx /\ fw'[idx[e]] = e
<1> USE IsTyped DEF Typed
<1>1. pending[e]
  <2>1. ASSUME NEW x \in Ents, WorkArm(x)
        PROVE  pending'[e] = pending[e]
    BY <2>1 DEF WorkArm
  <2>2. ASSUME NEW c \in Ctx, CompClaim(c)
        PROVE  pending[e]
    BY <2>2 DEF CompClaim
  <2>3. IndInv
    BY DEF FullInv
  <2> QED BY <2>1, <2>2, <2>3, PendingSteps
<1>2. CASE hpc[e] # "exit"
  <2>1. ~WorkStart /\ \A x \in Ents : ~Submit(x)
    BY <1>2 DEF WorkStart, Submit
  <2>2. HandlerStep(e)
    <3>1. ASSUME NEW x \in Ents, HandlerStep(x), x # e
          PROVE  hpc'[e] = hpc[e]
      BY <3>1 DEF HandlerStep, WorkDown, WorkDownTimeout, WorkSlotErr, WorkAlloc, WorkArm,
            WorkSend, WorkPoll, WorkExit
    <3> QED BY <1>2, <2>1, <3>1, WhoSteps
  <2>3. Armed(e)
    BY <1>1 DEF FullInv, ClaimedOnce
  <2>4. hpc[e] \in {"armed", "poll", "comp"}
    BY <1>2, <2>3 DEF Armed
  <2>5. ~WorkExit(e)
    BY <1>1 DEF WorkExit, RefInv, Places
  <2>6. WorkSend(e) /\ ~(mlx5_cmd_is_down \/ ~opcode_allowed)
    BY <1>2, <2>2, <2>4, <2>5 DEF HandlerStep, WorkDown, WorkDownTimeout, WorkSlotErr, WorkAlloc, WorkArm,
            WorkSend, WorkPoll
  <2>7. devState = "UP" /\ UNCHANGED <<devState, idx>> /\ fw' = [fw EXCEPT ![idx[e]] = e] /\ hpc[e] = "armed"
    BY <2>6 DEF WorkSend, mlx5_cmd_is_down, FullInv, IndInv, TypeOK, TypeEnv
  <2>8. idx[e] \in Slots
    BY <2>7, IdleSlot
  <2> QED BY <1>1, <2>7, <2>8
<1> QED BY <1>1, <1>2

LEMMA UnansweredStep ==
    ASSUME Sane, FullInv, RefInv, Next, NEW e \in Ents, Unanswered(e)
    PROVE  Unanswered(e)'
<1> USE IsTyped DEF Typed
<1>t. /\ devState \in {"UP", "INTERNAL_ERROR"}  /\ mode \in {"POLLING", "EVENTS"}  /\ MaxReg \in Nat
      /\ pagesSem \in Nat
  BY MaxRegAssumption DEF FullInv, IndInv, TypeOK, TypeEnv, TypeLife
<1>1. ASSUME pending'[e]
      PROVE  idx'[e] # NoIdx
  <2>1. idx[e] # NoIdx
    <3>1. ASSUME NEW x \in Ents, WorkArm(x)
          PROVE  pending'[e] = pending[e] \/ idx[e] # NoIdx
      BY <3>1 DEF WorkArm, FullInv, IndInv, EntryShape
    <3>2. ASSUME NEW c \in Ctx, CompClaim(c)
          PROVE  pending[e]
      BY <1>1, <3>2 DEF CompClaim
    <3>3. IndInv
      BY DEF FullInv
    <3> QED BY <1>1, <3>1, <3>2, <3>3, PendingSteps DEF Unanswered
  <2>2. ASSUME NEW x \in Ents, WorkAlloc(x)
        PROVE  idx'[e] # NoIdx
    <3>1. Lowest(FreeSlots(x)) \in Slots /\ cmd_alloc_index(x, Lowest(FreeSlots(x)))
      BY <2>2, FreshSlot
    <3> QED BY <2>1, <3>1 DEF cmd_alloc_index
  <2> QED BY <2>1, <2>2, WhoSteps
<1>2. ASSUME pending'[e], hpc'[e] = "exit", devState' = "UP"
      PROVE  \E s \in Slots : idx'[e] = s /\ Busy(s)'
  <2>1. CASE hpc[e] # "exit"
    <3>1. PICK s \in Slots : s = idx[e] /\ idx' = idx /\ fw'[s] = e
      BY <1>2, <2>1, ExitSteps
    <3>2. Busy(s)'
      BY <3>1 DEF Busy
    <3> QED BY <3>1, <3>2
  <2>2. CASE hpc[e] = "exit"
    <3>1. pending[e] /\ devState = "UP"
      BY <1>2, ExitSteps, WhoSteps DEF DevError
    <3>2. PICK s \in Slots : idx[e] = s /\ Busy(s)
      BY <2>2, <3>1 DEF Unanswered
    <3>3. entArr[s] = e
      BY <3>1, <3>2, Alive DEF RealRef
    <3>4. mode = "EVENTS"
      BY <1>t, <2>2, <3>1, <3>2, <3>3 DEF RefInv, Answers
    <3>5. ~(CompClaim(Irq) /\ comp[Irq].slot = s)
      <4>1. ASSUME CompClaim(Irq), comp[Irq].slot = s
            PROVE  pending' = [pending EXCEPT ![e] = FALSE]
        BY <3>3, <4>1 DEF CompClaim
      <4> QED BY <1>2, <4>1
    <3>6. Busy(s)'
      BY <3>1, <3>2, <3>4, <3>5, BusySteps
    <3>7. idx'[e] = idx[e]
      BY <1>1, <2>2, <3>1, SentStable DEF Sent, Unanswered
    <3> QED BY <3>2, <3>6, <3>7
  <2> QED BY <2>1, <2>2
<1>3. ASSUME pending'[e], hpc'[e] = "exit", devState' # "UP"
      PROVE  Flushing'
  <2>1. CASE devState = "UP"
    <3>1. DevError
      BY <1>3, <2>1, WhoSteps
    <3> QED BY <3>1 DEF DevError, Flushing
  <2>2. CASE devState # "UP"
    <3>1. pending[e] /\ hpc[e] = "exit"
      BY <1>3, <2>2, ExitSteps
    <3>2. Flushing /\ idx[e] \in Slots
      BY <2>2, <3>1 DEF Unanswered
    <3>3. refcnt[e] > 0 /\ idx[e] \notin bitmask
      BY <3>1, <3>2, Alive DEF RealRef
    <3>4. ASSUME fpc' = "unlock", FlushTry
          PROVE  FALSE
      <4>1. fgot = MaxReg /\ pagesSem > 0
        BY <3>4 DEF FlushTry
      <4>2. idx[e] = MaxReg
        <5>1. Reg \subseteq bitmask
          BY <4>1, FlushDrained
        <5>2. idx[e] \notin Reg
          BY <3>3, <5>1
        <5> QED BY <1>t, <3>2, <5>2 DEF Slots, Reg
      <4>3. HoldsPages(e)
        BY <3>2, <3>3, <4>2 DEF HoldsPages, FullInv, IndInv, EntryShape
      <4>4. pagesSem = 0
        BY <4>3 DEF FullInv, IndInv, PagesExclusive
      <4> QED BY <4>1, <4>4
    <3>5. UNCHANGED <<fgot, fpc>> => Flushing'
      BY <3>2 DEF Flushing
    <3>6. DevError => Flushing'
      BY DEF DevError, Flushing
    <3>7. FlushStep => Flushing' \/ (FlushTry /\ fpc' = "unlock")
      BY <3>2 DEF Flushing, FlushStep, FlushTry, FlushTrigger, FlushComp, FlushPut, FlushUnlock
    <3> QED BY <3>4, <3>5, <3>6, <3>7, PermitSteps
  <2> QED BY <2>1, <2>2
<1> QED BY <1>1, <1>2, <1>3 DEF Unanswered

LEMMA LeakInit ==
    ASSUME Init
    PROVE  LeakInv
<1>1. Throttled = {}
  BY DEF Init, Throttled
<1>2. ThrottleMax \in Nat /\ Cardinality(Throttled) = 0
  BY <1>1, MaxRegAssumption, FS_EmptySet DEF ThrottleMax
<1>3. ThrottleInv
  BY <1>2 DEF Init, ThrottleInv
<1>4. PermitInv
  BY DEF Init, PermitInv
<1>5. \A e \in Ents : Unanswered(e)
  BY DEF Init, Unanswered
<1> QED BY <1>3, <1>4, <1>5 DEF LeakInv

LEMMA LeakStep ==
    ASSUME Sane, FullInv, RefInv, LeakInv, [Next]_vars
    PROVE  LeakInv'
<1>1. CASE Next
  BY <1>1, ThrottleStep, PermitStep, UnansweredStep DEF LeakInv
<1>2. CASE UNCHANGED vars
  <2>1. UNCHANGED <<throttleSem, cpc, fpc, fgot, devState, pagesSem, got, hpc, refcnt, idx, pending, fw,
                    eqes, comp>>
    BY <1>2 DEF vars
  <2>2. Throttled' = Throttled
    BY <2>1 DEF Throttled
  <2>3. ThrottleInv'
    BY <2>1, <2>2 DEF LeakInv, ThrottleInv, ThrottleMax
  <2>4. PermitInv'
    BY <2>1 DEF LeakInv, PermitInv, HoldsPages
  <2>5. ASSUME NEW e \in Ents
        PROVE  Unanswered(e)'
    BY <2>1 DEF LeakInv, Unanswered, Busy, Reported, Asked, Flushing
  <2> QED BY <2>3, <2>4, <2>5 DEF LeakInv
<1> QED BY <1>1, <1>2

LEMMA QuietNoLeak ==
    ASSUME Sane, FullInv, RefInv, SrvInv, LeakInv
    PROVE  NoLeak
<1> USE IsTyped, Contexts DEF Typed
<1> SUFFICES ASSUME Quiet
             PROVE  /\ bitmask = Slots  /\ sem = MaxReg  /\ pagesSem = 1
                    /\ throttleSem = ThrottleMax
                    /\ \A e \in Ents : refcnt[e] = 0 /\ nOut[e] = 1
  BY DEF NoLeak
<1>t. MaxReg \in Nat \ {0} /\ sem \in Nat /\ pagesSem \in {0, 1} /\ throttleSem \in Nat
  BY MaxRegAssumption DEF FullInv, IndInv, TypeOK, TypeLife, TypeOut, PagesExclusive
<1>1. /\ \A e \in Ents : cpc[e] = "returned" /\ hpc[e] \in {"none", "exit"} /\ timer[e] = "off"
      /\ \A c \in Ctx : comp[c].pc = "idle"
      /\ wq = << >>  /\ eqes = << >>  /\ got = 0  /\ fpc \in {"idle", "done"}
      /\ \A s \in Slots : fw[s] = NoEnt
  BY DEF Quiet
<1>2. \A s \in Slots : ~Busy(s)
  BY <1>1 DEF Busy, Reported, Asked
<1>3. fgot = 0 /\ fheld = {} /\ ~Flushing
  BY <1>1 DEF LeakInv, PermitInv, RefInv, Held, Flushing
<1>4. ASSUME NEW e \in Ents
      PROVE  ~pending[e]
  <2>1. pending[e] => hpc[e] = "exit"
    BY <1>1 DEF FullInv, ClaimedOnce, Armed
  <2> QED BY <1>2, <1>3, <2>1 DEF LeakInv, Unanswered
<1>5. ASSUME NEW e \in Ents
      PROVE  ~Under(e)
  <2>1. ~Queued(e)
    BY <1>1 DEF Queued
  <2>2. ~Finishing(e)
    BY <1>1 DEF Finishing, PastPcs
  <2>3. hpc[e] \notin {"wantSem", "gotSem", "slotted"} /\ ~pending[e]
    BY <1>1, <1>4
  <2> QED BY <2>1, <2>2, <2>3 DEF Under
<1>6. ASSUME NEW e \in Ents
      PROVE  refcnt[e] = 0
  <2>1. ~BaseRef(e)
    BY <1>1, <1>5 DEF BaseRef, Waiting
  <2>2. ~TimerRef(e) /\ ~FlushRef(e)
    BY <1>1, <1>3 DEF TimerRef, FlushRef
  <2>3. ~RealRef(e)
    BY <1>1, <1>2, <1>4 DEF RealRef, Putting, Due, Late
  <2>4. refcnt[e] = 0 + 0 + 0 + 0
    BY <2>1, <2>2, <2>3 DEF RefInv, Refs, One
  <2> QED BY <2>4
<1>7. ASSUME NEW e \in Ents
      PROVE  nOut[e] = 1
  BY <1>1, <1>5 DEF SrvInv, Told1, Told, One
<1>r. \A e \in Ents : refcnt[e] = 0
  BY <1>6
<1>8. bitmask = Slots
  <2>1. bitmask \subseteq Slots
    OBVIOUS
  <2>2. ASSUME NEW s \in Slots
        PROVE  s \in bitmask
    BY <1>r DEF RefInv, Owned
  <2> QED BY <2>1, <2>2
<1>9. sem = MaxReg
  <2>1. Claimants = {}
    BY <1>1 DEF Claimants
  <2>2. Drained(got) = 0 /\ Drained(fgot) = 0
    BY <1>t, <1>1, <1>3 DEF Drained
  <2>3. bitmask \cap Reg = Reg
    BY <1>t, <1>8 DEF Slots, Reg
  <2>4. Cardinality(Reg) = MaxReg
    <3>1. Cardinality(0 .. MaxReg - 1) = MaxReg
      BY <1>t, FS_Interval
    <3> QED BY <3>1, Zenon DEF Reg
  <2>5. Cardinality(Claimants) = 0
    BY <2>1, FS_EmptySet
  <2>6. Cardinality(bitmask \cap Reg) =
           sem + Cardinality(Claimants) + Drained(got) + Drained(fgot)
    BY DEF FullInv, IndInv, PermitsBacked
  <2> HIDE IsTyped, Contexts DEF Typed
  <2> QED BY <1>t, <2>2, <2>3, <2>4, <2>5, <2>6
<1>10. pagesSem = 1
  <2>1. ASSUME NEW e \in Ents
        PROVE  ~HoldsPages(e)
    <3>1. hpc[e] # "gotSem" /\ refcnt[e] = 0
      BY <1>1, <1>r
    <3>2. ~(refcnt[e] > 0)
      BY <3>1
    <3> QED BY <3>1, <3>2, Zenon DEF HoldsPages
  <2> QED BY <1>t, <1>1, <1>3, <2>1 DEF LeakInv, PermitInv
<1>11. throttleSem = ThrottleMax
  <2>1. Throttled = {}
    BY <1>1 DEF Throttled
  <2>2. Cardinality(Throttled) = 0
    BY <2>1, FS_EmptySet
  <2> QED BY <1>t, <2>2 DEF LeakInv, ThrottleInv
<1> QED BY <1>6, <1>7, <1>8, <1>9, <1>10, <1>11

(* Under Sane nothing is lost, for every number of commands and slots:     *)
(* once nothing is under way every call of cmd_exec() was answered, and    *)
(* cmd_ent_put(), cmd_free_index() and the up() calls of the error paths   *)
(* have given back every entry, every slot and every permit, those of the  *)
(* throttle and of pages_sem included.                                     *)
THEOREM NothingLeaks ==
    ASSUME Sane
    PROVE  Spec => []NoLeak
<1>1. Init => SrvInv /\ LeakInv
  BY SrvInit, LeakInit
<1>2. FullInv /\ RefInv /\ SrvInv /\ LeakInv /\ [Next]_vars => SrvInv' /\ LeakInv'
  BY SrvStep, LeakStep
<1>3. FullInv /\ RefInv /\ SrvInv /\ LeakInv => NoLeak
  BY QuietNoLeak
<1> QED BY <1>1, <1>2, <1>3, FullInvariance, RefInvariance, PTL DEF Spec
=============================================================================
