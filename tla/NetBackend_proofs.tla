-------------------------- MODULE NetBackend_proofs --------------------------
(***************************************************************************)
(* Proofs about NetBackend for every platform, every network of every        *)
(* profile and every set of entries the host has of its own.                 *)
(***************************************************************************)
EXTENDS NetBackend, TransactionManager_proofs

-----------------------------------------------------------------------------
(* The manager's theorems hold of the composition *)

\* The backend and the interfaces add to the manager's steps and take none
\* away: every step of the composition is a step of the manager or leaves its
\* variables alone.
LEMMA NetStepIsManagerStep == [NetNext]_allVars => [Next]_vars
<1> SUFFICES ASSUME [NetNext]_allVars PROVE [Next]_vars
  OBVIOUS
<1>1. ASSUME NEW t \in Tx, NetBegin(t) \/ NetApply(t) \/ NetUndo(t) PROVE Next
  BY <1>1 DEF NetBegin, NetApply, NetUndo, Next, Operate
<1>2. ASSUME NEW t \in Tx, LinkUp(t) \/ LinkDown(t) PROVE UNCHANGED vars
  BY <1>2 DEF LinkUp, LinkDown
<1>3. CASE Bookkeeping
  BY <1>3 DEF Bookkeeping, Next, Operate
<1>4. CASE UNCHANGED allVars
  BY <1>4 DEF allVars
<1> QED BY <1>1, <1>2, <1>3, <1>4 DEF NetNext

THEOREM NetManagerInvariant == NetSpec => []ManagerInv
<1>1. NetInit => Init
  BY DEF NetInit
<1>2. NetSpec => Spec
  BY <1>1, NetStepIsManagerStep, PTL DEF NetSpec, Spec
<1> QED BY <1>2, ManagerInvariant, PTL

-----------------------------------------------------------------------------
(* Plans *)

LEMMA ElementOfSequence ==
  ASSUME NEW S, NEW s \in Seq(S), NEW i \in 1..Len(s)
  PROVE  s[i] \in S
OBVIOUS

\* Every mutation of a plan names the tunnel of its profile.
LEMMA PlanDevices ==
  ASSUME NEW t \in Tx, NEW i \in 1..Len(PlanOf[t])
  PROVE  \E kind, key : PlanOf[t][i] = Mutation(kind, Network[t].dev, key)
<1> DEFINE n == Network[t]
           head == <<Mutation("process", n.dev, "engine"),
                     Mutation("interface", n.dev, n.dev)>>
           routes == Each("route", n.dev, n.routes)
           names == Each("dns", n.dev, n.domains)
           M == {Mutation(k, n.dev, key) :
                   k \in {"process", "interface", "route", "dns"},
                   key \in {"engine", n.dev} \cup Dest \cup Domain}
<1>1. n.routes \in Seq(Dest) /\ n.domains \in Seq(Domain)
  BY NetworkAssumption
<1>2. head \in Seq(M)
  OBVIOUS
<1>3. routes \in Seq(M)
  BY <1>1 DEF Each
<1>4. names \in Seq(M)
  BY <1>1 DEF Each
<1>5. PlanOf[t] = head \o routes \o names
  BY DEF PlanOf, BuildNetworkPlan
<1>6. PlanOf[t] \in Seq(M)
  BY <1>2, <1>3, <1>4, <1>5
<1> HIDE DEF M
<1>7. PlanOf[t][i] \in M
  BY <1>6, ElementOfSequence
<1> QED BY <1>7 DEF M

\* A mutation stands on the host under the device it names.
LEMMA EntryDevice ==
  ASSUME NEW kind, NEW dev, NEW key
  PROVE  /\ Entry(Mutation(kind, dev, key)).dev = dev
         /\ Entry(Mutation(kind, dev, key)).kind = kind
BY DEF Entry, Mutation

LEMMA PlanEntry ==
  ASSUME NEW t \in Tx, NEW i \in 1..Len(PlanOf[t])
  PROVE  Entry(PlanOf[t][i]).dev = Network[t].dev
BY PlanDevices, EntryDevice

LEMMA PlanLength == \A t \in Tx : Len(PlanOf[t]) \in Nat
<1> SUFFICES ASSUME NEW t \in Tx PROVE Len(PlanOf[t]) \in Nat
  OBVIOUS
<1>1. Network[t].routes \in Seq(Dest) /\ Network[t].domains \in Seq(Domain)
  BY NetworkAssumption
<1> QED BY <1>1 DEF PlanOf, BuildNetworkPlan, Each

LEMMA PlanDomain == \A t \in Tx : DOMAIN PlanOf[t] = 1..Len(PlanOf[t])
<1> SUFFICES ASSUME NEW t \in Tx PROVE DOMAIN PlanOf[t] = 1..Len(PlanOf[t])
  OBVIOUS
<1>1. Network[t].routes \in Seq(Dest) /\ Network[t].domains \in Seq(Domain)
  BY NetworkAssumption
<1> QED BY <1>1 DEF PlanOf, BuildNetworkPlan, Each

-----------------------------------------------------------------------------
(* Positions beyond the plan *)

\* An operation leaves a position it has not reached, and one beyond the plan,
\* as they were.
LEMMA PositionsBeyond ==
  ASSUME TypeOK, NEW t \in Tx, InBounds(t), NEW i \in Index,
         Begin(t) \/ Operate(t) \/ Deactivate(t),
         pc[t] \in {"append", "apply"} => i > planLen[t],
         journal[t].mut[i] = "none", memory[t].mut[i] = "none"
  PROVE  journal'[t].mut[i] = "none" /\ memory'[t].mut[i] = "none"
<1> USE DEF TypeOK, Goto, SetMemory, SaveIgnored
<1>a. ASSUME pc[t] \in {"append", "apply"}, at[t] <= planLen[t], at[t] >= 1
      PROVE  at[t] \in Index /\ at[t] # i
  <2>1. planLen[t] \in 0..MaxLen /\ at[t] \in Int /\ i > planLen[t] /\ i \in Int
    BY <1>a DEF Index
  <2> QED BY <1>a, <2>1, MaxLenAssumption DEF Index
<1>b. ASSUME NEW rec \in Record, rec.mut[i] = "none",
             Saved(t, rec) \/ SaveFailed(t, rec)
      PROVE  journal'[t].mut[i] = "none"
  BY <1>b, SaveOutcome
<1>c. ASSUME NEW j \in Index, j # i, NEW m \in MutationState
       PROVE  /\ WithMutation(memory[t], j, m) \in Record
              /\ WithMutation(memory[t], j, m).mut[i] = "none"
  BY <1>c, MutationChange
<1>d. ASSUME NEW s \in TransactionState
        PROVE  /\ WithState(memory[t], s) \in Record
               /\ WithState(memory[t], s).mut[i] = "none"
  BY <1>d, StateChange
<1>1. CASE Begin(t)
  BY <1>1, <1>b, EmptyRecords DEF Begin
<1>2. CASE JournalPending(t)
  <2>1. at[t] \in Index /\ at[t] # i /\ "pending" \in MutationState
    <3>1. pc[t] = "append" /\ at[t] <= planLen[t]
      BY <1>2 DEF JournalPending
    <3>2. at[t] >= 1
      BY <3>1 DEF InBounds
    <3> QED BY <3>1, <3>2, <1>a DEF MutationState
  <2> QED BY <1>2, <2>1, <1>b, <1>c DEF JournalPending
<1>3. CASE ApplyMutation(t)
  <2>1. /\ at[t] \in Index /\ at[t] # i
        /\ "applied" \in MutationState /\ "failed" \in MutationState
    <3>1. pc[t] = "apply"
      BY <1>3 DEF ApplyMutation
    <3>2. at[t] >= 1 /\ at[t] <= planLen[t]
      BY <3>1 DEF InBounds
    <3> QED BY <3>1, <3>2, <1>a DEF MutationState
  <2> QED BY <1>3, <2>1, <1>c DEF ApplyMutation
<1>4. CASE JournalApplied(t)
  BY <1>4, <1>b DEF JournalApplied
<1>5. CASE JournalFailed(t)
  BY <1>5, <1>b DEF JournalFailed
<1>6. CASE MarkActive(t)
  BY <1>6, <1>b, <1>d DEF MarkActive, TransactionState
<1>7. CASE StartRollback(t)
  BY <1>7, <1>b, <1>d DEF StartRollback, TransactionState
<1>8. CASE SkipMutation(t)
  BY <1>8 DEF SkipMutation
<1>9. CASE UndoMutation(t)
  <2>1. at[t] \in Index /\ at[t] # i /\ "undone" \in MutationState
    BY <1>9 DEF UndoMutation, InBounds, Undoable, MutationState
  <2> QED BY <1>9, <2>1, <1>c DEF UndoMutation
<1>10. CASE JournalUndone(t)
  BY <1>10, <1>b DEF JournalUndone
<1>11. CASE CloseTransaction(t)
  BY <1>11, <1>b, <1>d, EmptyRecords DEF CloseTransaction, TransactionState
<1>12. CASE Deactivate(t)
  BY <1>12 DEF Deactivate
<1> QED BY <1>1, <1>2, <1>3, <1>4, <1>5, <1>6, <1>7, <1>8, <1>9, <1>10,
           <1>11, <1>12 DEF Operate

-----------------------------------------------------------------------------
(* The inductive invariant of the composition *)

LEMMA NetStepCases ==
  ASSUME NetNext
  PROVE  \/ \E t \in Tx : Begin(t) \/ Operate(t) \/ Deactivate(t)
         \/ Crash \/ Start \/ Recover
         \/ UNCHANGED vars
BY DEF NetNext, NetBegin, NetApply, NetUndo, LinkUp, LinkDown, Bookkeeping, Operate

\* The platform does not change.
LEMMA PlatformKept == [NetNext]_allVars => UNCHANGED <<platform, OwnEntries>>
BY DEF NetNext, NetBegin, NetApply, NetUndo, LinkUp, LinkDown, netVars, allVars,
   OwnEntries

LEMMA NetInitInv == NetInit => NetInv
<1> SUFFICES ASSUME NetInit PROVE NetInv
  OBVIOUS
<1>1. HostIsExplained
  BY DEF NetInit, HostIsExplained
<1>2. PlanIsWalked
  BY DEF NetInit, Init, PlanIsWalked
<1>3. PlanIsBound
  BY EmptyRecords DEF NetInit, Init, PlanIsBound
<1>4. LinksCarry
  BY DEF NetInit, LinksCarry
<1>5. RecoveryFollowsFile
  BY DEF NetInit, Init, RecoveryFollowsFile
<1> QED BY <1>1, <1>2, <1>3, <1>4, <1>5, MaxSilentAssumption DEF NetInit, NetInv

LEMMA PlanIsBoundKept ==
  ASSUME ManagerInv, PlanIsWalked, PlanIsBound, NetNext
  PROVE  PlanIsBound'
<1> SUFFICES ASSUME NEW u \in Tx, NEW i \in Index, i > Len(PlanOf[u])
             PROVE  journal'[u].mut[i] = "none" /\ memory'[u].mut[i] = "none"
  BY DEF PlanIsBound
<1>1. journal[u].mut[i] = "none" /\ memory[u].mut[i] = "none"
  BY DEF PlanIsBound
<1>2. TypeOK /\ OperationInv(u) /\ InBounds(u)
  BY DEF ManagerInv, OperationInv
<1>3. ASSUME NEW t \in Tx, Begin(t) \/ Operate(t) \/ Deactivate(t)
      PROVE  journal'[u].mut[i] = "none" /\ memory'[u].mut[i] = "none"
  <2>1. CASE t = u
    <3>1. pc[u] \in {"append", "apply"} => i > planLen[u]
      BY DEF PlanIsWalked
    <3> QED BY <1>1, <1>2, <1>3, <2>1, <3>1, PositionsBeyond
  <2>2. CASE t # u
    <3>1. InBounds(t)
      BY DEF ManagerInv, OperationInv
    <3>2. Untouched(u)
      BY <1>2, <1>3, <2>2, <3>1, OperateFrame
    <3> QED BY <1>1, <3>2 DEF Untouched
  <2> QED BY <2>1, <2>2
<1>4. CASE Crash
  BY <1>1, <1>4, EmptyRecords DEF Crash
<1>5. CASE Start
  BY <1>1, <1>5 DEF Start, opVars
<1>6. CASE Recover
  <2>1. ASSUME NEW t \in Tx, RecoverNext(t)
        PROVE  journal'[u].mut[i] = "none" /\ memory'[u].mut[i] = "none"
    BY <1>1, <1>2, <2>1 DEF RecoverNext, SetMemory, TypeOK
  <2>2. ASSUME NEW t \in Tx, RecoverNoted(t)
        PROVE  journal'[u].mut[i] = "none" /\ memory'[u].mut[i] = "none"
    BY <1>1, <1>2, <2>2, EmptyRecords DEF RecoverNoted, SetMemory, TypeOK
  <2>3. CASE RecoverDone
    BY <1>1, <2>3 DEF RecoverDone, opVars
  <2> QED BY <1>6, <2>1, <2>2, <2>3 DEF Recover
<1>7. CASE UNCHANGED vars
  BY <1>1, <1>7 DEF vars, opVars
<1> QED BY <1>3, <1>4, <1>5, <1>6, <1>7, NetStepCases

LEMMA PlanIsWalkedKept ==
  ASSUME ManagerInv, PlanIsWalked, NetNext
  PROVE  PlanIsWalked'
<1> DEFINE Walking(u) == pc[u] \in {"append", "apply", "applied"}
<1> SUFFICES ASSUME NEW u \in Tx, Walking(u)'
             PROVE  planLen'[u] = Len(PlanOf[u])
  BY DEF PlanIsWalked
<1>1. Walking(u) => planLen[u] = Len(PlanOf[u])
  BY DEF PlanIsWalked
<1>2. TypeOK
  BY DEF ManagerInv
<1>3. ASSUME NEW t \in Tx, NetBegin(t) PROVE planLen'[u] = Len(PlanOf[u])
  BY <1>1, <1>2, <1>3 DEF NetBegin, Begin, Goto, TypeOK
<1>4. ASSUME NEW t \in Tx, Operate(t) \/ Deactivate(t)
      PROVE  planLen'[u] = Len(PlanOf[u])
  <2>1. planLen'[u] = planLen[u]
    BY <1>4 DEF Operate, JournalPending, ApplyMutation, JournalApplied,
       JournalFailed, MarkActive, StartRollback, SkipMutation, UndoMutation,
       JournalUndone, CloseTransaction, Deactivate
  <2>2. Walking(u)
    <3> USE <1>2 DEF Goto, TypeOK
    <3>1. CASE Deactivate(t) BY <3>1 DEF Deactivate
    <3>2. CASE JournalPending(t) BY <3>2 DEF JournalPending
    <3>3. CASE ApplyMutation(t) BY <3>3 DEF ApplyMutation
    <3>4. CASE JournalApplied(t) BY <3>4 DEF JournalApplied
    <3>5. CASE JournalFailed(t) BY <3>5 DEF JournalFailed
    <3>6. CASE MarkActive(t) BY <3>6 DEF MarkActive
    <3>7. CASE StartRollback(t) BY <3>7 DEF StartRollback
    <3>8. CASE SkipMutation(t) BY <3>8 DEF SkipMutation, Advance
    <3>9. CASE UndoMutation(t) BY <3>9 DEF UndoMutation, Advance
    <3>10. CASE JournalUndone(t) BY <3>10 DEF JournalUndone, Advance
    <3>11. CASE CloseTransaction(t) BY <3>11 DEF CloseTransaction
    <3> QED BY <1>4, <3>1, <3>2, <3>3, <3>4, <3>5, <3>6, <3>7, <3>8, <3>9,
               <3>10, <3>11 DEF Operate
  <2> QED BY <1>1, <1>2, <2>1, <2>2
<1>5. CASE Crash
  BY <1>5 DEF Crash
<1>6. CASE Start
  BY <1>1, <1>2, <1>6 DEF Start, opVars
<1>7. CASE Recover
  BY <1>1, <1>2, <1>7
  DEF Recover, RecoverNext, RecoverNoted, RecoverDone, Goto, TypeOK, opVars
<1>8. CASE UNCHANGED vars
  BY <1>1, <1>2, <1>8 DEF vars, opVars
<1>9. \/ \E t \in Tx : NetBegin(t) \/ Operate(t) \/ Deactivate(t)
      \/ Crash \/ Start \/ Recover
      \/ UNCHANGED vars
  BY DEF NetNext, NetApply, NetUndo, LinkUp, LinkDown, Bookkeeping, Operate
<1> QED BY <1>3, <1>4, <1>5, <1>6, <1>7, <1>8, <1>9

\* The place of a mutation is among what its removal takes away.
LEMMA RemovesItself ==
  ASSUME platform \in Platform,
         NEW m, m.kind \in {"route", "dns"}, Entry(m).dev \in Devices
  PROVE  Removes(Entry(m), m)
BY PlatformAssumption 
DEF Removes, LinuxRemoves, DarwinRemoves, WindowsRemoves, SamePlace, Entry

\* The mutation a step of Activate works on is one of the plan.
LEMMA AppliedPosition ==
  ASSUME ManagerInv, PlanIsWalked, NEW t \in Tx, ApplyMutation(t)
  PROVE  at[t] \in 1..Len(PlanOf[t])
<1>1. pc[t] = "apply" /\ InBounds(t) /\ planLen[t] = Len(PlanOf[t])
  BY DEF ManagerInv, OperationInv, ApplyMutation, PlanIsWalked
<1> QED BY <1>1 DEF InBounds

\* The mutation rollback undoes is one of the plan.
LEMMA UndonePosition ==
  ASSUME ManagerInv, PlanIsBound, NEW t \in Tx, UndoMutation(t)
  PROVE  at[t] \in 1..Len(PlanOf[t])
<1>1. /\ pc[t] = "undo" /\ InBounds(t)
      /\ memory[t].mut[at[t]] \in Undoable
  BY DEF ManagerInv, OperationInv, UndoMutation
<1>2. at[t] \in Index
  BY <1>1 DEF InBounds
<1>3. ~(at[t] > Len(PlanOf[t]))
  BY <1>1, <1>2 DEF PlanIsBound, Undoable
<1> QED BY <1>2, <1>3, PlanLength, MaxLenAssumption DEF Index

LEMMA HostIsExplainedKept ==
  ASSUME ManagerInv, NetInv, NetNext
  PROVE  HostIsExplained'
<1> SUFFICES ASSUME NEW e \in host', e \notin OwnEntries, e \notin left'
             PROVE  /\ e.dev \in Devices
                    /\ \E c \in effects' :
                         Owned(MutationOf(c)) /\ Entry(MutationOf(c)) = e
  <2>1. UNCHANGED <<platform, OwnEntries>>
    BY PlatformKept
  <2> QED BY <2>1 DEF HostIsExplained, MutationOf, Entry, Owned
<1> DEFINE Explains(c) == Owned(MutationOf(c)) /\ Entry(MutationOf(c)) = e
<1>1. e \in host /\ e \notin left => e.dev \in Devices /\ \E c \in effects : Explains(c)
  BY DEF NetInv, HostIsExplained
<1>2. ASSUME e \in host, e \notin left, effects \subseteq effects'
      PROVE  e.dev \in Devices /\ \E c \in effects' : Explains(c)
  BY <1>1, <1>2
<1>3. ASSUME NEW t \in Tx, NetApply(t)
      PROVE  e.dev \in Devices /\ \E c \in effects' : Explains(c)
  <2> DEFINE c == <<t, at[t]>>
             m == PlanOf[t][at[t]]
  <2>1. effects \subseteq effects'
    BY <1>3 DEF NetApply, ApplyMutation
  <2>2. CASE c \in effects' /\ Owned(m) /\ e = Entry(m)
    <3>1. at[t] \in 1..Len(PlanOf[t])
      BY <1>3, AppliedPosition DEF NetApply, NetInv
    <3>2. e.dev \in Devices
      BY <2>2, <3>1, PlanEntry DEF Devices
    <3>3. MutationOf(c) = m
      BY DEF MutationOf
    <3> QED BY <2>2, <3>2, <3>3
  <2>3. CASE e \in host /\ e \notin left
    BY <1>2, <2>1, <2>3
  <2>4. \/ e \in host /\ e \notin left
        \/ c \in effects' /\ Owned(m) /\ e = Entry(m)
    BY <1>3, PlatformAssumption
    DEF NetInv, NetApply, Add, LinuxAdd, DarwinAdd, WindowsAdd, Replace
  <2> QED BY <2>2, <2>3, <2>4
<1>4. ASSUME NEW t \in Tx, NetUndo(t)
      PROVE  e.dev \in Devices /\ \E c \in effects' : Explains(c)
  <2> DEFINE m == PlanOf[t][at[t]]
  <2>1. /\ pc[t] = "undo" /\ pc'[t] = "undone" /\ at[t] \in Index
        /\ UndoMutation(t)
    BY <1>4 DEF NetUndo, UndoMutation, ManagerInv, OperationInv, InBounds
  <2>2. effects' = effects \ {<<t, at[t]>>}
    <3>1. CASE Advance(t)
      BY <2>1, <3>1 DEF Advance, Goto, ManagerInv, TypeOK
    <3> QED BY <2>1, <3>1 DEF UndoMutation
  <2>3. /\ e \in host /\ e \notin left
        /\ \/ Owned(m) => ~Removes(e, m)
           \/ e # Entry(m)
    BY <1>4 DEF NetUndo, NetInv
  <2>4. e.dev \in Devices
    BY <1>1, <2>3
  <2>5. PICK c \in effects : Explains(c)
    BY <1>1, <2>3
  <2>6. c # <<t, at[t]>>
    <3> SUFFICES ASSUME c = <<t, at[t]>> PROVE FALSE
      OBVIOUS
    <3>1. MutationOf(c) = m
      BY DEF MutationOf
    <3>2. Owned(m) /\ Entry(m) = e
      BY <2>5, <3>1
    <3> QED BY <2>3, <2>4, <3>2, RemovesItself DEF Owned, NetInv
  <2> QED BY <2>2, <2>4, <2>5, <2>6
<1>5. CASE \E t \in Tx : NetBegin(t) \/ LinkUp(t) \/ LinkDown(t)
  <2>1. e \in host /\ effects' = effects /\ left' = left
    BY <1>5 DEF NetBegin, Begin, LinkUp, LinkDown, netVars, vars
  <2> QED BY <1>2, <2>1
<1>6. CASE Bookkeeping /\ UNCHANGED netVars
  <2>1. e \in host /\ effects' = effects /\ left' = left
    BY <1>6 DEF Bookkeeping, netVars, JournalPending, JournalApplied,
       JournalFailed, MarkActive, Deactivate, StartRollback, SkipMutation,
       JournalUndone, CloseTransaction, Crash, Start, Recover, RecoverNext,
       RecoverNoted, RecoverDone
  <2> QED BY <1>2, <2>1
<1> QED BY <1>3, <1>4, <1>5, <1>6 DEF NetNext

\* A mutation is applied on a device that is up, and what is on a device goes
\* with it.
LEMMA LinksCarryKept ==
  ASSUME ManagerInv, NetInv, NetNext
  PROVE  LinksCarry'
<1>1. UNCHANGED <<platform, OwnEntries>>
  BY PlatformKept
<1>2. \A e : UNCHANGED NeedsLink(e)
  BY <1>1 DEF NeedsLink
<1>3. LinksCarry
  BY DEF NetInv
<1>4. link' \in [Tx -> {"none", "up", "gone"}]
  BY <1>3 DEF LinksCarry, NetNext, NetBegin, NetApply, NetUndo, LinkUp, LinkDown, netVars
<1> SUFFICES ASSUME NEW e \in host', e \notin OwnEntries, NeedsLink(e)
             PROVE  Up(e.dev)'
  BY <1>1, <1>2, <1>4 DEF LinksCarry
<1>5. e \in host => Up(e.dev)
  BY <1>3 DEF LinksCarry
<1>6. ASSUME NEW t \in Tx, NetApply(t) PROVE Up(e.dev)'
  <2> DEFINE m == PlanOf[t][at[t]]
  <2>1. link' = link
    BY <1>6 DEF NetApply
  <2>2. CASE e \in host
    BY <1>5, <2>1, <2>2 DEF Up
  <2>3. CASE e \notin host
    <3>1. e = Entry(m) /\ <<t, at[t]>> \in effects'
      BY <1>6, <2>3, PlatformAssumption
      DEF NetInv, NetApply, Add, LinuxAdd, DarwinAdd, WindowsAdd, Replace
    <3>2. at[t] \in 1..Len(PlanOf[t])
      BY <1>6, AppliedPosition DEF NetApply, NetInv
    <3>3. PICK kind, key : m = Mutation(kind, Network[t].dev, key)
      BY <3>2, PlanDevices
    <3>4. NeedsLink(m) /\ e.dev = m.dev
      BY <3>1, <3>3 DEF NeedsLink, Entry, Mutation
    <3> QED BY <1>6, <2>1, <3>1, <3>4 DEF NetApply, Up
  <2> QED BY <2>2, <2>3
<1>7. ASSUME NEW t \in Tx, LinkUp(t) PROVE Up(e.dev)'
  BY <1>3, <1>5, <1>7 DEF LinkUp, LinksCarry, Up
<1>8. ASSUME NEW t \in Tx, LinkDown(t) PROVE Up(e.dev)'
  <2>1. e \in host /\ e.dev # Network[t].dev
    BY <1>8 DEF LinkDown
  <2>2. PICK u \in Tx : link[u] = "up" /\ Network[u].dev = e.dev
    BY <1>5, <2>1 DEF Up
  <2> QED BY <1>3, <1>8, <2>1, <2>2 DEF LinkDown, LinksCarry, Up
<1>9. CASE \E t \in Tx : NetBegin(t) \/ NetUndo(t)
  <2>1. e \in host /\ link' = link
    BY <1>9 DEF NetBegin, NetUndo, netVars
  <2> QED BY <1>5, <2>1 DEF Up
<1>10. CASE Bookkeeping /\ UNCHANGED netVars
  <2>1. e \in host /\ link' = link
    BY <1>10 DEF netVars
  <2> QED BY <1>5, <2>1 DEF Up
<1> QED BY <1>6, <1>7, <1>8, <1>9, <1>10 DEF NetNext

\* Recovery starts from the file, and each step that takes a claim from the
\* file has taken it from memory before.
LEMMA RecoveryFollowsFileKept ==
  ASSUME ManagerInv, RecoveryFollowsFile, NetNext
  PROVE  RecoveryFollowsFile'
<1> SUFFICES ASSUME NEW u \in Tx, NEW i \in Index,
                    mode' = "recovering", pc'[u] \in RollbackSteps,
                    memory'[u].mut[i] \in Undoable
             PROVE  Covered(<<u, i>>)'
  BY DEF RecoveryFollowsFile
<1>1. TypeOK /\ OperationInv(u)
  BY DEF ManagerInv
<1>2. ASSUME mode = "recovering", pc[u] \in RollbackSteps,
             memory[u].mut[i] \in Undoable
      PROVE  Covered(<<u, i>>)
  BY <1>2 DEF RecoveryFollowsFile
<1>3. ASSUME UNCHANGED <<mode, journal>>, pc'[u] = pc[u],
             memory'[u].mut[i] = memory[u].mut[i]
      PROVE  Covered(<<u, i>>)'
  BY <1>2, <1>3 DEF Covered
<1>4. ASSUME NEW t \in Tx, t # u, Begin(t) \/ Operate(t) \/ Deactivate(t)
      PROVE  Covered(<<u, i>>)'
  <2>1. InBounds(t) /\ InBounds(u)
    BY DEF ManagerInv, OperationInv
  <2>2. Untouched(u)
    BY <1>1, <1>4, <2>1, OperateFrame
  <2>3. mode' = mode
    BY <1>4 DEF Begin, Operate, Deactivate, JournalPending, ApplyMutation,
       JournalApplied, JournalFailed, MarkActive, StartRollback, SkipMutation,
       UndoMutation, JournalUndone, CloseTransaction, procVars
  <2> QED BY <1>2, <2>2, <2>3 DEF Untouched, Covered
<1>5. ASSUME Begin(u) \/ Deactivate(u) PROVE FALSE
  BY <1>5 DEF Begin, Deactivate, procVars
<1>6. ASSUME \/ JournalPending(u) \/ ApplyMutation(u) \/ JournalApplied(u)
             \/ JournalFailed(u) \/ MarkActive(u)
      PROVE  FALSE
  <2>1. mode = "recovering" /\ pc[u] \in ActivateSteps
    BY <1>6 DEF JournalPending, ApplyMutation, JournalApplied, JournalFailed,
       MarkActive, procVars, ActivateSteps
  <2> QED BY <1>1, <2>1 DEF OperationInv, RecoveryTracks
<1>7. CASE StartRollback(u)
  <2>1. mode = "recovering" /\ pc[u] = "rollback"
    BY <1>7 DEF StartRollback, procVars
  <2>2. WithState(memory[u], "rolling_back").mut = memory[u].mut
    BY DEF WithState
  <2>3. memory'[u].mut[i] = memory[u].mut[i]
    BY <1>1, <1>7, <2>2 DEF StartRollback, SetMemory, TypeOK
  <2>4. Covered(<<u, i>>)
    BY <1>2, <2>1, <2>3 DEF RollbackSteps
  <2>5. journal'[u] \in {journal[u], WithState(memory[u], "rolling_back")}
    BY <1>1, <1>7 DEF StartRollback, SaveIgnored, Saved, SaveFailed, TypeOK
  <2>6. WithState(memory[u], "rolling_back").state = "rolling_back"
    BY <1>1 DEF WithState, TypeOK, Record
  <2> QED BY <2>2, <2>3, <2>4, <2>5, <2>6 DEF Covered
<1>8. CASE SkipMutation(u)
  <2>1. mode = "recovering" /\ pc[u] = "undo"
    BY <1>8 DEF SkipMutation, procVars
  <2> QED BY <1>2, <1>8, <2>1 DEF SkipMutation, Covered, RollbackSteps
<1>9. CASE UndoMutation(u)
  <2>1. mode = "recovering" /\ pc[u] = "undo" /\ UNCHANGED journal
    BY <1>9 DEF UndoMutation, procVars
  <2>2. memory[u].mut[i] \in Undoable
    <3>1. at[u] \in Index /\ "undone" \in MutationState /\ "undone" \notin Undoable
      BY <1>1, <1>9 DEF UndoMutation, OperationInv, InBounds, Undoable, MutationState
    <3>2. CASE memory' = memory
      BY <3>2
    <3>3. CASE SetMemory(u, WithMutation(memory[u], at[u], "undone"))
      <4>1. memory'[u] = WithMutation(memory[u], at[u], "undone")
        BY <1>1, <3>3 DEF SetMemory, TypeOK
      <4>2. CASE i = at[u]
        BY <1>1, <3>1, <4>1, <4>2 DEF WithMutation, TypeOK, Record
      <4>3. CASE i # at[u]
        BY <1>1, <3>1, <4>1, <4>3 DEF WithMutation, TypeOK, Record
      <4> QED BY <4>2, <4>3
    <3> QED BY <1>9, <3>2, <3>3 DEF UndoMutation
  <2> QED BY <1>2, <2>1, <2>2 DEF Covered, RollbackSteps
<1>10. CASE JournalUndone(u)
  <2>1. mode = "recovering" /\ pc[u] = "undone" /\ memory' = memory
    BY <1>10 DEF JournalUndone, procVars
  <2>2. Covered(<<u, i>>)
    BY <1>2, <2>1 DEF RollbackSteps
  <2>3. journal'[u] \in {journal[u], memory[u]}
    BY <1>1, <1>10 DEF JournalUndone, SaveIgnored, Saved, SaveFailed, TypeOK
  <2>4. memory[u].state # "absent"
    BY <1>1, <2>1 DEF OperationInv, MemoryKnows, Holding
  <2> QED BY <2>1, <2>2, <2>3, <2>4 DEF Covered
<1>11. CASE CloseTransaction(u)
  <2>1. pc'[u] \in {"released", "kept"}
    BY <1>1, <1>11 DEF CloseTransaction, Goto, TypeOK
  <2> QED BY <2>1 DEF RollbackSteps
<1>12. CASE Crash
  BY <1>12 DEF Crash
<1>13. CASE Start
  <2>1. pc[u] \in RollbackSteps /\ mode = "down"
    BY <1>13 DEF Start, opVars
  <2> QED BY <1>1, <2>1 DEF OperationInv, RecoveryTracks, Holding, RollbackSteps
<1>14. CASE Recover
  <2>1. ASSUME NEW t \in Tx, RecoverNext(t), t = u PROVE Covered(<<u, i>>)'
    <3>1. memory'[u] = journal[u] /\ journal' = journal
      BY <1>1, <2>1 DEF RecoverNext, SetMemory, TypeOK
    <3>2. journal[u].state # "absent"
      BY <1>1, <2>1 DEF RecoverNext, OperationInv, RecoveryTracks
    <3> QED BY <3>1, <3>2 DEF Covered
  <2>2. ASSUME NEW t \in Tx, RecoverNext(t) \/ RecoverNoted(t), t # u
        PROVE  Covered(<<u, i>>)'
    BY <1>1, <1>3, <2>2 DEF RecoverNext, RecoverNoted, SetMemory, Goto, TypeOK
  <2>3. ASSUME NEW t \in Tx, RecoverNoted(t), t = u PROVE FALSE
    BY <1>1, <2>3 DEF RecoverNoted, Goto, TypeOK, RollbackSteps
  <2>4. CASE RecoverDone
    BY <2>4 DEF RecoverDone
  <2> QED BY <1>14, <2>1, <2>2, <2>3, <2>4 DEF Recover
<1>15. CASE UNCHANGED vars
  BY <1>3, <1>15 DEF vars, opVars, procVars
<1> QED BY <1>4, <1>5, <1>6, <1>7, <1>8, <1>9, <1>10, <1>11, <1>12, <1>13,
           <1>14, <1>15, NetStepCases DEF Operate

\* The invariant is kept by every step, whatever removals fail unnoticed.
LEMMA NetInvKept ==
  ASSUME ManagerInv, NetInv, [NetNext]_allVars
  PROVE  NetInv'
<1>1. CASE NetNext
  <2>1. HostIsExplained' /\ LinksCarry' /\ PlanIsWalked' /\ PlanIsBound'
    BY <1>1, HostIsExplainedKept, LinksCarryKept, PlanIsWalkedKept, PlanIsBoundKept
    DEF NetInv
  <2>2. RecoveryFollowsFile'
    BY <1>1, RecoveryFollowsFileKept DEF NetInv
  <2>3. silent' \in 0..MaxSilent
    <3>1. ASSUME NEW t \in Tx, NetUndo(t) PROVE silent' \in 0..MaxSilent
      BY <3>1, MaxSilentAssumption DEF NetInv, NetUndo
    <3>2. CASE \E t \in Tx : NetBegin(t) \/ NetApply(t) \/ LinkUp(t) \/ LinkDown(t)
      BY <3>2 DEF NetInv, NetBegin, NetApply, LinkUp, LinkDown, netVars
    <3>3. CASE Bookkeeping /\ UNCHANGED netVars
      BY <3>3 DEF NetInv, netVars
    <3> QED BY <1>1, <3>1, <3>2, <3>3 DEF NetNext
  <2>4. (platform \in Platform)'
    BY PlatformKept DEF NetInv
  <2> QED BY <2>1, <2>2, <2>3, <2>4 DEF NetInv
<1>2. CASE UNCHANGED allVars
  <2> USE <1>2 DEF allVars, netVars, vars, opVars, procVars
  <2>1. (HostIsExplained /\ LinksCarry)'
    BY DEF NetInv, HostIsExplained, LinksCarry, OwnEntries, Entry, MutationOf,
       Owned, NeedsLink, Up
  <2>2. (RecoveryFollowsFile /\ PlanIsWalked /\ PlanIsBound)'
    BY DEF NetInv, RecoveryFollowsFile, Covered, PlanIsWalked, PlanIsBound
  <2> QED BY <2>1, <2>2 DEF NetInv
<1> QED BY <1>1, <1>2

\* Whatever stands on a tunnel comes from a mutation that was made and not
\* undone, or from one whose removal failed without a word (netbackend Apply
\* and Undo under Activate and rollback), and what recovery still has to undo
\* is what the files say.
THEOREM NetInvariant == NetSpec => []NetInv
<1>1. NetInit => NetInv
  BY NetInitInv
<1>2. ManagerInv /\ NetInv /\ [NetNext]_allVars => NetInv'
  BY NetInvKept
<1> QED BY <1>1, <1>2, NetManagerInvariant, PTL DEF NetSpec

\* Each route and resolver the program has put on the host is claimed by a
\* record in the journal (mutation.go, under manager.go) or was left by a
\* removal whose error was dropped (command.go), and a route left that way
\* stays no longer than its tunnel: on every platform, for every set of
\* profiles, whatever destinations, domains and interface names they share,
\* and however many removals fail.
THEOREM NetAccounted == NetSpec => []HostIsAccounted
<1>1. ManagerInv /\ NetInv => HostIsAccounted
  <2> SUFFICES ASSUME ManagerInv, NetInv, NEW e \in host, e \notin OwnEntries,
                      ~(e \in left /\ (NeedsLink(e) => Up(e.dev)))
               PROVE  \E c \in Claimed :
                        Owned(MutationOf(c)) /\ Entry(MutationOf(c)) = e
    BY DEF HostIsAccounted
  <2>1. e \notin left
    BY DEF NetInv, LinksCarry
  <2>2. PICK c \in effects : Owned(MutationOf(c)) /\ Entry(MutationOf(c)) = e
    BY <2>1 DEF NetInv, HostIsExplained
  <2>3. /\ c[1] \in Tx /\ c[2] \in Index /\ c = <<c[1], c[2]>>
        /\ c \in Change
    BY DEF ManagerInv, TypeOK, Change
  <2>4. Covered(c)
    BY <2>3 DEF ManagerInv, OperationInv, EffectsCovered
  <2> QED BY <2>2, <2>3, <2>4 DEF Claimed
<1> QED BY <1>1, NetInvariant, NetManagerInvariant, PTL

\* On every platform recovery takes away nothing the host has of its own,
\* except on macOS what stands in the very place of a journaled mutation:
\* removals name the tunnel's device or the program's own rules elsewhere, and
\* what is undone is what the files claim.
THEOREM NetTakesClaimed == NetSpec => RecoveryTakesClaimed
<1>1. ASSUME ManagerInv, NetInv, NetNext, mode = "recovering",
             NEW e \in (host \cap OwnEntries) \ host'
      PROVE  /\ platform = "darwin"
             /\ \E c \in Claimed :
                  Owned(MutationOf(c)) /\ SamePlace(Entry(MutationOf(c)), e)
  <2>1. ASSUME NEW t \in Tx, NetApply(t) PROVE FALSE
    BY <1>1, <2>1 DEF NetApply, ApplyMutation, ManagerInv, OperationInv,
       RecoveryTracks, ActivateSteps
  <2>2. ASSUME NEW t \in Tx, NetUndo(t)
        PROVE  /\ platform = "darwin"
               /\ \E c \in Claimed :
                    Owned(MutationOf(c)) /\ SamePlace(Entry(MutationOf(c)), e)
    <3> DEFINE m == PlanOf[t][at[t]]
               c == <<t, at[t]>>
    <3>1. at[t] \in 1..Len(PlanOf[t])
      BY <1>1, <2>2, UndonePosition DEF NetUndo, NetInv
    <3>2. Entry(m).dev = Network[t].dev
      BY <3>1, PlanEntry
    <3>3. e.dev # Network[t].dev /\ e.dev \notin Devices
      BY <1>1, HostEntriesAssumption DEF Devices, NetInv, OwnEntries
    <3>4. Owned(m) /\ Removes(e, m)
      BY <1>1, <2>2 DEF NetUndo
    <3>5. platform = "darwin" /\ SamePlace(Entry(m), e)
      BY <1>1, <3>2, <3>3, <3>4, PlatformAssumption
      DEF NetInv, Removes, LinuxRemoves, DarwinRemoves, WindowsRemoves, SamePlace
    <3>6. /\ pc[t] \in RollbackSteps /\ at[t] \in Index
          /\ memory[t].mut[at[t]] \in Undoable
      BY <1>1, <2>2 DEF NetUndo, UndoMutation, RollbackSteps, ManagerInv,
         OperationInv, InBounds
    <3>7. c \in Claimed
      BY <1>1, <3>6 DEF NetInv, RecoveryFollowsFile, Claimed, Change
    <3>8. MutationOf(c) = m
      BY DEF MutationOf
    <3> QED BY <3>4, <3>5, <3>7, <3>8
  <2>3. CASE \E t \in Tx : NetBegin(t) \/ LinkUp(t) \/ LinkDown(t)
    BY <1>1, <2>3, HostEntriesAssumption
    DEF NetInv, OwnEntries, NetBegin, LinkUp, LinkDown, netVars
  <2>4. CASE Bookkeeping /\ UNCHANGED netVars
    BY <1>1, <2>4 DEF netVars
  <2> QED BY <1>1, <2>1, <2>2, <2>3, <2>4 DEF NetNext
<1>2. ManagerInv /\ NetInv /\ [NetNext]_allVars =>
        [mode = "recovering" =>
           \A e \in (host \cap OwnEntries) \ host' :
             /\ platform = "darwin"
             /\ \E c \in Claimed :
                  Owned(MutationOf(c)) /\ SamePlace(Entry(MutationOf(c)), e)]_allVars
  BY <1>1
<1> QED BY <1>2, NetInvariant, NetManagerInvariant, PTL
     DEF NetSpec, RecoveryTakesClaimed


-----------------------------------------------------------------------------
(* Separate networks *)

\* A position of the plan that the backend works on, as a record: a route to
\* one of the destinations or a resolver for one of the domains.
LEMMA PlanKeys ==
  ASSUME NEW t \in Tx, NEW i \in 1..Len(PlanOf[t]), Owned(PlanOf[t][i])
  PROVE  \/ \E key \in Keys(Network[t].routes) :
              PlanOf[t][i] = Mutation("route", Network[t].dev, key)
         \/ \E key \in Keys(Network[t].domains) :
              PlanOf[t][i] = Mutation("dns", Network[t].dev, key)
<1> DEFINE n == Network[t]
           head == <<Mutation("process", n.dev, "engine"),
                     Mutation("interface", n.dev, n.dev)>>
           routes == Each("route", n.dev, n.routes)
           names == Each("dns", n.dev, n.domains)
           H == {Mutation("process", n.dev, "engine"),
                 Mutation("interface", n.dev, n.dev)}
           R == {Mutation("route", n.dev, key) : key \in Keys(n.routes)}
           D == {Mutation("dns", n.dev, key) : key \in Keys(n.domains)}
           M == H \cup R \cup D
<1>1. n.routes \in Seq(Dest) /\ n.domains \in Seq(Domain)
  BY NetworkAssumption
<1>2. head \in Seq(M)
  OBVIOUS
<1>3. routes \in Seq(M)
  <2>1. \A j \in 1..Len(n.routes) : Mutation("route", n.dev, n.routes[j]) \in R
    BY <1>1 DEF Keys
  <2> HIDE DEF R
  <2> QED BY <1>1, <2>1 DEF Each
<1>4. names \in Seq(M)
  <2>1. \A j \in 1..Len(n.domains) : Mutation("dns", n.dev, n.domains[j]) \in D
    BY <1>1 DEF Keys
  <2> HIDE DEF D
  <2> QED BY <1>1, <2>1 DEF Each
<1>5. PlanOf[t] = head \o routes \o names
  BY DEF PlanOf, BuildNetworkPlan
<1>6. PlanOf[t] \in Seq(M)
  <2> HIDE DEF M
  <2> QED BY <1>2, <1>3, <1>4, <1>5
<1>7. PlanOf[t][i] \in M
  <2> HIDE DEF M
  <2> QED BY <1>6, ElementOfSequence
<1>8. PlanOf[t][i] \notin H
  BY DEF Owned, Mutation
<1> QED BY <1>7, <1>8

\* Entries of two separate networks are on two devices, and where the platform
\* adds or removes by destination or domain they are in two places.
LEMMA EntriesApart ==
  ASSUME SeparateNetworks, platform \in Platform,
         NEW t \in Tx, NEW i \in 1..Len(PlanOf[t]), Owned(PlanOf[t][i]),
         NEW u \in Tx, NEW j \in 1..Len(PlanOf[u]), Owned(PlanOf[u][j]),
         t # u
  PROVE  LET e == Entry(PlanOf[t][i])
             f == Entry(PlanOf[u][j])
         IN  /\ e.dev # f.dev
             /\ e.kind = "route" /\ platform # "windows" => ~SamePlace(e, f)
             /\ e.kind = "dns" /\ platform # "linux" => ~SamePlace(e, f)
<1> DEFINE m == PlanOf[t][i]
           n == PlanOf[u][j]
<1>1. /\ Network[t].dev # Network[u].dev
      /\ platform # "windows" =>
           Keys(Network[t].routes) \cap Keys(Network[u].routes) = {}
      /\ platform # "linux" =>
           Keys(Network[t].domains) \cap Keys(Network[u].domains) = {}
  BY DEF SeparateNetworks, Separate
<1>2. \/ \E key \in Keys(Network[t].routes) : m = Mutation("route", Network[t].dev, key)
      \/ \E key \in Keys(Network[t].domains) : m = Mutation("dns", Network[t].dev, key)
  BY PlanKeys
<1>3. \/ \E key \in Keys(Network[u].routes) : n = Mutation("route", Network[u].dev, key)
      \/ \E key \in Keys(Network[u].domains) : n = Mutation("dns", Network[u].dev, key)
  BY PlanKeys
<1> HIDE DEF m, n
<1> SUFFICES /\ Entry(m).dev # Entry(n).dev
             /\ Entry(m).kind = "route" /\ platform # "windows" =>
                  ~SamePlace(Entry(m), Entry(n))
             /\ Entry(m).kind = "dns" /\ platform # "linux" =>
                  ~SamePlace(Entry(m), Entry(n))
  BY DEF m, n
<1> QED BY <1>1, <1>2, <1>3 DEF Entry, Mutation, SamePlace

\* Working on the mutation of another transaction leaves an entry alone.
LEMMA ForeignWorkSpares ==
  ASSUME SeparateNetworks, platform \in Platform,
         NEW t \in Tx, NEW i \in 1..Len(PlanOf[t]), Owned(PlanOf[t][i]),
         NEW u \in Tx, NEW j \in 1..Len(PlanOf[u]), Owned(PlanOf[u][j]),
         t # u, Entry(PlanOf[t][i]) \in host
  PROVE  /\ Entry(PlanOf[t][i]) \in Add(host, PlanOf[u][j])
         /\ ~Removes(Entry(PlanOf[t][i]), PlanOf[u][j])
<1> DEFINE e == Entry(PlanOf[t][i])
           f == Entry(PlanOf[u][j])
<1>1. /\ e.dev # f.dev
      /\ e.kind = "route" /\ platform # "windows" => ~SamePlace(e, f)
      /\ e.kind = "dns" /\ platform # "linux" => ~SamePlace(e, f)
  BY EntriesApart
<1>2. e.kind \in {"route", "dns"} /\ f.kind \in {"route", "dns"}
  BY DEF Owned, Entry
<1>3. platform \in {"linux", "darwin", "windows"}
  BY PlatformAssumption
<1>4. Add(host, PlanOf[u][j]) = CASE platform = "linux"   -> LinuxAdd(host, f)
                                  [] platform = "darwin"  -> DarwinAdd(host, f)
                                  [] platform = "windows" -> WindowsAdd(host, f)
  BY DEF Add
<1>5. Removes(e, PlanOf[u][j]) <=>
        \/ platform = "linux" /\ LinuxRemoves(e, f)
        \/ platform = "darwin" /\ DarwinRemoves(e, f)
        \/ platform = "windows" /\ WindowsRemoves(e, f)
  BY DEF Removes
<1>6. e \in host /\ (SamePlace(f, e) => SamePlace(e, f) /\ e.kind = f.kind)
  BY DEF SamePlace
<1> SUFFICES /\ e \in Add(host, PlanOf[u][j])
             /\ ~Removes(e, PlanOf[u][j])
  OBVIOUS
<1> HIDE DEF e, f
<1>7. e \in Add(host, PlanOf[u][j])
  BY <1>1, <1>2, <1>3, <1>4, <1>6
  DEF LinuxAdd, DarwinAdd, WindowsAdd, Replace, SamePlace
<1>8. ~Removes(e, PlanOf[u][j])
  BY <1>1, <1>2, <1>3, <1>5, <1>6
  DEF LinuxRemoves, DarwinRemoves, WindowsRemoves, SamePlace
<1> QED BY <1>7, <1>8

\* Adding an entry never takes away one of the same transaction.
LEMMA OwnWorkSpares ==
  ASSUME platform \in Platform,
         NEW t \in Tx, NEW i \in 1..Len(PlanOf[t]), Owned(PlanOf[t][i]),
         NEW j \in 1..Len(PlanOf[t]), Owned(PlanOf[t][j]),
         Entry(PlanOf[t][i]) \in host
  PROVE  Entry(PlanOf[t][i]) \in Add(host, PlanOf[t][j])
<1> DEFINE m == PlanOf[t][i]
           n == PlanOf[t][j]
<1>1. \E kind, key : m = Mutation(kind, Network[t].dev, key)
  BY PlanDevices
<1>2. \E kind, key : n = Mutation(kind, Network[t].dev, key)
  BY PlanDevices
<1>3. SamePlace(Entry(m), Entry(n)) => Entry(m) = Entry(n)
  <2> HIDE DEF m, n
  <2> QED BY <1>1, <1>2 DEF SamePlace, Entry, Mutation
<1>4. platform \in {"linux", "darwin", "windows"}
  BY PlatformAssumption
<1>5. Add(host, n) \in {LinuxAdd(host, Entry(n)), DarwinAdd(host, Entry(n)),
                        WindowsAdd(host, Entry(n))}
  BY <1>4 DEF Add
<1>6. Entry(m) \in host
  OBVIOUS
<1> SUFFICES Entry(m) \in Add(host, n)
  OBVIOUS
<1> HIDE DEF m, n
<1> QED BY <1>3, <1>5, <1>6 DEF LinuxAdd, DarwinAdd, WindowsAdd, Replace, SamePlace

\* What is added is there afterwards: on macOS because nobody else has the
\* destination.
LEMMA AddMakes ==
  ASSUME SeparateNetworks, DestinationsAreFree, platform \in Platform,
         HostIsPlanned,
         NEW t \in Tx, NEW i \in 1..Len(PlanOf[t]), Owned(PlanOf[t][i])
  PROVE  Entry(PlanOf[t][i]) \in Add(host, PlanOf[t][i])
<1> DEFINE e == Entry(PlanOf[t][i])
<1>1. CASE platform # "darwin" \/ e.kind # "route"
  BY <1>1, PlatformAssumption DEF Add, LinuxAdd, DarwinAdd, WindowsAdd, Replace
<1>2. CASE platform = "darwin" /\ e.kind = "route"
  <2>1. PICK key \in Keys(Network[t].routes) :
          PlanOf[t][i] = Mutation("route", Network[t].dev, key)
    <3>1. \A key : Entry(Mutation("dns", Network[t].dev, key)).kind = "dns"
      BY EntryDevice
    <3> QED BY <1>2, <3>1, PlanKeys
  <2>2. e = Mutation("route", Network[t].dev, key)
    BY <2>1 DEF Entry, Mutation
  <2>3. ASSUME NEW f \in host, SamePlace(f, e) PROVE f = e
    <3>1. CASE f \in OwnEntries
      BY <1>2, <2>2, <2>3, <3>1 DEF DestinationsAreFree, OwnEntries, SamePlace, Mutation
    <3>2. CASE f \notin OwnEntries
      <4>1. PICK u \in Tx, j \in Index :
              /\ j <= Len(PlanOf[u])
              /\ Owned(PlanOf[u][j])
              /\ f = Entry(PlanOf[u][j])
        BY <2>3, <3>2 DEF HostIsPlanned
      <4>2. j \in 1..Len(PlanOf[u])
        BY <4>1, PlanLength DEF Index
      <4>3. CASE u = t
        <5>1. \E kind, k : PlanOf[t][j] = Mutation(kind, Network[t].dev, k)
          BY <4>2, <4>3, PlanDevices
        <5> QED BY <1>2, <2>2, <2>3, <4>1, <4>3, <5>1 DEF SamePlace, Entry, Mutation
      <4>4. CASE u # t
        <5>1. ~SamePlace(e, f)
          BY <1>2, <4>1, <4>2, <4>4, EntriesApart
        <5> QED BY <2>3, <5>1 DEF SamePlace
      <4> QED BY <4>3, <4>4
    <3> QED BY <3>1, <3>2
  <2>4. Add(host, PlanOf[t][i]) = DarwinAdd(host, e)
    BY <1>2 DEF Add
  <2>5. \A f : SamePlace(f, e) <=> SamePlace(e, f)
    BY DEF SamePlace
  <2> SUFFICES e \in DarwinAdd(host, e)
    BY <2>4
  <2> HIDE DEF e
  <2> QED BY <2>3, <2>5 DEF DarwinAdd, Replace
<1> QED BY <1>1, <1>2

-----------------------------------------------------------------------------
(* ActiveIsInstalled *)

LEMMA HostIsPlannedKept ==
  ASSUME ManagerInv, InstalledInv, NetNext
  PROVE  HostIsPlanned'
<1> DEFINE Planned(e) == \E t \in Tx, i \in Index :
                           /\ i <= Len(PlanOf[t])
                           /\ Owned(PlanOf[t][i])
                           /\ e = Entry(PlanOf[t][i])
<1>1. UNCHANGED <<platform, OwnEntries>>
  BY PlatformKept
<1>2. \A m : UNCHANGED Entry(m)
  BY <1>1 DEF Entry
<1> SUFFICES ASSUME NEW e \in host' PROVE e \in OwnEntries \/ Planned(e)
  BY <1>1, <1>2 DEF HostIsPlanned
<1>3. e \in host => e \in OwnEntries \/ Planned(e)
  BY DEF InstalledInv, HostIsPlanned
<1>4. ASSUME NEW t \in Tx, NetApply(t) PROVE e \in OwnEntries \/ Planned(e)
  <2> DEFINE m == PlanOf[t][at[t]]
  <2>1. at[t] \in 1..Len(PlanOf[t])
    BY <1>4, AppliedPosition DEF NetApply, InstalledInv
  <2>2. at[t] \in Index
    <3>1. at[t] \in 1..planLen[t] /\ planLen[t] \in 0..MaxLen
      BY <1>4 DEF NetApply, ApplyMutation, ManagerInv, OperationInv, InBounds, TypeOK
    <3> QED BY <3>1, MaxLenAssumption DEF Index
  <2>3. e \in host \/ (Owned(m) /\ e = Entry(m))
    BY <1>4, PlatformAssumption
    DEF InstalledInv, NetApply, Add, LinuxAdd, DarwinAdd, WindowsAdd, Replace
  <2>4. Owned(m) /\ e = Entry(m) => Planned(e)
    <3>1. at[t] <= Len(PlanOf[t])
      BY <2>1
    <3> QED BY <2>2, <3>1
  <2> QED BY <1>3, <2>3, <2>4
<1>5. CASE \E t \in Tx : NetBegin(t) \/ NetUndo(t) \/ LinkUp(t) \/ LinkDown(t)
  <2>1. e \in host
    BY <1>5 DEF NetBegin, NetUndo, LinkUp, LinkDown, netVars
  <2> QED BY <1>3, <2>1
<1>6. CASE Bookkeeping /\ UNCHANGED netVars
  BY <1>3, <1>6 DEF netVars
<1> QED BY <1>4, <1>5, <1>6 DEF NetNext

\* Only Begin makes use of a transaction.
LEMMA UnusedStays ==
  ASSUME ManagerInv, NEW u \in Tx, pc[u] = "unused",
         (\E t \in Tx : Operate(t) \/ Deactivate(t)) \/ Crash \/ Start \/ Recover
  PROVE  pc'[u] = "unused"
<1>1. TypeOK /\ u \notin queue
  BY DEF ManagerInv, OperationInv, RecoveryTracks
<1>2. ASSUME NEW t \in Tx, Operate(t) \/ Deactivate(t) PROVE pc'[u] = "unused"
  BY <1>1, <1>2 DEF Operate, Deactivate, JournalPending, ApplyMutation,
     JournalApplied, JournalFailed, MarkActive, StartRollback, SkipMutation,
     UndoMutation, JournalUndone, CloseTransaction, Goto, Advance, TypeOK
<1>3. CASE Crash
  BY <1>3 DEF Crash
<1>4. CASE Start
  BY <1>4 DEF Start, opVars
<1>5. CASE Recover
  BY <1>1, <1>5 DEF Recover, RecoverNext, RecoverNoted, RecoverDone,
     Goto, opVars, TypeOK
<1> QED BY <1>2, <1>3, <1>4, <1>5

LEMMA LinkCameFirstKept ==
  ASSUME ManagerInv, LinkCameFirst, NetNext
  PROVE  LinkCameFirst'
<1>1. TypeOK
  BY DEF ManagerInv
<1>2. ASSUME NEW t \in Tx, NetBegin(t) PROVE LinkCameFirst'
  BY <1>1, <1>2 DEF NetBegin, Begin, Goto, netVars, LinkCameFirst, TypeOK
<1>3. ASSUME NEW t \in Tx, LinkUp(t) \/ LinkDown(t) PROVE LinkCameFirst'
  BY <1>3 DEF LinkUp, LinkDown, vars, opVars, LinkCameFirst
<1>4. CASE \E t \in Tx : NetApply(t) \/ NetUndo(t)
  <2>1. UNCHANGED link /\ \E t \in Tx : Operate(t)
    BY <1>4 DEF NetApply, NetUndo, Operate
  <2>2. \A u \in Tx : pc[u] = "unused" => pc'[u] = "unused"
    BY <2>1, UnusedStays
  <2> QED BY <2>1, <2>2 DEF LinkCameFirst
<1>5. CASE Bookkeeping /\ UNCHANGED netVars
  <2>1. \/ \E t \in Tx : Operate(t) \/ Deactivate(t)
        \/ Crash \/ Start \/ Recover
    BY <1>5 DEF Bookkeeping, Operate
  <2>2. \A u \in Tx : pc[u] = "unused" => pc'[u] = "unused"
    BY <2>1, UnusedStays
  <2> QED BY <1>5, <2>2 DEF LinkCameFirst, netVars
<1> QED BY <1>2, <1>3, <1>4, <1>5 DEF NetNext

\* Bookkeeping takes no position of the plan for done that was not.
LEMMA BehindKept ==
  ASSUME ManagerInv, PlanIsWalked, Bookkeeping,
         NEW u \in Tx, NEW i \in Index, i <= Len(PlanOf[u]), Behind(u, i)'
  PROVE  Behind(u, i)
<1>1. TypeOK /\ InBounds(u)
  BY DEF ManagerInv, OperationInv
<1>2. pc[u] \in {"append", "apply", "applied"} => planLen[u] = Len(PlanOf[u])
  BY DEF PlanIsWalked
<1>3. at[u] \in Int /\ planLen[u] \in Int /\ i \in Int
  BY <1>1 DEF TypeOK, Index
<1> USE DEF Behind
<1>4. ASSUME NEW t \in Tx, JournalPending(t) PROVE Behind(u, i)
  BY <1>1, <1>3, <1>4 DEF JournalPending, Goto, TypeOK
<1>5. ASSUME NEW t \in Tx, JournalApplied(t) PROVE Behind(u, i)
  BY <1>1, <1>3, <1>5 DEF JournalApplied, Goto, TypeOK
<1>6. ASSUME NEW t \in Tx, MarkActive(t) PROVE Behind(u, i)
  <2>1. CASE t = u
    <3>1. pc[u] = "append" /\ i < at[u]
      BY <1>2, <1>3, <1>6, <2>1 DEF MarkActive
    <3> QED BY <3>1
  <2>2. CASE t # u
    BY <1>1, <1>6, <2>2 DEF MarkActive, Goto, TypeOK
  <2> QED BY <2>1, <2>2
<1>7. ASSUME NEW t \in Tx,
             \/ JournalFailed(t) \/ Deactivate(t) \/ StartRollback(t)
             \/ SkipMutation(t) \/ JournalUndone(t) \/ CloseTransaction(t)
      PROVE  Behind(u, i)
  <2>1. t # u
    BY <1>1, <1>7 DEF JournalFailed, Deactivate, StartRollback, SkipMutation,
       JournalUndone, CloseTransaction, Goto, Advance, TypeOK
  <2>2. pc'[u] = pc[u] /\ at'[u] = at[u]
    BY <1>1, <1>7, <2>1 DEF JournalFailed, Deactivate, StartRollback, SkipMutation,
       JournalUndone, CloseTransaction, Goto, Advance, TypeOK
  <2> QED BY <2>2
<1>8. CASE Crash
  BY <1>8 DEF Crash
<1>9. CASE Start
  BY <1>9 DEF Start, opVars
<1>10. CASE Recover
  BY <1>1, <1>10 DEF Recover, RecoverNext, RecoverNoted, RecoverDone, Goto,
     opVars, TypeOK
<1> QED BY <1>4, <1>5, <1>6, <1>7, <1>8, <1>9, <1>10 DEF Bookkeeping

LEMMA InstalledSoFarKept ==
  ASSUME SeparateNetworks, DestinationsAreFree, ManagerInv, InstalledInv, NetNext
  PROVE  InstalledSoFar'
<1> SUFFICES ASSUME NEW u \in Tx, NEW i \in Index,
                    link'[u] = "up", i <= Len(PlanOf[u]), Behind(u, i)',
                    Owned(PlanOf[u][i])
             PROVE  Entry(PlanOf[u][i]) \in host'
  <2>1. UNCHANGED platform
    BY PlatformKept
  <2> QED BY <2>1 DEF InstalledSoFar, Entry
<1> DEFINE e == Entry(PlanOf[u][i])
<1>1. i \in 1..Len(PlanOf[u]) /\ platform \in Platform
  BY PlanLength DEF Index, InstalledInv
<1>2. link[u] = "up" /\ Behind(u, i) => e \in host
  BY DEF InstalledInv, InstalledSoFar
<1>3. TypeOK /\ LinkCameFirst /\ HostIsPlanned
  BY DEF ManagerInv, InstalledInv
<1>4. ASSUME NEW t \in Tx, NetBegin(t) PROVE e \in host'
  <2>1. host' = host /\ link' = link
    BY <1>4 DEF NetBegin, netVars
  <2>2. t # u
    BY <1>3, <1>4 DEF NetBegin, Begin, Behind, Goto, Index, TypeOK
  <2>3. Behind(u, i)
    BY <1>3, <1>4, <2>2 DEF NetBegin, Begin, Behind, Goto, TypeOK
  <2> QED BY <1>2, <2>1, <2>3
<1>5. ASSUME NEW t \in Tx, NetApply(t) PROVE e \in host'
  <2> DEFINE m == PlanOf[t][at[t]]
             made == <<t, at[t]>> \in effects'
  <2>1. /\ ApplyMutation(t)
        /\ host' = IF made /\ Owned(m) THEN Add(host, m) ELSE host
        /\ link' = link
    BY <1>5 DEF NetApply
  <2>2. at[t] \in 1..Len(PlanOf[t])
    BY <2>1, AppliedPosition DEF InstalledInv
  <2>3. CASE t = u /\ i = at[u]
    <3>1. pc'[u] = "applied"
      BY <1>3, <2>1, <2>3 DEF ApplyMutation, Behind, Goto, TypeOK
    <3>2. made
      BY <1>3, <2>1, <2>3, <3>1 DEF ApplyMutation, Goto, TypeOK
    <3> QED BY <1>1, <1>3, <2>1, <2>3, <3>2, AddMakes
  <2>4. CASE t = u /\ i # at[u]
    <3>1. Behind(u, i)
      BY <1>3, <2>1, <2>4 DEF ApplyMutation, Behind, Goto, TypeOK
    <3>2. e \in host
      BY <1>2, <2>1, <3>1
    <3> QED BY <1>1, <2>1, <2>2, <2>4, <3>2, OwnWorkSpares
  <2>5. CASE t # u
    <3>1. Behind(u, i)
      BY <1>3, <2>1, <2>5 DEF ApplyMutation, Behind, Goto, TypeOK
    <3>2. e \in host
      BY <1>2, <2>1, <3>1
    <3> QED BY <1>1, <2>1, <2>2, <2>5, <3>2, ForeignWorkSpares
  <2> QED BY <2>3, <2>4, <2>5
<1>6. ASSUME NEW t \in Tx, NetUndo(t) PROVE e \in host'
  <2> DEFINE m == PlanOf[t][at[t]]
  <2>1. /\ UndoMutation(t)
        /\ pc'[t] = "undone"
        /\ host' \in {host, IF Owned(m) THEN {f \in host : ~Removes(f, m)} ELSE host}
        /\ link' = link
    BY <1>6 DEF NetUndo
  <2>2. at[t] \in 1..Len(PlanOf[t])
    BY <2>1, UndonePosition DEF InstalledInv
  <2>3. t # u
    BY <2>1 DEF Behind
  <2>4. Behind(u, i)
    BY <1>3, <2>1, <2>3 DEF UndoMutation, Behind, Goto, Advance, TypeOK
  <2>5. e \in host
    BY <1>2, <2>1, <2>4
  <2>6. Owned(m) => ~Removes(e, m)
    BY <1>1, <2>2, <2>3, <2>5, ForeignWorkSpares
  <2> QED BY <2>1, <2>5, <2>6
<1>7. ASSUME NEW t \in Tx, LinkUp(t) PROVE e \in host'
  <2>1. pc' = pc /\ at' = at /\ host' = host
    BY <1>7 DEF LinkUp, vars, opVars
  <2>2. t # u
    BY <1>3, <1>7, <2>1 DEF LinkUp, LinkCameFirst, Behind
  <2>3. link[u] = "up" /\ Behind(u, i)
    BY <1>3, <1>7, <2>1, <2>2 DEF LinkUp, LinkCameFirst, Behind
  <2> QED BY <1>2, <2>1, <2>3
<1>8. ASSUME NEW t \in Tx, LinkDown(t) PROVE e \in host'
  <2>1. pc' = pc /\ at' = at
    BY <1>8 DEF LinkDown, vars, opVars
  <2>2. t # u
    BY <1>3, <1>8 DEF LinkDown, LinkCameFirst
  <2>3. link[u] = "up" /\ Behind(u, i)
    BY <1>3, <1>8, <2>1, <2>2 DEF LinkDown, LinkCameFirst, Behind
  <2>4. e.dev # Network[t].dev
    BY <1>1, <2>2, PlanEntry DEF SeparateNetworks, Separate
  <2> QED BY <1>2, <1>8, <2>3, <2>4 DEF LinkDown
<1>9. CASE Bookkeeping /\ UNCHANGED netVars
  <2>1. Behind(u, i)
    BY <1>9, BehindKept DEF InstalledInv
  <2> QED BY <1>2, <1>9, <2>1 DEF netVars
<1> QED BY <1>4, <1>5, <1>6, <1>7, <1>8, <1>9 DEF NetNext

\* A plan that has become active is as long as what Activate has walked.
LEMMA ActiveLengthKept ==
  ASSUME ManagerInv, InstalledInv, NetNext, NEW u \in Tx, pc'[u] = "active"
  PROVE  Len(PlanOf[u]) <= MaxLen
<1>1. TypeOK /\ (pc[u] = "active" => Len(PlanOf[u]) <= MaxLen)
  BY DEF ManagerInv, InstalledInv
<1>2. pc[u] = "append" => Len(PlanOf[u]) <= MaxLen
  BY <1>1 DEF InstalledInv, PlanIsWalked, TypeOK
<1>3. pc[u] \in {"active", "append"}
  <2>1. ASSUME NEW t \in Tx, Begin(t) \/ Operate(t) \/ Deactivate(t)
        PROVE  pc[u] \in {"active", "append"}
    BY <1>1, <2>1 DEF Begin, Operate, Deactivate, JournalPending, ApplyMutation,
       JournalApplied, JournalFailed, MarkActive, StartRollback, SkipMutation,
       UndoMutation, JournalUndone, CloseTransaction, Goto, Advance, TypeOK
  <2>2. CASE Crash
    BY <2>2 DEF Crash
  <2>3. CASE Start
    BY <2>3 DEF Start, opVars
  <2>4. CASE Recover
    BY <1>1, <2>4 DEF Recover, RecoverNext, RecoverNoted, RecoverDone, Goto,
       opVars, TypeOK
  <2>5. CASE UNCHANGED vars
    BY <2>5 DEF vars, opVars
  <2> QED BY <2>1, <2>2, <2>3, <2>4, <2>5, NetStepCases
<1> QED BY <1>1, <1>2, <1>3

LEMMA InstalledInvKept ==
  ASSUME SeparateNetworks, DestinationsAreFree, ManagerInv, InstalledInv,
         [NetNext]_allVars
  PROVE  InstalledInv'
<1>1. CASE NetNext
  <2>1. HostIsPlanned' /\ InstalledSoFar'
    BY <1>1, HostIsPlannedKept, InstalledSoFarKept
  <2>2. LinkCameFirst' /\ PlanIsWalked' /\ PlanIsBound'
    BY <1>1, LinkCameFirstKept, PlanIsWalkedKept, PlanIsBoundKept DEF InstalledInv
  <2>3. \A u \in Tx : pc'[u] = "active" => Len(PlanOf[u]) <= MaxLen
    BY <1>1, ActiveLengthKept
  <2>4. (platform \in Platform)'
    BY PlatformKept DEF InstalledInv
  <2> QED BY <2>1, <2>2, <2>3, <2>4 DEF InstalledInv
<1>2. CASE UNCHANGED allVars
  BY <1>2 DEF allVars, netVars, vars, opVars, InstalledInv, HostIsPlanned,
     LinkCameFirst, InstalledSoFar, Behind, PlanIsWalked, PlanIsBound,
     OwnEntries, Entry, Owned
<1> QED BY <1>1, <1>2

LEMMA InstalledInvInit == NetInit => InstalledInv
<1> SUFFICES ASSUME NetInit PROVE InstalledInv
  OBVIOUS
<1>1. HostIsPlanned /\ LinkCameFirst
  BY DEF NetInit, Init, HostIsPlanned, LinkCameFirst
<1>2. InstalledSoFar /\ \A t \in Tx : pc[t] # "active"
  BY DEF NetInit, Init, InstalledSoFar, Behind
<1>3. NetInv
  BY NetInitInv
<1> QED BY <1>1, <1>2, <1>3 DEF InstalledInv, NetInv

\* Concurrent profiles are independent (router_*.go and dns_*.go under
\* Activate, rollback and recovery): when no two of them meet on the host and
\* on macOS no destination is taken before, an active profile whose tunnel is
\* up has every route and resolver of its plan, whatever commands fail, with
\* or without a word, and whenever the helper dies.
THEOREM ActiveInstalled ==
  ASSUME SeparateNetworks, DestinationsAreFree
  PROVE  NetSpec => []ActiveIsInstalled
<1>1. NetInit => InstalledInv
  BY InstalledInvInit
<1>2. ManagerInv /\ InstalledInv /\ [NetNext]_allVars => InstalledInv'
  BY InstalledInvKept
<1>3. InstalledInv => ActiveIsInstalled
  <2> SUFFICES ASSUME InstalledInv, NEW t \in Tx, pc[t] = "active", link[t] = "up",
                      NEW i \in DOMAIN PlanOf[t], Owned(PlanOf[t][i])
               PROVE  Entry(PlanOf[t][i]) \in host
    BY DEF ActiveIsInstalled, InstalledFully
  <2>1. Len(PlanOf[t]) \in Nat /\ Len(PlanOf[t]) <= MaxLen
    BY PlanLength DEF InstalledInv
  <2>2. i \in 1..Len(PlanOf[t])
    BY PlanDomain
  <2>3. i \in Index
    BY <2>1, <2>2, MaxLenAssumption DEF Index
  <2> QED BY <2>2, <2>3 DEF InstalledInv, InstalledSoFar, Behind
<1> QED BY <1>1, <1>2, <1>3, NetManagerInvariant, PTL DEF NetSpec
=============================================================================
