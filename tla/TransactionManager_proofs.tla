---------------------- MODULE TransactionManager_proofs ----------------------
(***************************************************************************)
(* Proofs about TransactionManager for every set of transactions, every     *)
(* plan length and every number of failures.                                *)
(***************************************************************************)
EXTENDS TransactionManager, TLAPS

USE TxAssumption, MaxLenAssumption, MaxFaultsAssumption

-----------------------------------------------------------------------------
(* Records *)

\* The empty and the new record are records, and every position of theirs is
\* "none".
LEMMA EmptyRecords ==
  /\ NoRecord \in Record /\ NoRecord.state = "absent"
  /\ NewRecord \in Record /\ NewRecord.state = "preparing"
  /\ \A i \in Index : NoRecord.mut[i] = "none" /\ NewRecord.mut[i] = "none"
BY DEF NoRecord, NewRecord, Record, TransactionState, MutationState

\* Changing the state of a record keeps its mutations.
LEMMA StateChange ==
  ASSUME NEW rec \in Record, NEW s \in TransactionState
  PROVE  /\ WithState(rec, s) \in Record
         /\ WithState(rec, s).state = s
         /\ WithState(rec, s).mut = rec.mut
BY DEF WithState, Record

\* Changing one mutation of a record keeps its state and the other mutations.
LEMMA MutationChange ==
  ASSUME NEW rec \in Record, NEW i \in Index, NEW m \in MutationState
  PROVE  /\ WithMutation(rec, i, m) \in Record
         /\ WithMutation(rec, i, m).state = rec.state
         /\ WithMutation(rec, i, m).mut[i] = m
         /\ \A j \in Index :
              j # i => WithMutation(rec, i, m).mut[j] = rec.mut[j]
BY DEF WithMutation, Record

-----------------------------------------------------------------------------
(* Type correctness *)

\* A fault leaves the budget in range, and a save leaves the old record or
\* puts the new one in place.
LEMMA SaveOutcome ==
  ASSUME TypeOK, NEW t \in Tx, NEW rec \in Record,
         Saved(t, rec) \/ SaveFailed(t, rec)
  PROVE  /\ journal' \in [Tx -> Record]
         /\ faults' \in 0..MaxFaults
         /\ journal'[t] = journal[t] \/ journal'[t] = rec
         /\ Saved(t, rec) => journal'[t] = rec
         /\ \A u \in Tx : u # t => journal'[u] = journal[u]
BY DEF TypeOK, Saved, SaveFailed, Fault

LEMMA TypeInit == Init => TypeOK
<1> SUFFICES ASSUME Init PROVE TypeOK
  OBVIOUS
<1>1. journal \in [Tx -> Record] /\ memory \in [Tx -> Record]
  BY EmptyRecords DEF Init
<1>2. pc \in [Tx -> Location] /\ undoFailed \in [Tx -> BOOLEAN]
  BY DEF Init, Location
<1>3. at \in [Tx -> 0..(MaxLen + 1)] /\ planLen \in [Tx -> 0..MaxLen]
  BY DEF Init
<1>4. recoverFailed \in BOOLEAN
  BY Zenon DEF Init
<1> QED BY <1>1, <1>2, <1>3, <1>4 DEF Init, TypeOK

\* Every step of an operation keeps the types.
LEMMA TypeOperate ==
  ASSUME TypeOK, NEW t \in Tx, InBounds(t), Begin(t) \/ Operate(t)
  PROVE  TypeOK'
<1> USE DEF TypeOK, Goto, SetMemory, opVars, procVars
<1>1. CASE Begin(t)
  <2>1. journal' \in [Tx -> Record] /\ faults' \in 0..MaxFaults
    BY <1>1, SaveOutcome, EmptyRecords DEF Begin
  <2>2. memory' \in [Tx -> Record] /\ pc' \in [Tx -> Location]
    BY <1>1, EmptyRecords DEF Begin, Location, ActivateSteps, Outcomes
  <2>3. at' \in [Tx -> 0..(MaxLen + 1)] /\ planLen' \in [Tx -> 0..MaxLen]
    BY <1>1 DEF Begin
  <2> QED BY <1>1, <2>1, <2>2, <2>3 DEF Begin
<1>2. CASE JournalPending(t)
  <2>1. at[t] \in Index
    BY <1>2 DEF JournalPending, InBounds, Index
  <2>2. WithMutation(memory[t], at[t], "pending") \in Record
    BY <2>1, MutationChange DEF MutationState
  <2> QED BY <1>2, <2>2, SaveOutcome
       DEF JournalPending, Fault, Location, ActivateSteps, RollbackSteps
<1>3. CASE ApplyMutation(t)
  <2>1. at[t] \in Index
    BY <1>3 DEF ApplyMutation, InBounds, Index
  <2>2. /\ WithMutation(memory[t], at[t], "applied") \in Record
        /\ WithMutation(memory[t], at[t], "failed") \in Record
    BY <2>1, MutationChange DEF MutationState
  <2>3. <<t, at[t]>> \in Change
    BY <2>1 DEF Change
  <2> QED BY <1>3, <2>2, <2>3
       DEF ApplyMutation, Fault, Location, ActivateSteps
<1>4. CASE JournalApplied(t)
  <2>1. at[t] + 1 \in 0..(MaxLen + 1)
    BY <1>4 DEF JournalApplied, InBounds
  <2> QED BY <1>4, <2>1, SaveOutcome
       DEF JournalApplied, Location, ActivateSteps, RollbackSteps
<1>5. CASE JournalFailed(t)
  BY <1>5, SaveOutcome DEF JournalFailed, SaveIgnored, Location, RollbackSteps
<1>6. CASE MarkActive(t)
  <2>1. WithState(memory[t], "active") \in Record
    BY StateChange DEF TransactionState
  <2> QED BY <1>6, <2>1, SaveOutcome
       DEF MarkActive, Location, RollbackSteps, Outcomes
<1>7. CASE StartRollback(t)
  <2>1. WithState(memory[t], "rolling_back") \in Record
    BY StateChange DEF TransactionState
  <2> QED BY <1>7, <2>1, SaveOutcome
       DEF StartRollback, SaveIgnored, Location, RollbackSteps
<1>8. CASE SkipMutation(t)
  BY <1>8 DEF SkipMutation, Advance, InBounds, Index, Location, RollbackSteps
<1>9. CASE UndoMutation(t)
  <2>1. at[t] \in Index
    BY <1>9 DEF UndoMutation, InBounds
  <2>2. WithMutation(memory[t], at[t], "undone") \in Record
    BY <2>1, MutationChange DEF MutationState
  <2>3. undoFailed' \in [Tx -> BOOLEAN]
    BY <1>9 DEF UndoMutation
  <2>4. at' \in [Tx -> 0..(MaxLen + 1)] /\ pc' \in [Tx -> Location]
    BY <1>9, <2>1 DEF UndoMutation, Advance, Index, Location, RollbackSteps
  <2>5. memory' \in [Tx -> Record] /\ effects' \in SUBSET Change
    BY <1>9, <2>2 DEF UndoMutation
  <2> QED BY <1>9, <2>3, <2>4, <2>5 DEF UndoMutation, Fault
<1>10. CASE JournalUndone(t)
  BY <1>10, SaveOutcome
  DEF JournalUndone, SaveIgnored, Advance, InBounds, Index, Location, RollbackSteps
<1>11. CASE CloseTransaction(t)
  <2>1. WithState(memory[t], "failed") \in Record
    BY StateChange DEF TransactionState
  <2> QED BY <1>11, <2>1, SaveOutcome, EmptyRecords
       DEF CloseTransaction, SaveIgnored, Location, Outcomes
<1> QED BY <1>1, <1>2, <1>3, <1>4, <1>5, <1>6, <1>7, <1>8, <1>9, <1>10, <1>11
     DEF Operate

\* So does every step of the process, of an owner and of the host.
LEMMA TypeProcess ==
  ASSUME TypeOK,
         \/ \E t \in Tx : Deactivate(t)
         \/ Crash \/ Start \/ Recover
         \/ \E c \in Change : Vanish(c)
  PROVE  TypeOK'
<1> USE DEF TypeOK, Goto, SetMemory, opVars, procVars
<1>1. ASSUME NEW t \in Tx, Deactivate(t) PROVE TypeOK'
  BY <1>1 DEF Deactivate, Location, RollbackSteps
<1>2. CASE Crash
  <2>1. memory' \in [Tx -> Record]
    BY <1>2, EmptyRecords DEF Crash
  <2>2. pc' \in [Tx -> Location] /\ undoFailed' \in [Tx -> BOOLEAN]
    BY <1>2 DEF Crash, Location, Outcomes
  <2>3. at' \in [Tx -> 0..(MaxLen + 1)] /\ planLen' \in [Tx -> 0..MaxLen]
    BY <1>2 DEF Crash
  <2>4. recoverFailed' \in BOOLEAN
    BY <1>2, Zenon DEF Crash
  <2> QED BY <1>2, <2>1, <2>2, <2>3, <2>4 DEF Crash, Fault
<1>3. CASE Start
  <2>1. recoverFailed' \in BOOLEAN
    BY <1>3, Zenon DEF Start
  <2>2. mode' \in {"down", "recovering", "serving"} /\ queue' \in SUBSET Tx
    BY <1>3 DEF Start
  <2> QED BY <1>3, <2>1, <2>2 DEF Start, Fault
<1>4. ASSUME NEW t \in Tx, RecoverNext(t) PROVE TypeOK'
  BY <1>4 DEF RecoverNext, Location, RollbackSteps
<1>5. ASSUME NEW t \in Tx, RecoverNoted(t) PROVE TypeOK'
  <2>1. recoverFailed' \in BOOLEAN
    BY <1>5, Zenon DEF RecoverNoted
  <2> QED BY <1>5, <2>1, EmptyRecords DEF RecoverNoted, Location, Outcomes
<1>6. CASE RecoverDone
  <2>1. recoverFailed' \in BOOLEAN
    BY <1>6, Zenon DEF RecoverDone
  <2> QED BY <1>6, <2>1 DEF RecoverDone
<1>7. ASSUME NEW c \in Change, Vanish(c) PROVE TypeOK'
  BY <1>7 DEF Vanish
<1> QED BY <1>1, <1>2, <1>3, <1>4, <1>5, <1>6, <1>7 DEF Recover

-----------------------------------------------------------------------------
(* The inductive invariant *)

\* A step leaves everything of transaction u alone, but for changes that go
\* away.
Untouched(u) ==
  /\ journal'[u] = journal[u] /\ memory'[u] = memory[u]
  /\ pc'[u] = pc[u] /\ at'[u] = at[u]
  /\ planLen'[u] = planLen[u] /\ undoFailed'[u] = undoFailed[u]
  /\ \A i \in Index : <<u, i>> \in effects' => <<u, i>> \in effects

LEMMA UntouchedKeeps ==
  ASSUME NEW u \in Tx, OperationInv(u), InBounds(u), Untouched(u), UNCHANGED procVars
  PROVE  OperationInv(u)'
<1> USE DEF Untouched, procVars
<1>1. InBounds(u)' /\ FileShape(u)'
  BY DEF InBounds, FileShape, OperationInv
<1>2. EffectsCovered(u)' /\ MemoryKnows(u)'
  BY DEF EffectsCovered, Covered, MemoryKnows, Holding, OperationInv
<1>3. IntentJournaled(u)'
  BY DEF IntentJournaled, Covered, OperationInv
<1>4. ActivateProgress(u)'
  BY DEF ActivateProgress, OperationInv
<1>5. RollbackProgress(u)'
  BY DEF RollbackProgress, OperationInv
<1>6. RecoveryTracks(u)'
  BY DEF RecoveryTracks, Holding, Working, OperationInv
<1>7. /\ pc'[u] = "released" => Gone(u)'
      /\ pc'[u] = "active" => FullyJournaled(u)'
  BY DEF Gone, FullyJournaled, OperationInv
<1> QED BY <1>1, <1>2, <1>3, <1>4, <1>5, <1>6, <1>7 DEF OperationInv

\* An operation touches its own transaction only.
LEMMA OperateFrame ==
  ASSUME TypeOK, NEW t \in Tx, InBounds(t), Begin(t) \/ Operate(t) \/ Deactivate(t)
  PROVE  /\ UNCHANGED procVars
         /\ \A u \in Tx : u # t => Untouched(u)
<1> SUFFICES ASSUME NEW u \in Tx, u # t
             PROVE  UNCHANGED procVars /\ Untouched(u)
  BY DEF Begin, Operate, Deactivate, JournalPending, ApplyMutation,
         JournalApplied, JournalFailed, MarkActive, StartRollback,
         SkipMutation, UndoMutation, JournalUndone, CloseTransaction
<1> USE DEF TypeOK, Goto, SetMemory, Saved, SaveFailed, SaveIgnored, Advance,
            opVars, Untouched
<1>1. CASE Begin(t) BY <1>1 DEF Begin
<1>2. CASE JournalPending(t) BY <1>2 DEF JournalPending
<1>3. CASE ApplyMutation(t) BY <1>3 DEF ApplyMutation
<1>4. CASE JournalApplied(t) BY <1>4 DEF JournalApplied
<1>5. CASE JournalFailed(t) BY <1>5 DEF JournalFailed
<1>6. CASE MarkActive(t) BY <1>6 DEF MarkActive
<1>7. CASE StartRollback(t) BY <1>7 DEF StartRollback
<1>8. CASE SkipMutation(t) BY <1>8 DEF SkipMutation
<1>9. CASE UndoMutation(t) BY <1>9 DEF UndoMutation
<1>10. CASE JournalUndone(t) BY <1>10 DEF JournalUndone
<1>11. CASE CloseTransaction(t) BY <1>11 DEF CloseTransaction
<1>12. CASE Deactivate(t) BY <1>12 DEF Deactivate
<1> QED BY <1>1, <1>2, <1>3, <1>4, <1>5, <1>6, <1>7, <1>8, <1>9, <1>10,
           <1>11, <1>12 DEF Operate

\* A save from memory keeps the effects covered whether or not it fails, and
\* one that does not fail leaves the record on disk.
LEMMA SaveKeepsCover ==
  ASSUME TypeOK, NEW t \in Tx, NEW rec \in Record, rec.state # "absent",
         EffectsCovered(t), FileShape(t), pc'[t] # "unused",
         Saved(t, rec) \/ SaveFailed(t, rec),
         \A i \in Index : <<t, i>> \in effects' =>
           <<t, i>> \in effects /\ rec.mut[i] \in Undoable
  PROVE  /\ EffectsCovered(t)' /\ FileShape(t)'
         /\ Saved(t, rec) => journal'[t] = rec
<1>1. /\ journal'[t] = journal[t] \/ journal'[t] = rec
      /\ Saved(t, rec) => journal'[t] = rec
  BY SaveOutcome
<1>2. EffectsCovered(t)'
  BY <1>1 DEF EffectsCovered, Covered
<1>3. FileShape(t)'
  BY <1>1 DEF FileShape
<1> QED BY <1>1, <1>2, <1>3

LEMMA BeginKeeps ==
  ASSUME TypeOK, NEW t \in Tx, OperationInv(t), Begin(t)
  PROVE  OperationInv(t)'
<1> USE DEF TypeOK, Goto, SetMemory
<1>1. /\ pc[t] = "unused" /\ mode = "serving" /\ UNCHANGED procVars
      /\ UNCHANGED effects
      /\ Saved(t, NewRecord) \/ SaveFailed(t, NewRecord)
  BY DEF Begin
<1>2. journal[t] = NoRecord /\ \A i \in Index : <<t, i>> \notin effects
  BY <1>1, EmptyRecords
  DEF OperationInv, FileShape, EffectsCovered, Covered, Undoable
<1>3. \/ /\ pc'[t] = "append" /\ memory'[t] = NewRecord /\ at'[t] = 1
         /\ planLen'[t] \in 0..MaxLen
      \/ pc'[t] = "lost"
  BY DEF Begin
<1>4. EffectsCovered(t)' /\ FileShape(t)'
  BY <1>1, <1>2, <1>3, EmptyRecords, SaveKeepsCover DEF OperationInv
<1>5. InBounds(t)' /\ IntentJournaled(t)'
  BY <1>3 DEF InBounds, IntentJournaled
<1>6. MemoryKnows(t)'
  BY <1>1, <1>2, <1>3, EmptyRecords DEF MemoryKnows, Holding
<1>7. ActivateProgress(t)'
  BY <1>3, EmptyRecords DEF ActivateProgress, ActivateSteps, Index
<1>8. RollbackProgress(t)'
  BY <1>3 DEF RollbackProgress
<1>9. RecoveryTracks(t)'
  BY <1>1 DEF OperationInv, RecoveryTracks, procVars
<1> QED BY <1>3, <1>4, <1>5, <1>6, <1>7, <1>8, <1>9 DEF OperationInv

LEMMA JournalPendingKeeps ==
  ASSUME TypeOK, NEW t \in Tx, OperationInv(t), JournalPending(t)
  PROVE  OperationInv(t)'
<1> DEFINE rec == WithMutation(memory[t], at[t], "pending")
<1> USE DEF TypeOK, Goto, SetMemory
<1>1. /\ pc[t] = "append" /\ at[t] \in 1..planLen[t] /\ at[t] \in Index
      /\ UNCHANGED <<effects, procVars>> /\ at'[t] = at[t]
      /\ planLen'[t] = planLen[t]
  BY DEF JournalPending, OperationInv, InBounds, Index
<1>2. /\ rec \in Record /\ rec.state = memory[t].state
      /\ rec.mut[at[t]] = "pending"
      /\ \A j \in Index : j # at[t] => rec.mut[j] = memory[t].mut[j]
  <2>1. memory[t] \in Record /\ "pending" \in MutationState
    BY DEF MutationState
  <2> QED BY <1>1, <2>1, MutationChange
<1>3. /\ memory[t].state # "absent" /\ Holding(t)
      /\ \A i \in Index : <<t, i>> \in effects =>
           memory[t].mut[i] \in Undoable /\ rec.mut[i] \in Undoable
  BY <1>1, <1>2 DEF OperationInv, MemoryKnows, Holding, Undoable
<1>4. CASE /\ SetMemory(t, rec)
           /\ \/ Saved(t, rec) /\ Goto(t, "apply")
              \/ SaveFailed(t, rec) /\ Goto(t, "rollback")
  <2> HIDE DEF rec
  <2>1. /\ EffectsCovered(t)' /\ FileShape(t)'
        /\ Saved(t, rec) => journal'[t] = rec
    BY <1>1, <1>2, <1>3, <1>4, SaveKeepsCover DEF OperationInv
  <2>2. memory'[t] = rec
    BY <1>4
  <2>3. InBounds(t)' /\ MemoryKnows(t)'
    BY <1>1, <1>2, <1>3, <1>4, <2>2 DEF InBounds, MemoryKnows, Holding
  <2>4. IntentJournaled(t)'
    BY <1>1, <1>2, <1>3, <1>4, <2>1 DEF IntentJournaled, Covered, Undoable
  <2>5. ActivateProgress(t)' /\ RollbackProgress(t)'
    BY <1>1, <1>2, <1>4, <2>2
    DEF OperationInv, ActivateProgress, ActivateSteps, RollbackProgress
  <2>6. RecoveryTracks(t)'
    BY <1>1, <1>3, <1>4
    DEF OperationInv, RecoveryTracks, Working, ActivateSteps, RollbackSteps,
        procVars
  <2> QED BY <1>4, <2>1, <2>3, <2>4, <2>5, <2>6 DEF OperationInv
<1>5. CASE Goto(t, "rollback") /\ UNCHANGED <<journal, memory>>
  <2>1. InBounds(t)' /\ FileShape(t)' /\ EffectsCovered(t)' /\ MemoryKnows(t)'
    BY <1>1, <1>3, <1>5
    DEF OperationInv, InBounds, FileShape, EffectsCovered, Covered,
        MemoryKnows, Holding
  <2>2. IntentJournaled(t)' /\ ActivateProgress(t)' /\ RollbackProgress(t)'
    BY <1>5
    DEF IntentJournaled, ActivateProgress, ActivateSteps, RollbackProgress
  <2>3. RecoveryTracks(t)'
    BY <1>1, <1>3, <1>5
    DEF OperationInv, RecoveryTracks, Working, ActivateSteps, RollbackSteps,
        procVars
  <2> QED BY <1>5, <2>1, <2>2, <2>3 DEF OperationInv
<1> QED BY <1>4, <1>5 DEF JournalPending

LEMMA ApplyMutationKeeps ==
  ASSUME TypeOK, NEW t \in Tx, OperationInv(t), ApplyMutation(t)
  PROVE  OperationInv(t)'
<1> USE DEF TypeOK, Goto, SetMemory
<1>1. /\ pc[t] = "apply" /\ at[t] \in 1..planLen[t] /\ at[t] \in Index
      /\ UNCHANGED <<journal, at, planLen, procVars>>
      /\ \A i \in Index : i # at[t] =>
           (<<t, i>> \in effects' => <<t, i>> \in effects)
  BY DEF ApplyMutation, OperationInv, InBounds, Index
<1>2. PICK m \in {"applied", "failed"} :
        /\ SetMemory(t, WithMutation(memory[t], at[t], m))
        /\ Goto(t, m)
  BY DEF ApplyMutation
<1>3. /\ memory'[t].state = memory[t].state
      /\ memory'[t].mut[at[t]] = m
      /\ \A j \in Index : j # at[t] => memory'[t].mut[j] = memory[t].mut[j]
  <2>1. memory[t] \in Record /\ m \in MutationState
    BY DEF MutationState
  <2>2. memory'[t] = WithMutation(memory[t], at[t], m)
    BY <1>2
  <2> QED BY <1>1, <2>1, <2>2, MutationChange
<1>4. pc'[t] = m /\ Holding(t) /\ Covered(<<t, at[t]>>)
  BY <1>1, <1>2 DEF Holding, OperationInv, IntentJournaled
<1>5. InBounds(t)' /\ FileShape(t)'
  BY <1>1, <1>4 DEF OperationInv, InBounds, FileShape
<1>6. EffectsCovered(t)' /\ IntentJournaled(t)'
  BY <1>1, <1>4 DEF OperationInv, EffectsCovered, IntentJournaled, Covered
<1>7. MemoryKnows(t)'
  BY <1>1, <1>3, <1>4 DEF OperationInv, MemoryKnows, Holding, Undoable
<1>8. ActivateProgress(t)' /\ RollbackProgress(t)'
  BY <1>1, <1>3, <1>4
  DEF OperationInv, ActivateProgress, ActivateSteps, RollbackProgress
<1>9. RecoveryTracks(t)'
  BY <1>1, <1>4 DEF OperationInv, RecoveryTracks, Working, Holding,
                    ActivateSteps, RollbackSteps, procVars
<1> QED BY <1>4, <1>5, <1>6, <1>7, <1>8, <1>9 DEF OperationInv

\* The three steps that save the object in memory as it is.
LEMMA JournalAppliedKeeps ==
  ASSUME TypeOK, NEW t \in Tx, OperationInv(t), JournalApplied(t)
  PROVE  OperationInv(t)'
<1> USE DEF TypeOK, Goto
<1>1. /\ pc[t] = "applied" /\ at[t] \in 1..planLen[t] /\ at[t] \in Index
      /\ UNCHANGED <<effects, memory, planLen, procVars>>
      /\ \/ /\ Saved(t, memory[t])
            /\ at'[t] = at[t] + 1 /\ pc'[t] = "append"
         \/ /\ SaveFailed(t, memory[t])
            /\ at'[t] = at[t] /\ pc'[t] = "rollback"
  BY DEF JournalApplied, OperationInv, InBounds, Index
<1>2. /\ Holding(t) /\ memory[t] \in Record /\ memory[t].state # "absent"
      /\ \A i \in Index : <<t, i>> \in effects => memory[t].mut[i] \in Undoable
  BY <1>1 DEF OperationInv, MemoryKnows, Holding
<1>3. EffectsCovered(t)' /\ FileShape(t)'
  BY <1>1, <1>2, SaveKeepsCover DEF OperationInv
<1>4. MemoryKnows(t)' /\ IntentJournaled(t)'
  BY <1>1, <1>2 DEF MemoryKnows, Holding, IntentJournaled
<1>5. InBounds(t)'
  BY <1>1 DEF InBounds
<1>6. ActivateProgress(t)'
  <2>1. \A i \in Index : /\ i <= at[t] => memory[t].mut[i] = "applied"
                         /\ i > at[t] => memory[t].mut[i] = "none"
    BY <1>1 DEF OperationInv, ActivateProgress, ActivateSteps, Index
  <2> QED BY <1>1, <2>1 DEF ActivateProgress, ActivateSteps, Index
<1>7. RollbackProgress(t)' /\ RecoveryTracks(t)'
  BY <1>1, <1>2 DEF OperationInv, RollbackProgress, RecoveryTracks, Working,
                    ActivateSteps, RollbackSteps, procVars
<1> QED BY <1>1, <1>3, <1>4, <1>5, <1>6, <1>7 DEF OperationInv

LEMMA JournalFailedKeeps ==
  ASSUME TypeOK, NEW t \in Tx, OperationInv(t), JournalFailed(t)
  PROVE  OperationInv(t)'
<1> USE DEF TypeOK, Goto
<1>1. /\ pc[t] = "failed" /\ pc'[t] = "rollback"
      /\ UNCHANGED <<effects, memory, at, planLen, procVars>>
      /\ Saved(t, memory[t]) \/ SaveFailed(t, memory[t])
  BY DEF JournalFailed, SaveIgnored
<1>2. /\ Holding(t) /\ memory[t] \in Record /\ memory[t].state # "absent"
      /\ \A i \in Index : <<t, i>> \in effects => memory[t].mut[i] \in Undoable
  BY <1>1 DEF OperationInv, MemoryKnows, Holding
<1>3. EffectsCovered(t)' /\ FileShape(t)'
  BY <1>1, <1>2, SaveKeepsCover DEF OperationInv
<1>4. InBounds(t)' /\ MemoryKnows(t)' /\ IntentJournaled(t)'
  BY <1>1, <1>2 DEF InBounds, MemoryKnows, Holding, IntentJournaled
<1>5. ActivateProgress(t)' /\ RollbackProgress(t)' /\ RecoveryTracks(t)'
  BY <1>1, <1>2 DEF OperationInv, ActivateProgress, RollbackProgress,
                    RecoveryTracks, Working, ActivateSteps, RollbackSteps,
                    procVars
<1> QED BY <1>1, <1>3, <1>4, <1>5 DEF OperationInv

LEMMA MarkActiveKeeps ==
  ASSUME TypeOK, NEW t \in Tx, OperationInv(t), MarkActive(t)
  PROVE  OperationInv(t)'
<1> DEFINE rec == WithState(memory[t], "active")
<1> USE DEF TypeOK, Goto, SetMemory
<1>1. /\ pc[t] = "append" /\ at[t] = planLen[t] + 1
      /\ UNCHANGED <<effects, planLen, procVars>>
      /\ memory'[t] = rec
      /\ \/ Saved(t, rec) /\ pc'[t] = "active"
         \/ SaveFailed(t, rec) /\ pc'[t] = "rollback"
  BY DEF MarkActive, OperationInv, InBounds
<1>2. rec \in Record /\ rec.state = "active" /\ rec.mut = memory[t].mut
  <2>1. memory[t] \in Record /\ "active" \in TransactionState
    BY DEF TransactionState
  <2> QED BY <2>1, StateChange
<1>3. /\ Holding(t)
      /\ \A i \in Index : <<t, i>> \in effects => rec.mut[i] \in Undoable
  BY <1>1, <1>2 DEF OperationInv, MemoryKnows, Holding
<1> HIDE DEF rec
<1>4. /\ EffectsCovered(t)' /\ FileShape(t)'
      /\ Saved(t, rec) => journal'[t] = rec
  BY <1>1, <1>2, <1>3, SaveKeepsCover DEF OperationInv
<1>5. InBounds(t)' /\ MemoryKnows(t)' /\ IntentJournaled(t)'
  BY <1>1, <1>2, <1>3 DEF InBounds, MemoryKnows, Holding, IntentJournaled
<1>6. ActivateProgress(t)' /\ RollbackProgress(t)'
  BY <1>1 DEF ActivateProgress, ActivateSteps, RollbackProgress
<1>7. pc'[t] = "active" => FullyJournaled(t)'
  <2>1. \A i \in Index :
          rec.mut[i] = IF i <= planLen[t] THEN "applied" ELSE "none"
    BY <1>1, <1>2 DEF OperationInv, ActivateProgress, ActivateSteps, Index
  <2> QED BY <1>1, <1>2, <1>4, <2>1 DEF FullyJournaled
<1>8. RecoveryTracks(t)'
  BY <1>1, <1>3 DEF OperationInv, RecoveryTracks, Working, ActivateSteps,
                    RollbackSteps, procVars
<1> QED BY <1>1, <1>4, <1>5, <1>6, <1>7, <1>8 DEF OperationInv

LEMMA DeactivateKeeps ==
  ASSUME TypeOK, NEW t \in Tx, OperationInv(t), Deactivate(t)
  PROVE  OperationInv(t)'
<1> USE DEF TypeOK, Goto
<1>1. /\ pc[t] = "active" /\ pc'[t] = "rollback" /\ mode = "serving"
      /\ UNCHANGED <<journal, effects, memory, at, planLen, procVars>>
  BY DEF Deactivate
<1>2. InBounds(t)' /\ FileShape(t)' /\ EffectsCovered(t)' /\ MemoryKnows(t)'
  BY <1>1 DEF OperationInv, InBounds, FileShape, EffectsCovered, Covered,
              MemoryKnows, Holding
<1>3. /\ IntentJournaled(t)' /\ ActivateProgress(t)' /\ RollbackProgress(t)'
      /\ RecoveryTracks(t)'
  BY <1>1 DEF OperationInv, IntentJournaled, ActivateProgress,
              RollbackProgress, RecoveryTracks, ActivateSteps, procVars
<1> QED BY <1>1, <1>2, <1>3 DEF OperationInv

LEMMA StartRollbackKeeps ==
  ASSUME TypeOK, NEW t \in Tx, OperationInv(t), StartRollback(t)
  PROVE  OperationInv(t)'
<1> DEFINE rec == WithState(memory[t], "rolling_back")
<1> USE DEF TypeOK, Goto, SetMemory
<1>1. /\ pc[t] = "rollback"
      /\ UNCHANGED <<effects, planLen, procVars>>
      /\ memory'[t] = rec
      /\ Saved(t, rec) \/ SaveFailed(t, rec)
      /\ at'[t] = MaxLen
      /\ pc'[t] = IF MaxLen = 0 THEN "close" ELSE "undo"
  BY DEF StartRollback, SaveIgnored
<1>2. rec \in Record /\ rec.state = "rolling_back" /\ rec.mut = memory[t].mut
  <2>1. memory[t] \in Record /\ "rolling_back" \in TransactionState
    BY DEF TransactionState
  <2> QED BY <2>1, StateChange
<1>3. /\ Holding(t)
      /\ \A i \in Index : <<t, i>> \in effects => rec.mut[i] \in Undoable
  BY <1>1, <1>2 DEF OperationInv, MemoryKnows, Holding
<1> HIDE DEF rec
<1>4. EffectsCovered(t)' /\ FileShape(t)'
  BY <1>1, <1>2, <1>3, SaveKeepsCover DEF OperationInv
<1>5. InBounds(t)'
  BY <1>1 DEF InBounds, Index
<1>6. MemoryKnows(t)' /\ IntentJournaled(t)'
  BY <1>1, <1>2, <1>3 DEF MemoryKnows, Holding, IntentJournaled
<1>7. ActivateProgress(t)' /\ RollbackProgress(t)'
  BY <1>1 DEF ActivateProgress, ActivateSteps, RollbackProgress, Index
<1>8. RecoveryTracks(t)'
  BY <1>1, <1>3 DEF OperationInv, RecoveryTracks, Working, ActivateSteps,
                    RollbackSteps, procVars
<1> QED BY <1>1, <1>4, <1>5, <1>6, <1>7, <1>8 DEF OperationInv

LEMMA SkipMutationKeeps ==
  ASSUME TypeOK, NEW t \in Tx, OperationInv(t), SkipMutation(t)
  PROVE  OperationInv(t)'
<1> USE DEF TypeOK, Goto
<1>1. /\ pc[t] = "undo" /\ at[t] \in Index
      /\ memory[t].mut[at[t]] \notin Undoable
      /\ UNCHANGED <<journal, effects, memory, planLen, undoFailed, procVars>>
      /\ at'[t] = at[t] - 1
      /\ pc'[t] = IF at[t] = 1 THEN "close" ELSE "undo"
  BY DEF SkipMutation, Advance, OperationInv, InBounds
<1>2. Holding(t)
  BY <1>1 DEF Holding
<1>3. InBounds(t)'
  BY <1>1 DEF InBounds, Index
<1>4. FileShape(t)' /\ EffectsCovered(t)' /\ MemoryKnows(t)'
  BY <1>1, <1>2 DEF OperationInv, FileShape, EffectsCovered, Covered,
                    MemoryKnows
<1>5. IntentJournaled(t)' /\ ActivateProgress(t)'
  BY <1>1 DEF IntentJournaled, ActivateProgress, ActivateSteps
<1>6. RollbackProgress(t)'
  BY <1>1 DEF OperationInv, RollbackProgress, Index
<1>7. RecoveryTracks(t)'
  BY <1>1, <1>2 DEF OperationInv, RecoveryTracks, Working, ActivateSteps,
                    RollbackSteps, procVars
<1> QED BY <1>1, <1>3, <1>4, <1>5, <1>6, <1>7 DEF OperationInv

LEMMA UndoMutationKeeps ==
  ASSUME TypeOK, NEW t \in Tx, OperationInv(t), UndoMutation(t)
  PROVE  OperationInv(t)'
<1> DEFINE rec == WithMutation(memory[t], at[t], "undone")
<1> USE DEF TypeOK, Goto, SetMemory
<1>1. /\ pc[t] = "undo" /\ at[t] \in Index
      /\ UNCHANGED <<journal, planLen, procVars>>
      /\ \A i \in Index : <<t, i>> \in effects' => <<t, i>> \in effects
  BY DEF UndoMutation, OperationInv, InBounds
<1>2. /\ rec.state = memory[t].state /\ rec.mut[at[t]] = "undone"
      /\ \A j \in Index : j # at[t] => rec.mut[j] = memory[t].mut[j]
  <2>1. memory[t] \in Record /\ "undone" \in MutationState
    BY DEF MutationState
  <2> QED BY <1>1, <2>1, MutationChange
<1>3. Holding(t) /\ FileShape(t)' /\ EffectsCovered(t)'
  <2>1. pc'[t] # "unused"
    BY DEF UndoMutation, Advance
  <2> QED BY <1>1, <2>1 DEF Holding, OperationInv, FileShape, EffectsCovered, Covered
<1> HIDE DEF rec
<1>4. CASE /\ effects' = effects \ {<<t, at[t]>>}
           /\ memory'[t] = rec /\ pc'[t] = "undone"
           /\ UNCHANGED <<at, undoFailed>>
  <2>1. InBounds(t)' /\ IntentJournaled(t)' /\ ActivateProgress(t)'
    BY <1>1, <1>4 DEF InBounds, IntentJournaled, ActivateProgress, ActivateSteps
  <2>2. MemoryKnows(t)'
    BY <1>1, <1>2, <1>3, <1>4 DEF OperationInv, MemoryKnows
  <2>3. RollbackProgress(t)'
    BY <1>1, <1>2, <1>4 DEF OperationInv, RollbackProgress, Index, Undoable
  <2>4. RecoveryTracks(t)'
    BY <1>1, <1>3, <1>4 DEF OperationInv, RecoveryTracks, Working,
                            ActivateSteps, RollbackSteps, procVars
  <2> QED BY <1>3, <1>4, <2>1, <2>2, <2>3, <2>4 DEF OperationInv
<1>5. CASE /\ undoFailed'[t] = TRUE
           /\ at'[t] = at[t] - 1 /\ memory'[t] = memory[t]
           /\ pc'[t] = IF at[t] = 1 THEN "close" ELSE "undo"
  <2>1. InBounds(t)' /\ IntentJournaled(t)' /\ ActivateProgress(t)'
    BY <1>1, <1>5 DEF InBounds, Index, IntentJournaled, ActivateProgress,
                      ActivateSteps
  <2>2. MemoryKnows(t)'
    BY <1>1, <1>3, <1>5 DEF OperationInv, MemoryKnows
  <2>3. RollbackProgress(t)'
    BY <1>5, Zenon DEF RollbackProgress
  <2>4. RecoveryTracks(t)'
    BY <1>1, <1>3, <1>5 DEF OperationInv, RecoveryTracks, Working,
                            ActivateSteps, RollbackSteps, procVars
  <2> QED BY <1>3, <1>5, <2>1, <2>2, <2>3, <2>4 DEF OperationInv
<1> QED BY <1>4, <1>5 DEF UndoMutation, Advance, rec

LEMMA JournalUndoneKeeps ==
  ASSUME TypeOK, NEW t \in Tx, OperationInv(t), JournalUndone(t)
  PROVE  OperationInv(t)'
<1> USE DEF TypeOK, Goto
<1>1. /\ pc[t] = "undone" /\ at[t] \in Index
      /\ UNCHANGED <<effects, memory, planLen, undoFailed, procVars>>
      /\ Saved(t, memory[t]) \/ SaveFailed(t, memory[t])
      /\ at'[t] = at[t] - 1
      /\ pc'[t] = IF at[t] = 1 THEN "close" ELSE "undo"
  BY DEF JournalUndone, SaveIgnored, Advance, OperationInv, InBounds
<1>2. /\ Holding(t) /\ memory[t] \in Record /\ memory[t].state # "absent"
      /\ \A i \in Index : <<t, i>> \in effects => memory[t].mut[i] \in Undoable
  BY <1>1 DEF OperationInv, MemoryKnows, Holding
<1>3. EffectsCovered(t)' /\ FileShape(t)'
  BY <1>1, <1>2, SaveKeepsCover DEF OperationInv
<1>4. InBounds(t)' /\ IntentJournaled(t)' /\ ActivateProgress(t)'
  BY <1>1 DEF InBounds, Index, IntentJournaled, ActivateProgress, ActivateSteps
<1>5. MemoryKnows(t)'
  BY <1>1, <1>2 DEF MemoryKnows
<1>6. RollbackProgress(t)'
  BY <1>1 DEF OperationInv, RollbackProgress, Index
<1>7. RecoveryTracks(t)'
  BY <1>1, <1>2 DEF OperationInv, RecoveryTracks, Working, ActivateSteps,
                    RollbackSteps, procVars
<1> QED BY <1>1, <1>3, <1>4, <1>5, <1>6, <1>7 DEF OperationInv

LEMMA CloseTransactionKeeps ==
  ASSUME TypeOK, NEW t \in Tx, OperationInv(t), CloseTransaction(t)
  PROVE  OperationInv(t)'
<1> DEFINE rec == WithState(memory[t], "failed")
<1> USE DEF TypeOK, Goto, SetMemory
<1>1. /\ pc[t] = "close" /\ Holding(t)
      /\ UNCHANGED <<effects, at, planLen, undoFailed, procVars>>
  BY DEF CloseTransaction, Holding
<1>2. rec \in Record /\ rec.state = "failed" /\ rec.mut = memory[t].mut
  <2>1. memory[t] \in Record /\ "failed" \in TransactionState
    BY DEF TransactionState
  <2> QED BY <2>1, StateChange
<1>3. \A i \in Index : <<t, i>> \in effects => rec.mut[i] \in Undoable
  BY <1>1, <1>2 DEF OperationInv, MemoryKnows
<1> HIDE DEF rec
<1>4. CASE /\ ~undoFailed[t] /\ UNCHANGED memory
           /\ \/ Saved(t, NoRecord) /\ pc'[t] = "released"
              \/ SaveFailed(t, NoRecord) /\ pc'[t] = "kept"
  <2>1. \A i \in Index : <<t, i>> \notin effects
    BY <1>1, <1>4 DEF OperationInv, RollbackProgress, MemoryKnows
  <2>2. /\ journal'[t] = journal[t] \/ journal'[t] = NoRecord
        /\ Saved(t, NoRecord) => journal'[t] = NoRecord
    BY <1>4, SaveOutcome, EmptyRecords
  <2>3. EffectsCovered(t)' /\ FileShape(t)'
    BY <1>1, <1>4, <2>1, <2>2
    DEF OperationInv, EffectsCovered, FileShape
  <2>4. /\ InBounds(t)' /\ MemoryKnows(t)' /\ IntentJournaled(t)'
        /\ ActivateProgress(t)' /\ RollbackProgress(t)'
    BY <1>1, <1>4 DEF OperationInv, InBounds, MemoryKnows, Holding,
                      IntentJournaled, ActivateProgress, ActivateSteps,
                      RollbackProgress
  <2>5. pc'[t] = "released" => Gone(t)'
    BY <1>1, <1>4, <2>1, <2>2 DEF Gone
  <2>6. RecoveryTracks(t)'
    BY <1>1, <1>4, <2>2 DEF OperationInv, RecoveryTracks, Working,
                            ActivateSteps, RollbackSteps, procVars
  <2> QED BY <1>4, <2>3, <2>4, <2>5, <2>6 DEF OperationInv
<1>5. CASE /\ memory'[t] = rec /\ pc'[t] = "kept"
           /\ Saved(t, rec) \/ SaveFailed(t, rec)
  <2>1. EffectsCovered(t)' /\ FileShape(t)'
    BY <1>1, <1>2, <1>3, <1>5, SaveKeepsCover DEF OperationInv
  <2>2. /\ InBounds(t)' /\ MemoryKnows(t)' /\ IntentJournaled(t)'
        /\ ActivateProgress(t)' /\ RollbackProgress(t)'
    BY <1>1, <1>2, <1>3, <1>5
    DEF InBounds, MemoryKnows, Holding, IntentJournaled, ActivateProgress,
        ActivateSteps, RollbackProgress
  <2>3. RecoveryTracks(t)'
    BY <1>1, <1>5 DEF OperationInv, RecoveryTracks, ActivateSteps, procVars
  <2> QED BY <1>5, <2>1, <2>2, <2>3 DEF OperationInv
<1> QED BY <1>4, <1>5 DEF CloseTransaction, SaveIgnored, rec

\* The steps of the process and of the host, which touch many transactions.
LEMMA ProcessKeeps ==
  ASSUME TypeOK, NEW u \in Tx, OperationInv(u),
         \/ Crash \/ Start \/ Recover
         \/ \E c \in Change : Vanish(c)
  PROVE  OperationInv(u)'
<1> USE DEF TypeOK, Goto, SetMemory, opVars, procVars
<1>1. CASE Crash
  <2>1. /\ pc'[u] \in {"unused", "lost"} /\ (pc'[u] = "unused" => pc[u] = "unused")
        /\ UNCHANGED <<journal, effects>> /\ mode' = "down" /\ queue' = {}
    BY <1>1 DEF Crash
  <2>2. ~Holding(u)' /\ ~Working(u)'
    BY <2>1 DEF Holding, Working, ActivateSteps, RollbackSteps
  <2> QED BY <2>1, <2>2
       DEF OperationInv, InBounds, FileShape, EffectsCovered, Covered,
           MemoryKnows, IntentJournaled, ActivateProgress, ActivateSteps,
           RollbackProgress, RecoveryTracks
<1>2. CASE Start
  <2>1. /\ UNCHANGED <<journal, effects, memory, pc, at, planLen, undoFailed>>
        /\ mode = "down"
        /\ \/ mode' = "recovering" /\ queue' = {t \in Tx : journal[t].state # "absent"}
           \/ mode' = "down" /\ UNCHANGED queue
    BY <1>2 DEF Start
  <2>2. ~Holding(u)
    BY <2>1 DEF OperationInv, RecoveryTracks
  <2>3. RecoveryTracks(u)'
    BY <2>1, <2>2, EmptyRecords
    DEF OperationInv, RecoveryTracks, FileShape, Holding, ActivateSteps
  <2> QED BY <2>1, <2>3
       DEF OperationInv, InBounds, FileShape, EffectsCovered, Covered,
           MemoryKnows, Holding, IntentJournaled, ActivateProgress,
           RollbackProgress, Gone, FullyJournaled
<1>3. ASSUME NEW t \in Tx, RecoverNext(t) PROVE OperationInv(u)'
  <2>1. /\ mode = "recovering" /\ UNCHANGED <<mode, recoverFailed>>
        /\ queue' = queue \ {t} /\ t \in queue
        /\ UNCHANGED <<journal, effects, at, planLen, undoFailed>>
    BY <1>3 DEF RecoverNext
  <2>2. CASE u = t
    <3>1. pc'[t] = "rollback" /\ memory'[t] = journal[t]
      BY <1>3 DEF RecoverNext
    <3>2. MemoryKnows(t)'
      <4>1. journal[t].state # "absent"
        BY <2>1, <2>2 DEF OperationInv, RecoveryTracks
      <4> QED BY <2>1, <2>2, <3>1, <4>1 DEF OperationInv, EffectsCovered, Covered, MemoryKnows
    <3>3. RecoveryTracks(t)'
      BY <2>1, <3>1 DEF RecoveryTracks, Working, ActivateSteps, RollbackSteps
    <3> QED BY <2>1, <2>2, <3>1, <3>2, <3>3
         DEF OperationInv, InBounds, FileShape, EffectsCovered, Covered,
             IntentJournaled, ActivateProgress, ActivateSteps,
             RollbackProgress
  <2>3. CASE u # t
    <3>1. memory'[u] = memory[u] /\ pc'[u] = pc[u]
      BY <1>3, <2>3 DEF RecoverNext
    <3>2. RecoveryTracks(u)'
      BY <2>1, <2>3, <3>1 DEF OperationInv, RecoveryTracks, Working
    <3> QED BY <2>1, <3>1, <3>2
         DEF OperationInv, InBounds, FileShape, EffectsCovered, Covered,
             MemoryKnows, Holding, IntentJournaled, ActivateProgress,
             RollbackProgress, Gone, FullyJournaled
  <2> QED BY <2>2, <2>3
<1>4. ASSUME NEW t \in Tx, RecoverNoted(t) PROVE OperationInv(u)'
  <2>1. /\ mode = "recovering" /\ UNCHANGED <<mode, queue>>
        /\ pc[t] \in {"released", "kept"}
        /\ recoverFailed' = (recoverFailed \/ pc[t] = "kept")
        /\ UNCHANGED <<journal, effects, at, planLen, undoFailed>>
    BY <1>4 DEF RecoverNoted
  <2>2. CASE u = t
    <3>1. pc'[t] = "lost"
      BY <1>4 DEF RecoverNoted
    <3>2. RecoveryTracks(t)'
      BY <2>1, <2>2, <3>1 DEF OperationInv, RecoveryTracks, Gone, Holding, ActivateSteps
    <3> QED BY <2>1, <2>2, <3>1, <3>2
         DEF OperationInv, InBounds, FileShape, EffectsCovered, Covered,
             MemoryKnows, Holding, IntentJournaled, ActivateProgress,
             ActivateSteps, RollbackProgress
  <2>3. CASE u # t
    <3>1. memory'[u] = memory[u] /\ pc'[u] = pc[u]
      BY <1>4, <2>3 DEF RecoverNoted
    <3>2. RecoveryTracks(u)'
      BY <2>1, <2>3, <3>1 DEF OperationInv, RecoveryTracks, Working
    <3> QED BY <2>1, <3>1, <3>2
         DEF OperationInv, InBounds, FileShape, EffectsCovered, Covered,
             MemoryKnows, Holding, IntentJournaled, ActivateProgress,
             RollbackProgress, Gone, FullyJournaled
  <2> QED BY <2>2, <2>3
<1>5. CASE RecoverDone
  <2>1. /\ UNCHANGED <<journal, effects, memory, pc, at, planLen, undoFailed>>
        /\ pc[u] \in {"unused", "lost"}
        /\ mode' \in {"down", "serving"} /\ queue' = {}
    BY <1>5 DEF RecoverDone
  <2>2. RecoveryTracks(u)'
    BY <2>1 DEF RecoveryTracks, Holding
  <2> QED BY <2>1, <2>2
       DEF OperationInv, InBounds, FileShape, EffectsCovered, Covered,
           MemoryKnows, Holding, IntentJournaled, ActivateProgress,
           ActivateSteps, RollbackProgress
<1>6. ASSUME NEW c \in Change, Vanish(c) PROVE OperationInv(u)'
  <2>1. Untouched(u) /\ UNCHANGED procVars
    BY <1>6 DEF Vanish, Untouched
  <2> QED BY <2>1, UntouchedKeeps DEF OperationInv
<1> QED BY <1>1, <1>2, <1>3, <1>4, <1>5, <1>6 DEF Recover

LEMMA InvInit == Init => ManagerInv
<1> SUFFICES ASSUME Init PROVE ManagerInv
  OBVIOUS
<1>1. TypeOK
  BY TypeInit
<1>2. ASSUME NEW t \in Tx PROVE OperationInv(t)
  <2>1. journal[t] = NoRecord /\ pc[t] = "unused" /\ effects = {}
        /\ mode = "down" /\ queue = {}
    BY DEF Init
  <2> QED BY <2>1
       DEF OperationInv, InBounds, FileShape, EffectsCovered, MemoryKnows,
           Holding, IntentJournaled, ActivateProgress, ActivateSteps,
           RollbackProgress, RecoveryTracks
<1> QED BY <1>1, <1>2 DEF ManagerInv

LEMMA InvStep == ManagerInv /\ [Next]_vars => ManagerInv'
<1> SUFFICES ASSUME ManagerInv, [Next]_vars PROVE ManagerInv'
  OBVIOUS
<1>1. TypeOK /\ \A t \in Tx : OperationInv(t) /\ InBounds(t)
  BY DEF ManagerInv, OperationInv
<1>2. ASSUME NEW t \in Tx, Begin(t) \/ Operate(t) \/ Deactivate(t)
      PROVE  ManagerInv'
  <2>1. TypeOK'
    BY <1>1, <1>2, TypeOperate, TypeProcess
  <2>2. OperationInv(t)'
    BY <1>1, <1>2, BeginKeeps, JournalPendingKeeps, ApplyMutationKeeps,
       JournalAppliedKeeps, JournalFailedKeeps, MarkActiveKeeps,
       DeactivateKeeps, StartRollbackKeeps, SkipMutationKeeps,
       UndoMutationKeeps, JournalUndoneKeeps, CloseTransactionKeeps
    DEF Operate
  <2>3. ASSUME NEW u \in Tx, u # t PROVE OperationInv(u)'
    BY <1>1, <1>2, <2>3, OperateFrame, UntouchedKeeps
  <2> QED BY <2>1, <2>2, <2>3 DEF ManagerInv
<1>3. CASE \/ Crash \/ Start \/ Recover
           \/ \E c \in Change : Vanish(c)
  <2>1. TypeOK'
    BY <1>1, <1>3, TypeProcess
  <2>2. ASSUME NEW u \in Tx PROVE OperationInv(u)'
    BY <1>1, <1>3, ProcessKeeps
  <2> QED BY <2>1, <2>2 DEF ManagerInv
<1>4. CASE UNCHANGED vars
  <2>1. TypeOK'
    BY <1>1, <1>4 DEF TypeOK, vars, opVars, procVars
  <2>2. ASSUME NEW u \in Tx PROVE OperationInv(u)'
    <3>1. Untouched(u) /\ UNCHANGED procVars
      BY <1>4 DEF vars, opVars, procVars, Untouched
    <3> QED BY <1>1, <3>1, UntouchedKeeps
  <2> QED BY <2>1, <2>2 DEF ManagerInv
<1> QED BY <1>2, <1>3, <1>4 DEF Next

\* The inductive invariant holds in every reachable state.
THEOREM ManagerInvariant == Spec => []ManagerInv
<1> QED BY InvInit, InvStep, PTL DEF Spec

\* The variables keep their types.
THEOREM TypeCorrect == Spec => []TypeOK
<1>1. ManagerInv => TypeOK
  BY DEF ManagerInv
<1> QED BY <1>1, ManagerInvariant, PTL

-----------------------------------------------------------------------------
(* Safety *)

LEMMA InvCovers == ManagerInv => JournalCoversEffects
<1> SUFFICES ASSUME ManagerInv, NEW c \in effects PROVE Covered(c)
  BY DEF JournalCoversEffects
<1>1. c \in Tx \X Index
  BY DEF ManagerInv, TypeOK, Change
<1>2. c[1] \in Tx /\ c[2] \in Index /\ c = <<c[1], c[2]>>
  BY <1>1
<1> QED BY <1>2 DEF ManagerInv, OperationInv, EffectsCovered

\* Write-ahead: at every instant, whatever failed, every change on the host
\* is answered for by a record on disk that a recovery would undo.
THEOREM WriteAhead == Spec => []JournalCoversEffects
BY InvCovers, ManagerInvariant, PTL

\* A rollback that reports no error has left neither a change nor a file.
THEOREM ReleaseIsComplete == Spec => []ReleasedIsGone
<1>1. ManagerInv => ReleasedIsGone
  BY DEF ManagerInv, OperationInv, ReleasedIsGone
<1> QED BY <1>1, ManagerInvariant, PTL

\* An Activate that reports no error has its whole plan on disk as applied.
THEOREM ActivationIsDurable == Spec => []ActiveIsJournaled
<1>1. ManagerInv => ActiveIsJournaled
  BY DEF ManagerInv, OperationInv, ActiveIsJournaled
<1> QED BY <1>1, ManagerInvariant, PTL

\* The helper begins to serve only when nothing of an earlier process is left
\* on the host or in the journal.
THEOREM CleanStart == Spec => ServingStartsClean
<1>1. ASSUME ManagerInv, [Next]_vars, mode = "recovering", mode' = "serving"
      PROVE  effects = {} /\ \A t \in Tx : journal[t] = NoRecord
  <2>1. RecoverDone
    BY <1>1 DEF Next, Operate, Recover, Begin, JournalPending, ApplyMutation,
                JournalApplied, JournalFailed, MarkActive, StartRollback,
                SkipMutation, UndoMutation, JournalUndone, CloseTransaction,
                Deactivate, Crash, Start, RecoverNext, RecoverNoted, Vanish,
                vars, procVars
  <2>2. \A t \in Tx : journal[t] = NoRecord
    BY <1>1, <2>1 DEF RecoverDone, ManagerInv, OperationInv, RecoveryTracks,
                      Working, ActivateSteps, RollbackSteps
  <2>3. effects = {}
    BY <1>1, <2>2, InvCovers, EmptyRecords
    DEF JournalCoversEffects, Covered, ManagerInv, TypeOK, Change
  <2> QED BY <2>1, <2>2, <2>3 DEF RecoverDone
<1>2. ManagerInv /\ [Next]_vars =>
        [mode = "recovering" /\ mode' = "serving" =>
           effects = {} /\ \A t \in Tx : journal[t] = NoRecord]_vars
  BY <1>1
<1> QED BY <1>2, ManagerInvariant, PTL DEF Spec, ServingStartsClean

\* A mutation is undone while a later one is not only after an error.
THEOREM RollbackOrder == Spec => UndoneTopDown
<1> DEFINE TopDown ==
      \A t \in Tx, i \in Index :
        /\ pc[t] = "undo"
        /\ memory[t].mut[i] \in Undoable
        /\ memory'[t].mut[i] = "undone"
        => \/ undoFailed[t]
           \/ \A j \in Index : j > i => memory[t].mut[j] \notin Undoable
<1>1. ManagerInv /\ [Next]_vars => [TopDown]_vars
  <2> SUFFICES ASSUME ManagerInv, [Next]_vars,
                      NEW t \in Tx, NEW i \in Index,
                      pc[t] = "undo", memory[t].mut[i] \in Undoable,
                      memory'[t].mut[i] = "undone", ~undoFailed[t],
                      NEW j \in Index, j > i
               PROVE  memory[t].mut[j] \notin Undoable
    BY DEF TopDown
  <2>1. TypeOK /\ RollbackProgress(t) /\ InBounds(t) /\ at[t] \in Index
    BY DEF ManagerInv, OperationInv, InBounds
  <2>2. memory'[t] # memory[t]
    BY DEF Undoable
  <2>3. CASE UndoMutation(t)
    <3>1. memory[t] \in Record /\ "undone" \in MutationState
      BY <2>1 DEF TypeOK, MutationState
    <3>2. memory'[t] = WithMutation(memory[t], at[t], "undone")
      BY <2>1, <2>2, <2>3 DEF UndoMutation, SetMemory, TypeOK
    <3>3. i = at[t]
      BY <2>1, <3>1, <3>2, MutationChange DEF Undoable
    <3> QED BY <2>1, <3>3 DEF RollbackProgress
  <2>4. CASE Crash
    BY <2>4, EmptyRecords DEF Crash
  <2>5. ~UndoMutation(t) /\ ~Crash => FALSE
    <3> SUFFICES ASSUME ~UndoMutation(t), ~Crash PROVE memory'[t] = memory[t]
      BY <2>2
    <3>1. ASSUME NEW u \in Tx, Begin(u) \/ Operate(u) \/ Deactivate(u)
          PROVE  memory'[t] = memory[t]
      <4>1. CASE u # t
        BY <2>1, <3>1, <4>1, OperateFrame DEF ManagerInv, OperationInv, Untouched
      <4>2. CASE u = t
        BY <2>1, <3>1, <4>2
        DEF TypeOK, Begin, Operate, Deactivate, JournalPending, ApplyMutation,
            JournalApplied, JournalFailed, MarkActive, StartRollback,
            SkipMutation, JournalUndone, CloseTransaction, opVars
      <4> QED BY <4>1, <4>2
    <3>2. ASSUME NEW u \in Tx, RecoverNext(u) \/ RecoverNoted(u)
          PROVE  memory'[t] = memory[t]
      <4>1. u # t
        BY <3>2 DEF RecoverNext, RecoverNoted, Working, RollbackSteps
      <4> QED BY <2>1, <3>2, <4>1
           DEF RecoverNext, RecoverNoted, SetMemory, TypeOK
    <3> QED BY <3>1, <3>2
         DEF Next, Recover, Start, RecoverDone, Vanish, vars, opVars
  <2> QED BY <2>3, <2>4, <2>5
<1> QED BY <1>1, ManagerInvariant, PTL DEF Spec, UndoneTopDown

-----------------------------------------------------------------------------
(* The manager implements the ledger *)

\* A step that rewrites files of one transaction only is a rewrite of its
\* claims.
LEMMA JournalStep ==
  ASSUME TypeOK, JournalCoversEffects', NEW t \in Tx,
         \A u \in Tx : u # t => journal'[u] = journal[u],
         UNCHANGED effects, effects \in SUBSET Change
  PROVE  Ledger!Rewrite(t)
<1> DEFINE S == {c \in {t} \X Index : Covered(c)'}
<1>1. S \in SUBSET ({t} \X Index)
  OBVIOUS
<1>2. Claimed' = {c \in Claimed : c[1] # t} \cup S
  BY DEF Claimed, Covered, Change
<1>3. effects \subseteq Claimed'
  BY DEF JournalCoversEffects, Claimed
<1> QED BY <1>1, <1>2, <1>3 DEF Ledger!Rewrite

LEMMA ClaimedKept == UNCHANGED journal => UNCHANGED Claimed
BY DEF Claimed, Covered

LEMMA LedgerStep ==
  ManagerInv /\ ManagerInv' /\ [Next]_vars => [Ledger!Next]_(Ledger!vars)
<1> SUFFICES ASSUME ManagerInv, ManagerInv', [Next]_vars
             PROVE  [Ledger!Next]_(Ledger!vars)
  OBVIOUS
<1>0. JournalCoversEffects'
  BY InvCovers, PTL
<1>1. /\ TypeOK /\ JournalCoversEffects' /\ effects \in SUBSET Change
      /\ \A t \in Tx : InBounds(t) /\ OperationInv(t)
  BY <1>0 DEF ManagerInv, OperationInv, TypeOK
<1>2. ASSUME NEW t \in Tx, UNCHANGED effects,
             Begin(t) \/ Operate(t) \/ Deactivate(t)
      PROVE  Ledger!Next
  <2>1. Ledger!Rewrite(t)
    BY <1>1, <1>2, OperateFrame, JournalStep DEF Untouched
  <2> QED BY <2>1 DEF Ledger!Next
<1>3. ASSUME NEW t \in Tx, ApplyMutation(t)
      PROVE  [Ledger!Next]_(Ledger!vars)
  <2>1. /\ at[t] \in Index /\ Covered(<<t, at[t]>>)
    BY <1>1, <1>3 DEF ApplyMutation, OperationInv, IntentJournaled, InBounds,
                      TypeOK, Index
  <2>2. <<t, at[t]>> \in Change /\ <<t, at[t]>> \in Claimed
    BY <2>1 DEF Claimed, Change
  <2>3. UNCHANGED Claimed
    BY <1>3, ClaimedKept DEF ApplyMutation
  <2>4. effects' = effects \/ effects' = effects \cup {<<t, at[t]>>}
    BY <1>3 DEF ApplyMutation
  <2> QED BY <2>2, <2>3, <2>4
       DEF Ledger!Next, Ledger!Acquire, Ledger!vars, Ledger!Change, Change
<1>4. ASSUME NEW t \in Tx, UndoMutation(t)
      PROVE  [Ledger!Next]_(Ledger!vars)
  <2>1. <<t, at[t]>> \in Change
    BY <1>1, <1>4 DEF UndoMutation, InBounds, Change
  <2>2. UNCHANGED Claimed
    BY <1>4, ClaimedKept DEF UndoMutation
  <2>3. effects' = effects \/ effects' = effects \ {<<t, at[t]>>}
    BY <1>4 DEF UndoMutation
  <2> QED BY <2>1, <2>2, <2>3
       DEF Ledger!Next, Ledger!Release, Ledger!vars, Ledger!Change, Change
<1>5. ASSUME NEW c \in Change, Vanish(c) PROVE Ledger!Next
  <2>1. UNCHANGED Claimed /\ effects' = effects \ {c}
    BY <1>5, ClaimedKept DEF Vanish
  <2> QED BY <1>5, <2>1 DEF Ledger!Next, Ledger!Release, Ledger!Change, Change
<1>6. CASE Crash \/ Start \/ Recover \/ UNCHANGED vars
  <2>1. UNCHANGED <<journal, effects>>
    BY <1>6 DEF Crash, Start, Recover, RecoverNext, RecoverNoted, RecoverDone,
                vars
  <2> QED BY <2>1, ClaimedKept DEF Ledger!vars
<1>7. ASSUME NEW t \in Tx, Begin(t) \/ Operate(t) \/ Deactivate(t),
             ~ApplyMutation(t), ~UndoMutation(t)
      PROVE  UNCHANGED effects
  BY <1>7 DEF Begin, Operate, Deactivate, JournalPending, JournalApplied,
              JournalFailed, MarkActive, StartRollback, SkipMutation,
              JournalUndone, CloseTransaction
<1> QED BY <1>2, <1>3, <1>4, <1>5, <1>6, <1>7 DEF Next

\* The steps of the manager, crashes and recovery included, are steps of the
\* write-ahead ledger whose claims are the undoable mutations on disk.
THEOREM LedgerRefinement == Spec => LedgerSpec
<1>1. Init => Ledger!Init
  <2> SUFFICES ASSUME Init PROVE Ledger!Init
    OBVIOUS
  <2>1. \A c \in Change : ~Covered(c)
    BY EmptyRecords DEF Init, Covered, Change
  <2> QED BY <2>1 DEF Init, Ledger!Init, Claimed
<1>2. ManagerInv /\ ManagerInv' /\ [Next]_vars => [Ledger!Next]_(Ledger!vars)
  BY LedgerStep
<1> QED BY <1>1, <1>2, ManagerInvariant, PTL DEF Spec, LedgerSpec, Ledger!Spec

=============================================================================
