------------------------- MODULE TransactionManager -------------------------
(***************************************************************************)
(* nativeengine: the journal and the transaction manager through which the  *)
(* privileged helper changes routes and DNS.  Activate journals every       *)
(* mutation before it applies it, rollback undoes the mutations in reverse  *)
(* order, and Recover rolls back at start-up whatever an earlier process     *)
(* left in the journal.                                                     *)
(*                                                                         *)
(* A step is one access to the disk or to the backend, so a crash can fall   *)
(* between any two of them.  Transactions are numbered in the order in which *)
(* Begin creates them, which is the order of their CreatedAt.  A mutation is *)
(* its position in the plan; what it changes (a route, a resolver entry) is  *)
(* the backend's business and only its presence on the host is kept here.    *)
(***************************************************************************)
EXTENDS Integers

CONSTANTS Tx,          \* transaction ids, in order of creation
          MaxLen,      \* longest plan
          MaxFaults    \* bound on failures of disk, backend and process

ASSUME TxAssumption == Tx \subseteq Nat
ASSUME MaxLenAssumption == MaxLen \in Nat
ASSUME MaxFaultsAssumption == MaxFaults \in Nat

VARIABLES
  journal,     \* the transaction files in the state directory
  effects,     \* mutations whose change is on the host
  memory,      \* the Transaction object each operation works on
  pc,          \* where the operation on each transaction stands
  at,          \* its loop index
  planLen,     \* length of the plan handed to Activate
  undoFailed,  \* rollbackError # nil
  mode,        \* the helper process: down, recovering or serving
  queue,       \* transactions Recover listed and has not started on
  recoverFailed, \* recoveryError # nil
  faults       \* failures spent so far

opVars == <<memory, pc, at, planLen, undoFailed>>
procVars == <<mode, queue, recoverFailed>>
vars == <<journal, effects, opVars, procVars, faults>>

-----------------------------------------------------------------------------
Index == 1..MaxLen
Change == Tx \X Index

\* "none" is a position the Mutations slice has not reached.
MutationState == {"none", "pending", "applied", "undone", "failed"}

\* Mutant: a mutation counts as made only once Apply has returned.
UndoableOnceTried == {"applied", "failed"}
Undoable == {"pending", "applied", "failed"}

\* "absent": there is no file (journal) or no object (memory).
TransactionState == {"absent", "preparing", "active", "rolling_back", "failed"}

Record == [state : TransactionState, mut : [Index -> MutationState]]
NoRecord == [state |-> "absent", mut |-> [i \in Index |-> "none"]]
NewRecord == [NoRecord EXCEPT !.state = "preparing"]

ActivateSteps == {"append", "apply", "applied", "failed"}
RollbackSteps == {"rollback", "undo", "undone", "close"}
Outcomes == {"active", "released", "kept", "lost"}
Location == {"unused"} \cup ActivateSteps \cup RollbackSteps \cup Outcomes

Working(t) == pc[t] \in ActivateSteps \cup RollbackSteps

TypeOK ==
  /\ journal \in [Tx -> Record]
  /\ effects \in SUBSET Change
  /\ memory \in [Tx -> Record]
  /\ pc \in [Tx -> Location]
  /\ at \in [Tx -> 0..(MaxLen + 1)]
  /\ planLen \in [Tx -> 0..MaxLen]
  /\ undoFailed \in [Tx -> BOOLEAN]
  /\ mode \in {"down", "recovering", "serving"}
  /\ queue \in SUBSET Tx
  /\ recoverFailed \in BOOLEAN
  /\ faults \in 0..MaxFaults

Init ==
  /\ journal = [t \in Tx |-> NoRecord]
  /\ effects = {}
  /\ memory = [t \in Tx |-> NoRecord]
  /\ pc = [t \in Tx |-> "unused"]
  /\ at = [t \in Tx |-> 0]
  /\ planLen = [t \in Tx |-> 0]
  /\ undoFailed = [t \in Tx |-> FALSE]
  /\ mode = "down"
  /\ queue = {}
  /\ recoverFailed = FALSE
  /\ faults = 0

-----------------------------------------------------------------------------
\* Something fails: a write, a command, the process.
Fault == faults < MaxFaults /\ faults' = faults + 1

\* Save writes a temporary file, syncs it and renames it over the old one,
\* then syncs the directory.  A failure before the rename leaves the old
\* record; when the directory cannot be synced Save reports an error although
\* the new record is already in place.
Saved(t, rec) == journal' = [journal EXCEPT ![t] = rec] /\ UNCHANGED faults
SaveFailed(t, rec) ==
  Fault /\ (UNCHANGED journal \/ journal' = [journal EXCEPT ![t] = rec])

\* The callers that drop the error of Save.
SaveIgnored(t, rec) == Saved(t, rec) \/ SaveFailed(t, rec)

WithState(rec, state) == [rec EXCEPT !.state = state]
WithMutation(rec, i, state) == [rec EXCEPT !.mut[i] = state]

Goto(t, location) == pc' = [pc EXCEPT ![t] = location]
SetMemory(t, rec) == memory' = [memory EXCEPT ![t] = rec]

-----------------------------------------------------------------------------
(* Activate *)

\* Begin saves an empty record.  If that fails Activate returns no
\* transaction, and the record may be there all the same.
Begin(t) ==
  /\ mode = "serving"
  /\ pc[t] = "unused"
  /\ \A u \in Tx : u < t => pc[u] # "unused"
  /\ \/ /\ Saved(t, NewRecord)
        /\ \E n \in 0..MaxLen : planLen' = [planLen EXCEPT ![t] = n]
        /\ SetMemory(t, NewRecord)
        /\ at' = [at EXCEPT ![t] = 1]
        /\ Goto(t, "append")
     \/ /\ SaveFailed(t, NewRecord)
        /\ Goto(t, "lost")
        /\ UNCHANGED <<memory, at, planLen>>
  /\ UNCHANGED <<effects, undoFailed, procVars>>

\* Mutant: the mutation is applied first and reaches the disk with its result.
ApplyBeforeJournal(t) ==
  /\ pc[t] = "append"
  /\ at[t] <= planLen[t]
  /\ SetMemory(t, WithMutation(memory[t], at[t], "pending"))
  /\ Goto(t, "apply")
  /\ UNCHANGED <<journal, effects, at, planLen, undoFailed, procVars, faults>>

\* Mutant: the loop runs one position past the plan.
JournalPastTheEnd(t) ==
  /\ pc[t] = "append"
  /\ at[t] <= planLen[t] + 1
  /\ LET rec == WithMutation(memory[t], at[t], "pending")
     IN  SetMemory(t, rec) /\ Saved(t, rec) /\ Goto(t, "apply")
  /\ UNCHANGED <<effects, at, planLen, undoFailed, procVars>>

\* The next mutation enters the record as pending before it is applied.
\* Without an identifier for it (no entropy) nothing is appended.
JournalPending(t) ==
  /\ pc[t] = "append"
  /\ at[t] <= planLen[t]
  /\ \/ LET rec == WithMutation(memory[t], at[t], "pending")
        IN  /\ SetMemory(t, rec)
            /\ \/ Saved(t, rec) /\ Goto(t, "apply")
               \/ SaveFailed(t, rec) /\ Goto(t, "rollback")
     \/ Fault /\ Goto(t, "rollback") /\ UNCHANGED <<journal, memory>>
  /\ UNCHANGED <<effects, at, planLen, undoFailed, procVars>>

\* The backend applies the mutation.  An error may leave part of it behind:
\* a resolver that took one of two servers, a command that timed out.
ApplyMutation(t) ==
  /\ pc[t] = "apply"
  /\ \/ /\ effects' = effects \cup {<<t, at[t]>>}
        /\ SetMemory(t, WithMutation(memory[t], at[t], "applied"))
        /\ Goto(t, "applied")
        /\ UNCHANGED faults
     \/ /\ Fault
        /\ effects' \in {effects, effects \cup {<<t, at[t]>>}}
        /\ SetMemory(t, WithMutation(memory[t], at[t], "failed"))
        /\ Goto(t, "failed")
  /\ UNCHANGED <<journal, at, planLen, undoFailed, procVars>>

JournalApplied(t) ==
  /\ pc[t] = "applied"
  /\ \/ /\ Saved(t, memory[t])
        /\ at' = [at EXCEPT ![t] = at[t] + 1]
        /\ Goto(t, "append")
     \/ /\ SaveFailed(t, memory[t])
        /\ Goto(t, "rollback")
        /\ UNCHANGED at
  /\ UNCHANGED <<effects, memory, planLen, undoFailed, procVars>>

JournalFailed(t) ==
  /\ pc[t] = "failed"
  /\ SaveIgnored(t, memory[t])
  /\ Goto(t, "rollback")
  /\ UNCHANGED <<effects, memory, at, planLen, undoFailed, procVars>>

\* Mutant: the error of the last Save is dropped.
MarkActiveUnchecked(t) ==
  /\ pc[t] = "append"
  /\ at[t] > planLen[t]
  /\ LET rec == WithState(memory[t], "active")
     IN  SetMemory(t, rec) /\ SaveIgnored(t, rec) /\ Goto(t, "active")
  /\ UNCHANGED <<effects, at, planLen, undoFailed, procVars>>

\* All mutations are in place: the transaction becomes active.
MarkActive(t) ==
  /\ pc[t] = "append"
  /\ at[t] > planLen[t]
  /\ LET rec == WithState(memory[t], "active")
     IN  /\ SetMemory(t, rec)
         /\ \/ Saved(t, rec) /\ Goto(t, "active")
            \/ SaveFailed(t, rec) /\ Goto(t, "rollback")
  /\ UNCHANGED <<effects, at, planLen, undoFailed, procVars>>

-----------------------------------------------------------------------------
(* rollback, from Activate's errors, from Deactivate and from Recover *)

\* The owner of an active transaction gives it up.
Deactivate(t) ==
  /\ mode = "serving"
  /\ pc[t] = "active"
  /\ Goto(t, "rollback")
  /\ UNCHANGED <<journal, effects, memory, at, planLen, undoFailed, procVars,
                 faults>>

StartRollback(t) ==
  /\ pc[t] = "rollback"
  /\ LET rec == WithState(memory[t], "rolling_back")
     IN  SetMemory(t, rec) /\ SaveIgnored(t, rec)
  /\ at' = [at EXCEPT ![t] = MaxLen]
  /\ undoFailed' = [undoFailed EXCEPT ![t] = FALSE]
  /\ Goto(t, IF MaxLen = 0 THEN "close" ELSE "undo")
  /\ UNCHANGED <<effects, planLen, procVars>>

\* The loop moves to the mutation below, or ends.
Advance(t) ==
  /\ at' = [at EXCEPT ![t] = at[t] - 1]
  /\ Goto(t, IF at[t] = 1 THEN "close" ELSE "undo")

\* Mutant: the loop forgets to move past a mutation it has nothing to do for.
SkipInPlace(t) ==
  /\ pc[t] = "undo"
  /\ memory[t].mut[at[t]] \notin Undoable
  /\ Goto(t, "undo")
  /\ UNCHANGED <<journal, effects, memory, at, planLen, undoFailed, procVars,
                 faults>>

\* Positions beyond the slice and mutations already undone are passed over.
SkipMutation(t) ==
  /\ pc[t] = "undo"
  /\ memory[t].mut[at[t]] \notin Undoable
  /\ Advance(t)
  /\ UNCHANGED <<journal, effects, memory, planLen, undoFailed, procVars,
                 faults>>

\* Mutant: the error of Undo is not remembered.
UndoErrorDropped(t) ==
  /\ pc[t] = "undo"
  /\ memory[t].mut[at[t]] \in Undoable
  /\ \/ /\ effects' = effects \ {<<t, at[t]>>}
        /\ SetMemory(t, WithMutation(memory[t], at[t], "undone"))
        /\ Goto(t, "undone")
        /\ UNCHANGED <<at, faults>>
     \/ Fault /\ Advance(t) /\ UNCHANGED <<effects, memory>>
  /\ UNCHANGED <<journal, planLen, undoFailed, procVars>>

\* Mutant: the mutations are undone in the order of the plan.
UndoInPlanOrder(t) ==
  /\ pc[t] = "undo"
  /\ memory[t].mut[at[t]] \in Undoable
  /\ \E i \in Index :
       /\ memory[t].mut[i] \in Undoable
       /\ \A j \in 1..(i - 1) : memory[t].mut[j] \notin Undoable
       /\ effects' = effects \ {<<t, i>>}
       /\ SetMemory(t, WithMutation(memory[t], i, "undone"))
  /\ Goto(t, "undone")
  /\ UNCHANGED <<journal, at, planLen, undoFailed, procVars, faults>>

\* Owned and Undo.  A mutation the backend disowns has left nothing to undo.
\* An error, of either call, keeps the mutation for a later recovery and the
\* loop goes on with the one below; an Undo that fails may have undone it.
UndoMutation(t) ==
  /\ pc[t] = "undo"
  /\ memory[t].mut[at[t]] \in Undoable
  /\ \/ /\ effects' = effects \ {<<t, at[t]>>}
        /\ SetMemory(t, WithMutation(memory[t], at[t], "undone"))
        /\ Goto(t, "undone")
        /\ UNCHANGED <<at, undoFailed, faults>>
     \/ /\ Fault
        /\ effects' \in {effects, effects \ {<<t, at[t]>>}}
        /\ undoFailed' = [undoFailed EXCEPT ![t] = TRUE]
        /\ Advance(t)
        /\ UNCHANGED memory
  /\ UNCHANGED <<journal, planLen, procVars>>

JournalUndone(t) ==
  /\ pc[t] = "undone"
  /\ SaveIgnored(t, memory[t])
  /\ Advance(t)
  /\ UNCHANGED <<effects, memory, planLen, undoFailed, procVars>>

\* With nothing left to undo the file is removed; otherwise it stays, marked
\* failed.  rollback returns an error ("kept") also when Remove fails, and
\* then the file may be there or not.
CloseTransaction(t) ==
  /\ pc[t] = "close"
  /\ \/ /\ ~undoFailed[t]
        /\ \/ Saved(t, NoRecord) /\ Goto(t, "released")
           \/ SaveFailed(t, NoRecord) /\ Goto(t, "kept")
        /\ UNCHANGED memory
     \/ /\ undoFailed[t]
        /\ LET rec == WithState(memory[t], "failed")
           IN  SetMemory(t, rec) /\ SaveIgnored(t, rec)
        /\ Goto(t, "kept")
  /\ UNCHANGED <<effects, at, planLen, undoFailed, procVars>>

-----------------------------------------------------------------------------
(* The process: crash, restart and Recover *)

\* The helper dies between any two accesses.  Objects in memory are gone, the
\* files and the host's network stay as they are.
Crash ==
  /\ mode # "down"
  /\ Fault
  /\ mode' = "down"
  /\ queue' = {}
  /\ recoverFailed' = FALSE
  /\ pc' = [t \in Tx |-> IF pc[t] = "unused" THEN "unused" ELSE "lost"]
  /\ memory' = [t \in Tx |-> NoRecord]
  /\ at' = [t \in Tx |-> 0]
  /\ planLen' = [t \in Tx |-> 0]
  /\ undoFailed' = [t \in Tx |-> FALSE]
  /\ UNCHANGED <<journal, effects>>

\* The service manager starts the helper, which lists the journal.  A record
\* that cannot be read fails the whole listing and the process exits.
Start ==
  /\ mode = "down"
  /\ \/ /\ mode' = "recovering"
        /\ queue' = {t \in Tx : journal[t].state # "absent"}
        /\ UNCHANGED faults
     \/ Fault /\ UNCHANGED <<mode, queue>>
  /\ recoverFailed' = FALSE
  /\ UNCHANGED <<journal, effects, opVars>>

\* Mutant: a transaction that was rolled back is not taken off the list.
RecoverAgain(t) ==
  /\ mode = "recovering"
  /\ t \in queue
  /\ \A u \in queue : t <= u
  /\ \A u \in Tx : ~Working(u)
  /\ SetMemory(t, journal[t])
  /\ Goto(t, "rollback")
  /\ UNCHANGED <<journal, effects, at, planLen, undoFailed, mode, queue,
                 recoverFailed, faults>>

\* Recover takes the oldest transaction it has not rolled back yet.
RecoverNext(t) ==
  /\ mode = "recovering"
  /\ t \in queue
  /\ \A u \in queue : t <= u
  /\ \A u \in Tx : ~Working(u)
  /\ queue' = queue \ {t}
  /\ SetMemory(t, journal[t])
  /\ Goto(t, "rollback")
  /\ UNCHANGED <<journal, effects, at, planLen, undoFailed, mode,
                 recoverFailed, faults>>

\* Mutant: only the result of the last rollback is kept.
LastResultOnly(t) ==
  /\ mode = "recovering"
  /\ pc[t] \in {"released", "kept"}
  /\ recoverFailed' = (pc[t] = "kept")
  /\ Goto(t, "lost")
  /\ SetMemory(t, NoRecord)
  /\ UNCHANGED <<journal, effects, at, planLen, undoFailed, mode, queue,
                 faults>>

\* Each rollback that failed is remembered.
RecoverNoted(t) ==
  /\ mode = "recovering"
  /\ pc[t] \in {"released", "kept"}
  /\ recoverFailed' = (recoverFailed \/ pc[t] = "kept")
  /\ Goto(t, "lost")
  /\ SetMemory(t, NoRecord)
  /\ UNCHANGED <<journal, effects, at, planLen, undoFailed, mode, queue,
                 faults>>

\* The helper serves requests only after a recovery without errors; after
\* any other it exits and is started again.
RecoverDone ==
  /\ mode = "recovering"
  /\ queue = {}
  /\ \A t \in Tx : pc[t] \in {"unused", "lost"}
  /\ mode' = IF recoverFailed THEN "down" ELSE "serving"
  /\ recoverFailed' = FALSE
  /\ UNCHANGED <<journal, effects, opVars, queue, faults>>

\* The host drops a change by itself: the interface went with its engine.
Vanish(c) ==
  /\ c \in effects
  /\ effects' = effects \ {c}
  /\ UNCHANGED <<journal, opVars, procVars, faults>>

-----------------------------------------------------------------------------
Operate(t) ==
  \/ JournalPending(t) \/ ApplyMutation(t) \/ JournalApplied(t)
  \/ JournalFailed(t) \/ MarkActive(t)
  \/ StartRollback(t) \/ SkipMutation(t) \/ UndoMutation(t)
  \/ JournalUndone(t) \/ CloseTransaction(t)

Recover == (\E t \in Tx : RecoverNext(t) \/ RecoverNoted(t)) \/ RecoverDone

Next ==
  \/ \E t \in Tx : Begin(t) \/ Operate(t) \/ Deactivate(t)
  \/ Crash \/ Start \/ Recover
  \/ \E c \in Change : Vanish(c)

Spec == Init /\ [][Next]_vars

\* Commands and file operations return, the service manager restarts the
\* helper, and a started recovery goes on.
Fairness ==
  /\ \A t \in Tx : WF_vars(Operate(t))
  /\ WF_vars(Start)
  /\ WF_vars(Recover)

FairSpec == Spec /\ Fairness

-----------------------------------------------------------------------------
(* Properties *)

\* The loop indices of Activate and rollback stay inside the Mutations slice.
InBounds(t) ==
  /\ pc[t] = "append" => at[t] \in 1..(planLen[t] + 1)
  /\ pc[t] \in {"apply", "applied", "failed"} => at[t] \in 1..planLen[t]
  /\ pc[t] \in {"undo", "undone"} => at[t] \in Index
LoopInBounds == \A t \in Tx : InBounds(t)

\* Write-ahead: whatever a mutation put on the host is answered for by a
\* record on disk that a recovery would undo, at every instant a crash could
\* come, whichever saves and commands have failed before.
Covered(c) ==
  /\ journal[c[1]].state # "absent"
  /\ journal[c[1]].mut[c[2]] \in Undoable
JournalCoversEffects == \A c \in effects : Covered(c)

\* A rollback that returns without an error has left nothing: none of the
\* transaction's changes is on the host and its file is gone.
Gone(t) ==
  /\ journal[t] = NoRecord
  /\ \A i \in Index : <<t, i>> \notin effects
ReleasedIsGone == \A t \in Tx : pc[t] = "released" => Gone(t)

\* When Activate returns without an error the file says exactly what memory
\* says: active, every mutation of the plan applied and nothing else.
FullyJournaled(t) ==
  /\ journal[t] = memory[t]
  /\ memory[t].state = "active"
  /\ \A i \in Index :
       memory[t].mut[i] = IF i <= planLen[t] THEN "applied" ELSE "none"
ActiveIsJournaled == \A t \in Tx : pc[t] = "active" => FullyJournaled(t)

\* The helper goes from recovery to serving only on a clean host: no change
\* of any earlier process is left and the journal is empty.
ServingStartsClean ==
  [][mode = "recovering" /\ mode' = "serving" =>
       effects = {} /\ \A t \in Tx : journal[t] = NoRecord]_vars

\* Later mutations are undone before earlier ones, on which they may depend:
\* a mutation is undone while a later one is not only after an error, which
\* keeps the file.
UndoneTopDown ==
  [][\A t \in Tx, i \in Index :
       /\ pc[t] = "undo"
       /\ memory[t].mut[i] \in Undoable
       /\ memory'[t].mut[i] = "undone"
       => \/ undoFailed[t]
          \/ \A j \in Index : j > i => memory[t].mut[j] \notin Undoable]_vars

\* The manager implements the ledger: the claims are the undoable mutations of
\* the records on disk.
Claimed == {c \in Change : Covered(c)}
Ledger == INSTANCE WriteAheadLedger WITH claimed <- Claimed
LedgerSpec == Ledger!Spec

\* A helper that is down comes back to serving once the disk, the backend and
\* the process stop failing: no journal content keeps it in recovery.
RecoveryTerminates == mode = "down" ~> mode = "serving"

\* Activate and rollback return, or die with the process, whatever fails.
OperationsTerminate == \A t \in Tx : Working(t) ~> ~Working(t)
-----------------------------------------------------------------------------
(* The inductive invariant behind the safety properties *)

\* Operations whose Transaction object is in memory.
Holding(t) == pc[t] \notin {"unused", "lost"}

\* A file is either missing or a record with a state; an id that was never
\* used has none.
FileShape(t) ==
  /\ journal[t].state = "absent" => journal[t] = NoRecord
  /\ pc[t] = "unused" => journal[t] = NoRecord

EffectsCovered(t) == \A i \in Index : <<t, i>> \in effects => Covered(<<t, i>>)

\* What is on the host is undoable in memory too, so that any record saved
\* from memory covers it.
MemoryKnows(t) ==
  Holding(t) =>
    /\ memory[t].state # "absent"
    /\ \A i \in Index : <<t, i>> \in effects => memory[t].mut[i] \in Undoable

\* The mutation about to be applied, or just applied, is on disk.
IntentJournaled(t) ==
  pc[t] \in {"apply", "applied", "failed"} => Covered(<<t, at[t]>>)

\* The mutations before the loop index are applied, those after it unknown.
ActivateProgress(t) ==
  pc[t] \in ActivateSteps =>
    \A i \in Index :
      /\ i < at[t] => memory[t].mut[i] = "applied"
      /\ i > at[t] => memory[t].mut[i] = "none"
      /\ i = at[t] =>
           memory[t].mut[i] = CASE pc[t] = "append"  -> "none"
                                [] pc[t] = "apply"   -> "pending"
                                [] pc[t] = "applied" -> "applied"
                                [] pc[t] = "failed"  -> "failed"

\* Without an error the loop of rollback leaves nothing undoable behind it.
RollbackProgress(t) ==
  ~undoFailed[t] =>
    \A i \in Index :
      \/ pc[t] = "undo" /\ i > at[t]
      \/ pc[t] = "undone" /\ i >= at[t]
      \/ pc[t] = "close"
      => memory[t].mut[i] \notin Undoable

\* Nothing is activated before the helper serves, and a recovery without
\* errors so far still has every file before it.
RecoveryTracks(t) ==
  /\ mode = "down" => ~Holding(t)
  /\ mode = "recovering" => pc[t] \notin ActivateSteps \cup {"active"}
  /\ t \in queue =>
       mode = "recovering" /\ pc[t] = "lost" /\ journal[t].state # "absent"
  /\ mode = "recovering" /\ ~recoverFailed /\ journal[t] # NoRecord =>
       t \in queue \/ Working(t) \/ pc[t] = "kept"

OperationInv(t) ==
  /\ InBounds(t)
  /\ FileShape(t)
  /\ EffectsCovered(t)
  /\ MemoryKnows(t)
  /\ IntentJournaled(t)
  /\ ActivateProgress(t)
  /\ RollbackProgress(t)
  /\ RecoveryTracks(t)
  /\ pc[t] = "released" => Gone(t)
  /\ pc[t] = "active" => FullyJournaled(t)

ManagerInv == TypeOK /\ \A t \in Tx : OperationInv(t)
=============================================================================
