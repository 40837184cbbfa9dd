--------------------------- MODULE Records_proofs ---------------------------
(***************************************************************************)
(* Proofs about the files of the controller, for any names, contents,          *)
(* goroutines, limits and numbers of failures: the profile file implements     *)
(* its register, the history is complete, no byte is counted twice, and the   *)
(* statistics that were saved are kept.                                      *)
(***************************************************************************)
EXTENDS Records, SequenceTheorems, TLAPS

-----------------------------------------------------------------------------
(* The profile file *)

\* Who edits has the lock; what is to be written is an edit of what is on file;
\* and what is about to be renamed has been written.
EditorType ==
  /\ configs \in Profiles!Tables
  /\ draft \in Profiles!Tables \cup {Torn, None}
  /\ editor \in [Goroutine ->
       {Idle} \cup [pc : {"load"}, edit : Profiles!Edits]
              \cup [pc : {"create", "write", "rename"}, next : Profiles!Tables]]

HoldsLock(g) == editor[g] # Idle => configMu = g
WritesEdit(g) ==
  editor[g].pc \in {"create", "write", "rename"} =>
    \E edit \in Profiles!Edits : editor[g].next = Profiles!Edited(edit, configs)
HasWritten(g) == editor[g].pc = "rename" => draft = editor[g].next

EditInv ==
  /\ EditorType
  /\ \A g \in Goroutine : HoldsLock(g) /\ WritesEdit(g) /\ HasWritten(g)

LEMMA EditedIsTable ==
  ASSUME NEW t \in Profiles!Tables, NEW edit \in Profiles!Edits
  PROVE  Profiles!Edited(edit, t) \in Profiles!Tables
<1>1. t \in [Name -> Version \cup {Profiles!Absent}]
  BY DEF Profiles!Tables
<1>2. CASE edit \in Profiles!Deletions
  <2>1. edit.kind = "delete" /\ edit.name \in Name
    BY <1>2 DEF Profiles!Deletions
  <2> QED
    BY <1>1, <2>1 DEF Profiles!Edited, Profiles!Tables
<1>3. CASE edit \in Profiles!Saves
  <2>1. edit.kind = "save" /\ edit.name \in Name /\ edit.version \in Version
    BY <1>3 DEF Profiles!Saves
  <2> QED
    BY <1>1, <2>1 DEF Profiles!Edited, Profiles!Tables
<1> QED
  BY <1>2, <1>3 DEF Profiles!Edits

LEMMA EditInit == Init => EditInv /\ Profiles!RegisterInit
<1> SUFFICES ASSUME Init PROVE EditInv /\ Profiles!RegisterInit
  OBVIOUS
<1>1. configs = [n \in Name |-> Profiles!Absent] /\ draft = None
      /\ editor = [g \in Goroutine |-> Idle]
  BY DEF Init
<1>2. EditorType
  BY <1>1 DEF EditorType, Profiles!Tables
<1>3. \A g \in Goroutine : HoldsLock(g) /\ WritesEdit(g) /\ HasWritten(g)
  BY <1>1 DEF HoldsLock, WritesEdit, HasWritten, Idle
<1> QED
  BY <1>1, <1>2, <1>3 DEF EditInv, Profiles!RegisterInit

\* Only the one with the lock is anywhere but idle.
LEMMA OthersIdle ==
  ASSUME EditInv, NEW g \in Goroutine, configMu = g \/ configMu = Nobody
  PROVE  \A h \in Goroutine \ {g} : editor[h] = Idle
BY GoroutineAssumption DEF EditInv, HoldsLock, Nobody

\* It is enough to look at the one that moves, and that the others are idle.
LEMMA EditFrame ==
  ASSUME EditInv, EditorType', NEW g \in Goroutine,
         \A h \in Goroutine \ {g} : editor[h] = Idle /\ editor'[h] = Idle,
         HoldsLock(g)', WritesEdit(g)', HasWritten(g)'
  PROVE  EditInv'
<1>1. \A h \in Goroutine \ {g} : HoldsLock(h)' /\ WritesEdit(h)' /\ HasWritten(h)'
  BY DEF HoldsLock, WritesEdit, HasWritten, Idle
<1> QED
  BY <1>1 DEF EditInv

LEMMA EndEditFrame ==
  ASSUME EditInv, NEW g \in Goroutine, editor[g] # Idle, EndEdit(g),
         configs' \in Profiles!Tables, draft' \in Profiles!Tables \cup {Torn, None}
  PROVE  EditInv'
<1>1. editor' = [editor EXCEPT ![g] = Idle]
  BY DEF EndEdit
<1>2. EditorType'
  BY <1>1 DEF EditInv, EditorType
<1>3. \A h \in Goroutine \ {g} : editor[h] = Idle
  BY OthersIdle DEF EditInv, HoldsLock
<1>4. editor'[g] = Idle /\ \A h \in Goroutine \ {g} : editor'[h] = Idle
  BY <1>1, <1>3 DEF EditInv, EditorType
<1>5. HoldsLock(g)' /\ WritesEdit(g)' /\ HasWritten(g)'
  BY <1>4 DEF HoldsLock, WritesEdit, HasWritten, Idle
<1> QED
  BY <1>2, <1>3, <1>4, <1>5, EditFrame

LEMMA EditStep ==
  ASSUME EditInv, NEW g \in Goroutine, EditProfiles(g)
  PROVE  /\ EditInv'
         /\ Profiles!RegisterNext \/ UNCHANGED configs
<1> USE DEF EditInv
<1>1. CASE \E edit \in Profiles!Edits : LockConfigs(g, edit)
  <2>1. PICK edit \in Profiles!Edits : LockConfigs(g, edit)
    BY <1>1
  <2>2. /\ editor' = [editor EXCEPT ![g] = [pc |-> "load", edit |-> edit]]
        /\ configMu = Nobody /\ configMu' = g
        /\ UNCHANGED <<configs, draft>>
    BY <2>1 DEF LockConfigs
  <2>3. EditorType'
    BY <2>2 DEF EditorType
  <2>4. \A h \in Goroutine \ {g} : editor[h] = Idle /\ editor'[h] = Idle
    BY <2>2, OthersIdle DEF EditorType
  <2>5. editor'[g].pc = "load"
    BY <2>2 DEF EditorType
  <2>6. HoldsLock(g)' /\ WritesEdit(g)' /\ HasWritten(g)'
    BY <2>2, <2>5 DEF HoldsLock, WritesEdit, HasWritten
  <2> QED
    BY <2>2, <2>3, <2>4, <2>6, EditFrame
<1>2. ASSUME editor[g] # Idle
      PROVE  /\ \A h \in Goroutine \ {g} : editor[h] = Idle
             /\ configMu = g
  BY <1>2, OthersIdle DEF HoldsLock
<1>3. CASE LoadAndEdit(g)
  <2>1. editor[g].pc = "load" /\ editor[g] # Idle
    BY <1>3 DEF LoadAndEdit, Idle
  <2>2. UNCHANGED <<configs, draft>>
    BY <1>3 DEF LoadAndEdit
  <2>3. CASE EndEdit(g)
    BY <2>1, <2>2, <2>3, EndEditFrame DEF EditorType
  <2>4. CASE ~EndEdit(g)
    <3>1. PICK edit \in Profiles!Edits : edit = editor[g].edit
      BY <2>1 DEF EditorType, Idle
    <3>2. PICK next \in Profiles!Tables : next = Profiles!Edited(edit, configs)
      BY EditedIsTable DEF EditorType
    <3>3. /\ editor' = [editor EXCEPT ![g] = [pc |-> "create", next |-> next]]
          /\ UNCHANGED configMu
      BY <1>3, <2>4, <3>1, <3>2 DEF LoadAndEdit
    <3>4. EditorType'
      BY <2>2, <3>3 DEF EditorType
    <3>5. \A h \in Goroutine \ {g} : editor[h] = Idle /\ editor'[h] = Idle
      BY <1>2, <2>1, <3>3 DEF EditorType
    <3>6. editor'[g] = [pc |-> "create", next |-> next]
      BY <3>3 DEF EditorType
    <3>7. HoldsLock(g)' /\ HasWritten(g)'
      BY <1>2, <2>1, <3>3, <3>6 DEF HoldsLock, HasWritten
    <3>8. WritesEdit(g)'
      <4>1. editor'[g].next = Profiles!Edited(edit, configs)
        BY <3>2, <3>6
      <4> QED
        BY <2>2, <4>1 DEF WritesEdit, Profiles!Edited
    <3> QED
      BY <2>2, <3>4, <3>5, <3>7, <3>8, EditFrame
  <2> QED
    BY <2>3, <2>4
<1>4. ASSUME NEW place \in {"create", "write"}, NEW after \in {"write", "rename"},
             editor[g].pc = place,
             editor' = [editor EXCEPT ![g].pc = after],
             UNCHANGED <<configs, configMu>>,
             draft' \in Profiles!Tables \cup {Torn, None},
             after = "rename" => draft' = editor[g].next
      PROVE  EditInv'
  <2>1. editor[g] # Idle /\ editor[g] \in [pc : {"create", "write", "rename"}, next : Profiles!Tables]
    BY <1>4 DEF EditorType, Idle
  <2>2. PICK table \in Profiles!Tables : table = editor[g].next
    BY <2>1
  <2>3. PICK rec \in [pc : {"create", "write", "rename"}, next : Profiles!Tables] :
          rec = [pc |-> after, next |-> table]
    OBVIOUS
  <2>4. [editor[g] EXCEPT !.pc = after] = rec
    BY <2>1, <2>2, <2>3
  <2>5. editor' = [editor EXCEPT ![g] = rec]
    BY <1>4, <2>4
  <2>6. EditorType'
    <3>1. editor' \in [Goroutine ->
             {Idle} \cup [pc : {"load"}, edit : Profiles!Edits]
                    \cup [pc : {"create", "write", "rename"}, next : Profiles!Tables]]
      BY <2>5 DEF EditorType
    <3> QED
      BY <1>4, <3>1 DEF EditorType
  <2>7. \A h \in Goroutine \ {g} : editor[h] = Idle /\ editor'[h] = Idle
    BY <1>2, <2>1, <2>5 DEF EditorType
  <2>8. editor'[g] = [pc |-> after, next |-> table]
    BY <2>3, <2>5 DEF EditorType
  <2>9. HoldsLock(g)' /\ HasWritten(g)'
    BY <1>2, <1>4, <2>1, <2>2, <2>8 DEF HoldsLock, HasWritten
  <2>10. WritesEdit(g)'
    <3>1. PICK edit \in Profiles!Edits : table = Profiles!Edited(edit, configs)
      BY <1>4, <2>2 DEF WritesEdit
    <3>2. editor'[g].next = Profiles!Edited(edit, configs)
      BY <2>8, <3>1
    <3> QED
      BY <1>4, <3>2 DEF WritesEdit, Profiles!Edited
  <2> QED
    BY <2>6, <2>7, <2>9, <2>10, EditFrame
<1>5. CASE CreateDraft(g)
  BY <1>4, <1>5 DEF CreateDraft
<1>6. CASE WriteDraft(g)
  <2>1. editor[g].pc = "write" /\ editor[g] # Idle /\ UNCHANGED configs
    BY <1>6 DEF WriteDraft, Idle
  <2>2. CASE EndEdit(g) /\ UNCHANGED draft
    BY <2>1, <2>2, EndEditFrame DEF EditorType
  <2>3. CASE /\ draft' = editor[g].next
             /\ editor' = [editor EXCEPT ![g].pc = "rename"]
             /\ UNCHANGED configMu
    <3>1. draft' \in Profiles!Tables
      BY <2>1, <2>3 DEF EditorType, Idle
    <3> QED
      BY <1>4, <2>1, <2>3, <3>1
  <2> QED
    BY <1>6, <2>1, <2>2, <2>3 DEF WriteDraft
<1>7. CASE RenameDraft(g)
  <2>1. editor[g].pc = "rename" /\ editor[g] # Idle /\ EndEdit(g)
    BY <1>7 DEF RenameDraft, Idle
  <2>2. CASE UNCHANGED <<configs, draft>>
    BY <2>1, <2>2, EndEditFrame DEF EditorType
  <2>3. CASE configs' = draft /\ draft' = None
    <3>1. draft = editor[g].next
      BY <2>1 DEF HasWritten
    <3>2. editor[g].next \in Profiles!Tables
      BY <2>1 DEF EditorType, Idle
    <3>3. PICK edit \in Profiles!Edits : editor[g].next = Profiles!Edited(edit, configs)
      BY <2>1 DEF WritesEdit
    <3>4. Profiles!RegisterNext
      BY <2>3, <3>1, <3>3 DEF Profiles!RegisterNext
    <3> QED
      BY <2>1, <2>3, <3>1, <3>2, <3>4, EndEditFrame
  <2> QED
    BY <1>7, <2>2, <2>3 DEF RenameDraft
<1> QED
  BY <1>1, <1>3, <1>5, <1>6, <1>7 DEF EditProfiles

LEMMA EditRestart ==
  ASSUME EditInv, Restart
  PROVE  EditInv' /\ UNCHANGED configs
<1>1. editor' = [g \in Goroutine |-> Idle] /\ UNCHANGED <<configs, draft>>
  BY DEF Restart
<1>2. EditorType'
  BY <1>1 DEF EditInv, EditorType
<1>3. \A g \in Goroutine : HoldsLock(g)' /\ WritesEdit(g)' /\ HasWritten(g)'
  BY <1>1 DEF HoldsLock, WritesEdit, HasWritten, Idle
<1> QED
  BY <1>1, <1>2, <1>3 DEF EditInv

LEMMA EditNext == EditInv /\ [Next]_vars => EditInv' /\ [Profiles!RegisterNext]_configs
<1> SUFFICES ASSUME EditInv, [Next]_vars PROVE EditInv' /\ [Profiles!RegisterNext]_configs
  OBVIOUS
<1>1. CASE UNCHANGED profileVars
  <2>1. UNCHANGED <<configs, draft, configMu, editor>>
    BY <1>1 DEF profileVars
  <2>2. EditorType'
    BY <2>1 DEF EditInv, EditorType
  <2>3. \A g \in Goroutine : HoldsLock(g)' /\ WritesEdit(g)' /\ HasWritten(g)'
    BY <2>1 DEF EditInv, HoldsLock, WritesEdit, HasWritten, Profiles!Edited
  <2> QED
    BY <2>1, <2>2, <2>3 DEF EditInv
<1>2. ASSUME NEW g \in Goroutine, Profile(g) PROVE EditInv' /\ [Profiles!RegisterNext]_configs
  BY <1>2, EditStep DEF Profile
<1>3. CASE Restart
  BY <1>3, EditRestart
<1> QED
  BY <1>1, <1>2, <1>3
  DEF Next, vars, History, Traffic, Analytics

\* The profile file changes by whole edits of what was there: the saves and
\* deletions of the controller implement the register.
THEOREM ProfilesAreRegister == Spec => ProfilesSpec
<1>1. Init => EditInv /\ Profiles!RegisterInit
  BY EditInit
<1>2. EditInv /\ [Next]_vars => EditInv' /\ [Profiles!RegisterNext]_configs
  BY EditNext
<1> QED
  BY <1>1, <1>2, PTL DEF Spec, ProfilesSpec, Profiles!RegisterSpec

-----------------------------------------------------------------------------
(* The traffic *)

TrafficType ==
  /\ moved \in Nat /\ total \in Nat
  /\ counter \in Nat \cup {None}
  /\ sample \in Nat \cup {None}
  /\ snapshot \in Nat \cup {None}
  /\ saved \in Nat \cup {Torn}

\* What is still to be added for the running session is not yet in the total,
\* nor in the file from which it may come: between the snapshot, the sample and
\* the counter, each of which may be of a later session than the one before.
Uncounted(earlier, later) ==
  earlier # None /\ later # None =>
    /\ total + later <= moved + earlier
    /\ saved # Torn => saved + later <= moved + earlier

TrafficInv ==
  /\ TrafficType
  /\ TotalsAreReal
  /\ Uncounted(snapshot, sample)
  /\ Uncounted(snapshot, counter)
  /\ Uncounted(sample, counter)

LEMMA Marks == None \notin Nat /\ Torn \notin Nat /\ None # Torn
BY MarksAssumption

LEMMA TrafficInit == Init => TrafficInv
<1> SUFFICES ASSUME Init PROVE TrafficInv
  OBVIOUS
<1>1. /\ moved = 0 /\ total = 0 /\ saved = 0
      /\ counter = None /\ sample = None /\ snapshot = None
  BY DEF Init
<1> QED
  BY <1>1, Marks DEF TrafficInv, TrafficType, TotalsAreReal, Uncounted

LEMMA TrafficRuns ==
  ASSUME TrafficInv, EngineRuns, UNCHANGED <<sample, snapshot, analyticsVars>>
  PROVE  TrafficInv'
<1>1. UNCHANGED <<total, saved>>
  BY DEF analyticsVars
<1>2. CASE counter' = None /\ UNCHANGED moved
  BY <1>1, <1>2, Marks DEF TrafficInv, TrafficType, TotalsAreReal, Uncounted
<1>3. CASE counter' = 0 /\ UNCHANGED moved
  BY <1>1, <1>3, Marks DEF TrafficInv, TrafficType, TotalsAreReal, Uncounted
<1>4. CASE counter # None /\ counter' = counter + 1 /\ moved' = moved + 1
  BY <1>1, <1>4, Marks DEF TrafficInv, TrafficType, TotalsAreReal, Uncounted
<1> QED
  BY <1>2, <1>3, <1>4 DEF EngineRuns

\* A save leaves the file torn, until it ends.
LEMMA SavedAfter ==
  ASSUME NEW force, SaveAnalytics(force)
  PROVE  saved' = saved \/ saved' = Torn
BY DEF SaveAnalytics

\* What is added to comes from memory, from the file, or from nowhere.
LEMMA UsedFrom ==
  ASSUME NEW add, UseStatistics(add), total # Torn, 0 # Torn, add \in Nat
  PROVE  \E base \in {0, total, saved} \ {Torn} : total' = base + add
<1>1. CASE total' = total + add
  BY <1>1
<1>2. CASE saved # Torn /\ total' = saved + add
  BY <1>2
<1>3. CASE total' = add
  <2>1. total' = 0 + add
    BY <1>3
  <2> QED
    BY <2>1
<1> QED
  BY <1>1, <1>2, <1>3 DEF UseStatistics

LEMMA TrafficMonitored ==
  ASSUME TrafficInv, MonitorTraffic
  PROVE  TrafficInv'
<1>1. UNCHANGED <<moved, counter>>
  BY DEF MonitorTraffic
<1>2. CASE ReadTraffic /\ UNCHANGED <<analyticsVars, faults>>
  <2>1. UNCHANGED <<total, saved>> /\ sample' = counter
        /\ snapshot' = IF counter = None THEN None ELSE snapshot
    BY <1>2 DEF ReadTraffic, analyticsVars
  <2> QED
    BY <1>1, <2>1, Marks DEF TrafficInv, TrafficType, TotalsAreReal, Uncounted
<1>3. CASE UpdateTrafficSnapshot
  <2>1. PICK delta \in {0, Delta(sample, snapshot)} : RecordTraffic(delta)
    BY <1>3 DEF UpdateTrafficSnapshot
  <2>2. sample # None /\ sample' = None /\ snapshot' = sample
    BY <1>3 DEF UpdateTrafficSnapshot
  <2>3. PICK base \in {0, total, saved} \ {Torn} :
          total' = base + delta /\ saved' \in {saved, Torn}
    <3>1. 0 # Torn /\ total \in Nat /\ total # Torn
      BY Marks DEF TrafficInv, TrafficType
    <3>2. CASE delta > 0
      <4>1. delta \in Nat
        BY <2>1, <2>2, Marks DEF Delta, TrafficInv, TrafficType
      <4>2. UseStatistics(delta) /\ SaveAnalytics(FALSE)
        BY <2>1, <3>2 DEF RecordTraffic
      <4>3. \E base \in {0, total, saved} \ {Torn} : total' = base + delta
        BY <3>1, <4>1, <4>2, UsedFrom
      <4> QED
        BY <4>2, <4>3, SavedAfter
    <3>3. CASE ~(delta > 0)
      <4>1. UNCHANGED <<total, saved>>
        BY <2>1, <3>3 DEF RecordTraffic, analyticsVars
      <4>2. delta = 0
        BY <2>1, <2>2, <3>3, Marks DEF Delta, TrafficInv, TrafficType
      <4> QED
        BY <3>1, <4>1, <4>2
    <3> QED
      BY <3>2, <3>3
  <2>4. \/ delta = 0
        \/ snapshot # None /\ sample >= snapshot /\ delta = sample - snapshot
    BY <2>1 DEF Delta
  <2>10. /\ base \in Nat /\ base <= moved
         /\ \A earlier, later \in Nat :
              total + later <= moved + earlier
              /\ (saved # Torn => saved + later <= moved + earlier)
              => base + later <= moved + earlier
    BY <2>3 DEF TrafficInv, TrafficType, TotalsAreReal
  <2>5. delta \in Nat /\ base + delta <= moved
    BY <2>2, <2>4, <2>10, Marks DEF TrafficInv, TrafficType, TotalsAreReal, Uncounted
  <2>6. counter # None => base + delta + counter <= moved + sample
    <3>1. sample \in Nat /\ (counter # None => counter \in Nat) /\ moved \in Nat
      BY <2>2 DEF TrafficInv, TrafficType
    <3>2. CASE delta = 0
      <4>1. ASSUME counter # None PROVE base + counter <= moved + sample
        BY <2>2, <2>10, <3>1, <4>1 DEF TrafficInv, Uncounted
      <4> QED
        BY <2>10, <3>1, <3>2, <4>1
    <3>3. CASE snapshot # None /\ delta = sample - snapshot
      <4>1. snapshot \in Nat
        BY <3>3 DEF TrafficInv, TrafficType
      <4>2. counter # None => base + counter <= moved + snapshot
        BY <2>10, <3>1, <3>3, <4>1 DEF TrafficInv, Uncounted
      <4> QED
        BY <2>10, <3>1, <3>3, <4>1, <4>2
    <3> QED
      BY <2>4, <3>2, <3>3
  <2>7. TrafficType'
    BY <1>1, <2>2, <2>3, <2>5, <2>10 DEF TrafficInv, TrafficType
  <2>8. TotalsAreReal'
    BY <1>1, <2>3, <2>5 DEF TrafficInv, TotalsAreReal
  <2>9. Uncounted(snapshot, counter)'
    <3>1. counter # None /\ saved # Torn => saved + counter <= moved + sample
      BY <2>2 DEF TrafficInv, Uncounted
    <3> QED
      BY <1>1, <2>2, <2>3, <2>6, <3>1 DEF Uncounted
  <2> QED
    BY <2>2, <2>7, <2>8, <2>9 DEF TrafficInv, Uncounted
<1> QED
  BY <1>2, <1>3 DEF MonitorTraffic

\* Steps that leave the engine and the snapshot alone.
LEMMA TrafficFrame ==
  ASSUME TrafficInv, UNCHANGED trafficVars,
         total' \in {total, 0} \/ (saved # Torn /\ total' = saved),
         saved' \in {saved, Torn, total}
  PROVE  TrafficInv'
<1>1. UNCHANGED <<moved, counter, sample, snapshot>>
  BY DEF trafficVars
<1>2. TrafficType' /\ TotalsAreReal'
  BY <1>1, Marks DEF TrafficInv, TrafficType, TotalsAreReal
<1>3. ASSUME NEW earlier \in Nat, NEW later \in Nat,
             total + later <= moved + earlier,
             saved # Torn => saved + later <= moved + earlier
      PROVE  /\ total' + later <= moved + earlier
             /\ saved' # Torn => saved' + later <= moved + earlier
  <2>1. total \in Nat /\ moved \in Nat
    BY DEF TrafficInv, TrafficType
  <2>2. 0 + later <= moved + earlier
    BY <1>3, <2>1
  <2>3. total' + later <= moved + earlier
    <3>1. CASE total' = total
      BY <1>3, <3>1, Zenon
    <3>2. CASE total' = 0
      BY <2>2, <3>2, Zenon
    <3>3. CASE saved # Torn /\ total' = saved
      BY <1>3, <3>3, Zenon
    <3> QED
      BY <3>1, <3>2, <3>3
  <2>4. saved' # Torn => saved' + later <= moved + earlier
    BY <1>3, Zenon
  <2> QED
    BY <2>3, <2>4
<1> QED
  BY <1>1, <1>2, <1>3 DEF TrafficInv, TrafficType, Uncounted

LEMMA TrafficRestart ==
  ASSUME TrafficInv, Restart
  PROVE  TrafficInv'
<1>1. /\ UNCHANGED <<moved, counter, saved>>
      /\ sample' = None /\ snapshot' = None
      /\ total' = 0
  BY DEF Restart
<1> QED
  BY <1>1, Marks DEF TrafficInv, TrafficType, TotalsAreReal, Uncounted

LEMMA TrafficNext == TrafficInv /\ [Next]_vars => TrafficInv'
<1> SUFFICES ASSUME TrafficInv, [Next]_vars PROVE TrafficInv'
  OBVIOUS
<1>1. CASE UNCHANGED <<trafficVars, analyticsVars>>
  <2>1. UNCHANGED trafficVars /\ UNCHANGED <<total, saved>>
    BY <1>1 DEF analyticsVars
  <2> QED
    BY <2>1, TrafficFrame
<1>2. CASE Traffic
  BY <1>2, TrafficRuns, TrafficMonitored DEF Traffic
<1>3. CASE Analytics
  <2>1. UNCHANGED trafficVars
    BY <1>3 DEF Analytics
  <2>2. total' \in {total, 0} \/ (saved # Torn /\ total' = saved)
    <3>1. ASSUME UseStatistics(0) PROVE total' \in {total, 0} \/ (saved # Torn /\ total' = saved)
      BY <3>1 DEF UseStatistics, TrafficInv, TrafficType
    <3> QED
      BY <1>3, <3>1 DEF Analytics, RecordReconnect, MonitorFlows, ReadAnalytics, ClearAnalytics,
         FinishSave, HalfMinutePasses
  <2>3. saved' \in {saved, Torn, total}
    BY <1>3, SavedAfter DEF Analytics, RecordReconnect, MonitorFlows, ReadAnalytics,
       ClearAnalytics, FinishSave, HalfMinutePasses
  <2> QED
    BY <2>1, <2>2, <2>3, TrafficFrame
<1>5. CASE Restart
  BY <1>5, TrafficRestart
<1> QED
  BY <1>1, <1>2, <1>3, <1>5 DEF Next, vars, Profile, History

\* No byte is counted twice, in memory or on disk.
THEOREM NothingCountedTwice == Spec => []TotalsAreReal
<1>1. TrafficInv => TotalsAreReal
  BY DEF TrafficInv
<1> QED
  BY <1>1, TrafficInit, TrafficNext, PTL DEF Spec

-----------------------------------------------------------------------------
(* The statistics *)

\* A file that is torn is being written; what is in memory, once it has been
\* read or is being written, has all that the file had.
StatisticsInv ==
  /\ total \in Nat /\ kept \in Nat /\ saved \in Nat \cup {Torn}
  /\ loaded \in BOOLEAN /\ fresh \in BOOLEAN /\ saving \in BOOLEAN /\ lost \in BOOLEAN
  /\ ~lost =>
       /\ saving \/ saved = kept
       /\ loaded \/ saving => total >= kept

LEMMA StatisticsInit == Init => StatisticsInv
<1> SUFFICES ASSUME Init PROVE StatisticsInv
  OBVIOUS
<1>1. /\ loaded = FALSE /\ fresh = FALSE /\ saving = FALSE /\ lost = FALSE
      /\ total = 0 /\ kept = 0 /\ saved = 0
  BY DEF Init
<1>2. /\ loaded \in BOOLEAN /\ fresh \in BOOLEAN
      /\ saving \in BOOLEAN /\ lost \in BOOLEAN
  BY <1>1, Zenon
<1>3. total \in Nat /\ kept \in Nat /\ saved \in Nat \cup {Torn} /\ total >= kept
  BY <1>1
<1> QED
  BY <1>1, <1>2, <1>3, Zenon DEF StatisticsInv

\* Reading the file, and adding to what it has.
LEMMA StatisticsUsed ==
  ASSUME StatisticsInv, NEW add \in Nat, ~saving, UseStatistics(add), UNCHANGED kept
  PROVE  /\ total' \in Nat /\ loaded' = TRUE /\ lost' \in BOOLEAN
         /\ ~lost' => total' >= kept' /\ ~lost
<1>1. CASE loaded /\ total' = total + add /\ UNCHANGED lost
  BY <1>1 DEF StatisticsInv, UseStatistics
<1>2. CASE saved # Torn /\ total' = saved + add /\ UNCHANGED lost
  BY <1>2 DEF StatisticsInv, UseStatistics
<1>3. CASE saved = Torn /\ total' = add /\ UNCHANGED lost
  <2>1. lost
    BY <1>3, Marks DEF StatisticsInv
  <2> QED
    BY <1>3, <2>1 DEF StatisticsInv, UseStatistics
<1>4. CASE total' = add /\ lost' = TRUE
  BY <1>4 DEF UseStatistics
<1> QED
  BY <1>1, <1>2, <1>3, <1>4 DEF UseStatistics

\* Coming to a save, after which the memory is what the file will have.
LEMMA StatisticsSaved ==
  ASSUME StatisticsInv, NEW force \in BOOLEAN, ~saving, SaveAnalytics(force),
         total' \in Nat, kept' \in Nat, UNCHANGED fresh, loaded' \in BOOLEAN, lost' \in BOOLEAN,
         ~lost' => /\ loaded' => total' >= kept'
                   /\ force \/ ~fresh => total' >= kept'
                   /\ force \/ ~fresh \/ saved = kept'
  PROVE  StatisticsInv'
<1>1. CASE force \/ ~fresh
  BY <1>1 DEF StatisticsInv, SaveAnalytics
<1>2. CASE ~(force \/ ~fresh)
  BY <1>2 DEF StatisticsInv, SaveAnalytics
<1> QED
  BY <1>1, <1>2

LEMMA StatisticsNext == TrafficInv /\ StatisticsInv /\ [Next]_vars => StatisticsInv'
<1> SUFFICES ASSUME TrafficInv, StatisticsInv, [Next]_vars PROVE StatisticsInv'
  OBVIOUS
<1>1. CASE UNCHANGED analyticsVars
  BY <1>1 DEF analyticsVars, StatisticsInv
<1>2. ASSUME NEW add \in Nat, NEW force \in BOOLEAN, ~saving, UseStatistics(add),
             SaveAnalytics(force), UNCHANGED <<fresh, kept>>
      PROVE  StatisticsInv'
  <2>1. /\ total' \in Nat /\ loaded' = TRUE /\ lost' \in BOOLEAN
        /\ ~lost' => total' >= kept' /\ ~lost
    BY <1>2, StatisticsUsed
  <2>2. ~lost' => saved = kept'
    BY <1>2, <2>1 DEF StatisticsInv
  <2>3. kept' \in Nat
    BY <1>2 DEF StatisticsInv
  <2> QED
    BY <1>2, <2>1, <2>2, <2>3, StatisticsSaved
<1>3. CASE UpdateTrafficSnapshot
  <2>1. PICK delta \in {0, Delta(sample, snapshot)} : RecordTraffic(delta)
    BY <1>3 DEF UpdateTrafficSnapshot
  <2>2. ~saving /\ delta \in Nat
    BY <1>3, <2>1, Marks DEF UpdateTrafficSnapshot, Delta, TrafficInv, TrafficType
  <2>3. CASE delta > 0
    BY <1>2, <2>1, <2>2, <2>3 DEF RecordTraffic
  <2>4. CASE ~(delta > 0)
    BY <1>1, <2>1, <2>4 DEF RecordTraffic
  <2> QED
    BY <2>3, <2>4
<1>4. CASE RecordReconnect
  BY <1>2, <1>4 DEF RecordReconnect
<1>5. CASE MonitorFlows
  <2>1. CASE UseStatistics(0)
    BY <1>2, <1>5, <2>1 DEF MonitorFlows
  <2>2. CASE lost' = (lost \/ (~loaded /\ ~fresh)) /\ UNCHANGED <<loaded, total, faults>>
    <3>1. ~saving /\ SaveAnalytics(FALSE) /\ UNCHANGED <<fresh, kept>>
      BY <1>5 DEF MonitorFlows
    <3>2. lost' \in BOOLEAN /\ (~lost' => ~lost /\ (loaded \/ fresh))
      BY <2>2 DEF StatisticsInv
    <3>3. total' \in Nat /\ kept' \in Nat /\ loaded' \in BOOLEAN /\ lost' \in BOOLEAN
      BY <2>2, <3>1, <3>2 DEF StatisticsInv
    <3>4. ~lost' => /\ loaded' => total' >= kept'
                    /\ ~fresh => total' >= kept'
                    /\ saved = kept'
      BY <2>2, <3>1, <3>2 DEF StatisticsInv
    <3> QED
      BY <3>1, <3>3, <3>4, StatisticsSaved
  <2> QED
    BY <1>5, <2>1, <2>2 DEF MonitorFlows
<1>6. CASE ReadAnalytics
  <2>1. /\ total' \in Nat /\ loaded' = TRUE /\ lost' \in BOOLEAN
        /\ ~lost' => total' >= kept' /\ ~lost
    BY <1>6, StatisticsUsed DEF ReadAnalytics
  <2> QED
    BY <1>6, <2>1 DEF ReadAnalytics, StatisticsInv
<1>7. CASE ClearAnalytics
  <2>1. /\ ~saving /\ loaded' = TRUE /\ total' = 0 /\ kept' = 0 /\ lost' = FALSE
        /\ SaveAnalytics(TRUE) /\ UNCHANGED fresh
    BY <1>7 DEF ClearAnalytics
  <2>2. TRUE \in BOOLEAN /\ loaded' \in BOOLEAN /\ lost' \in BOOLEAN
    BY <2>1, Zenon
  <2>3. total' \in Nat /\ kept' \in Nat /\ total' >= kept'
    BY <2>1
  <2> QED
    BY <2>1, <2>2, <2>3, StatisticsSaved, Zenon
<1>8. CASE FinishSave
  <2>1. CASE saved' = total /\ kept' = (IF total > kept THEN total ELSE kept) /\ UNCHANGED lost
    <3>1. saving /\ saving' = FALSE /\ fresh' = TRUE /\ UNCHANGED <<loaded, total>>
      BY <1>8 DEF FinishSave
    <3>2. /\ fresh' \in BOOLEAN /\ saving' \in BOOLEAN
          /\ loaded' \in BOOLEAN /\ lost' \in BOOLEAN
      BY <2>1, <3>1, Zenon DEF StatisticsInv
    <3>3. total' \in Nat /\ kept' \in Nat /\ saved' \in Nat
      BY <2>1, <3>1 DEF StatisticsInv
    <3>4. ~lost => total >= kept
      BY <3>1 DEF StatisticsInv
    <3>5. total >= kept => saved' = kept' /\ total' >= kept'
      BY <2>1, <3>1 DEF StatisticsInv
    <3> QED
      BY <2>1, <3>2, <3>3, <3>4, <3>5 DEF StatisticsInv
  <2>2. CASE lost' = TRUE /\ UNCHANGED <<saved, kept>>
    BY <1>8, <2>2 DEF FinishSave, StatisticsInv
  <2> QED
    BY <1>8, <2>1, <2>2 DEF FinishSave
<1>9. CASE HalfMinutePasses
  BY <1>9 DEF HalfMinutePasses, StatisticsInv
<1>10. CASE Restart
  <2>1. lost' \in BOOLEAN /\ (~lost' => ~lost /\ ~saving)
    BY <1>10 DEF Restart, StatisticsInv
  <2> QED
    BY <1>10, <2>1 DEF Restart, StatisticsInv
<1> QED
  BY <1>1, <1>3, <1>4, <1>5, <1>6, <1>7, <1>8, <1>9, <1>10
  DEF Next, vars, Profile, History, Traffic, MonitorTraffic, Analytics

\* What was saved is kept, over any number of restarts, sessions and saves.
THEOREM SavedIsKept == Spec => []StatisticsKept
<1>1. StatisticsInv => StatisticsKept
  BY DEF StatisticsInv, StatisticsKept
<1> QED
  BY <1>1, TrafficInit, TrafficNext, StatisticsInit, StatisticsNext, PTL DEF Spec

-----------------------------------------------------------------------------
(* The history *)

\* The last entries of what was recorded.
KeptOf(n) == IF n < Limit THEN n ELSE Limit
LastOf(list) ==
  [i \in 1..KeptOf(Len(list)) |-> list[Len(list) - KeptOf(Len(list)) + i]]

HistoryType ==
  /\ history \in Lists \cup {Torn}
  /\ recorder \in [Goroutine -> {Idle} \cup [pc : {"create", "write"}, list : Lists]]
  /\ events \in 0..MaxEntries
  /\ recorded \in Seq(Entry)
  /\ overlap \in BOOLEAN

\* Without an overlap there is at most one writer, and what it writes is what is
\* to be kept.
OneWriter == \A g, h \in Goroutine : recorder[g] # Idle /\ recorder[h] # Idle => g = h
WritesLast == \A g \in Goroutine : recorder[g] # Idle => recorder[g].list = LastOf(recorded)
HasTorn == \A g \in Goroutine : recorder[g].pc = "write" => history = Torn
HistoryInv ==
  /\ HistoryType
  /\ overlap => Busy # {}
  /\ ~overlap =>
       /\ OneWriter
       /\ WritesLast
       /\ HasTorn
       /\ Busy = {} => Loaded = LastOf(recorded)

LEMMA KeptRange ==
  ASSUME NEW n \in Nat
  PROVE  KeptOf(n) \in 0..Limit /\ KeptOf(n) <= n
BY LimitAssumption DEF KeptOf

LEMMA ListIsSeq ==
  ASSUME NEW list \in Lists
  PROVE  list \in Seq(Entry) /\ Len(list) \in 0..Limit
<1>1. PICK n \in 0..Limit : list \in [1..n -> Entry]
  BY DEF Lists
<1>2. n \in Nat
  BY LimitAssumption
<1> QED
  BY <1>1, <1>2

LEMMA ShortIsList ==
  ASSUME NEW list \in Seq(Entry), Len(list) <= Limit
  PROVE  list \in Lists
<1>1. list \in [1..Len(list) -> Entry] /\ Len(list) \in 0..Limit
  BY LenProperties, LimitAssumption
<1> QED
  BY <1>1 DEF Lists

LEMMA LastOfIsList ==
  ASSUME NEW list \in Seq(Entry)
  PROVE  /\ LastOf(list) \in Lists
         /\ LastOf(list) \in Seq(Entry)
         /\ Len(LastOf(list)) = KeptOf(Len(list))
         /\ \A i \in 1..KeptOf(Len(list)) :
              LastOf(list)[i] = list[Len(list) - KeptOf(Len(list)) + i]
<1>1. PICK n \in Nat : n = Len(list)
  BY LenProperties
<1>2. PICK k \in Nat : k = KeptOf(n) /\ k <= n /\ k <= Limit
  BY KeptRange, LimitAssumption
<1>3. LastOf(list) = [i \in 1..k |-> list[n - k + i]]
  BY <1>1, <1>2 DEF LastOf
<1>4. \A i \in 1..k : list[n - k + i] \in Entry
  <2>1. \A i \in 1..k : n - k + i \in 1..n
    BY <1>2
  <2> QED
    BY <1>1, <2>1, ElementOfSeq
<1>5. LastOf(list) \in [1..k -> Entry]
  BY <1>3, <1>4
<1>6. LastOf(list) \in Seq(Entry)
  BY <1>5, SeqDef
<1>7. DOMAIN LastOf(list) = 1..k
  BY <1>3
<1>8. Len(LastOf(list)) = k
  BY <1>2, <1>6, <1>7, LenProperties
<1> QED
  BY <1>1, <1>2, <1>3, <1>6, <1>8, ShortIsList

\* What the code keeps of a list are its last entries.
LEMMA LastEntriesIsLastOf ==
  ASSUME NEW list \in Seq(Entry)
  PROVE  LastEntries(list) = LastOf(list)
<1>1. PICK n \in Nat : n = Len(list)
  BY LenProperties
<1>2. CASE n <= Limit
  <2>1. LastEntries(list) = list /\ KeptOf(n) = n
    BY <1>1, <1>2, LimitAssumption DEF LastEntries, KeptOf
  <2>2. \A i \in 1..n : LastOf(list)[i] = list[i]
    BY <1>1, <2>1, LastOfIsList
  <2> QED
    BY <1>1, <2>1, <2>2, LastOfIsList, SeqEqual
<1>3. CASE n > Limit
  <2>1. PICK m \in Nat : m = n - Limit + 1
    BY <1>3, LimitAssumption
  <2>2. LastEntries(list) = SubSeq(list, m, n) /\ KeptOf(n) = Limit
    BY <1>1, <1>3, <2>1, LimitAssumption DEF LastEntries, KeptOf
  <2>3. \A i \in m..n : list[i] \in Entry
    <3>1. \A i \in m..n : i \in 1..n
      BY <1>3, <2>1, LimitAssumption
    <3> QED
      BY <1>1, <3>1, ElementOfSeq
  <2>4. /\ SubSeq(list, m, n) \in Seq(Entry)
        /\ Len(SubSeq(list, m, n)) = IF m <= n THEN n - m + 1 ELSE 0
        /\ \A i \in 1..(n - m + 1) : SubSeq(list, m, n)[i] = list[m + i - 1]
    <3>1. m \in Int /\ n \in Int
      OBVIOUS
    <3> QED
      BY <2>3, <3>1, SubSeqProperties
  <2>5. m <= n /\ n - m + 1 = Limit
    BY <1>3, <2>1, LimitAssumption
  <2>6. \A i \in 1..Limit : m + i - 1 = n - Limit + i
    BY <2>1, LimitAssumption
  <2>7. Len(LastOf(list)) = Limit /\ LastOf(list) \in Seq(Entry)
        /\ \A i \in 1..Limit : LastOf(list)[i] = list[n - Limit + i]
    BY <1>1, <2>2, LastOfIsList
  <2>8. /\ Len(SubSeq(list, m, n)) = Len(LastOf(list))
        /\ \A i \in 1..Len(SubSeq(list, m, n)) : SubSeq(list, m, n)[i] = LastOf(list)[i]
    <3>1. Len(SubSeq(list, m, n)) = Limit
      BY <2>4, <2>5
    <3>2. ASSUME NEW i \in 1..Limit PROVE SubSeq(list, m, n)[i] = LastOf(list)[i]
      <4>1. SubSeq(list, m, n)[i] = list[m + i - 1]
        BY <2>4, <2>5
      <4> QED
        BY <2>6, <2>7, <4>1
    <3> QED
      BY <2>7, <3>1, <3>2
  <2> QED
    BY <2>2, <2>4, <2>7, <2>8, SeqEqual
<1> QED
  BY <1>1, <1>2, <1>3, LimitAssumption

LEMMA Appended ==
  ASSUME NEW list \in Seq(Entry), NEW entry \in Entry, NEW n \in Nat, n = Len(list)
  PROVE  \E all \in Seq(Entry) :
           /\ all = Append(list, entry) /\ Len(all) = n + 1
           /\ all[n + 1] = entry /\ \A i \in 1..n : all[i] = list[i]
<1>1. PICK all \in Seq(Entry) : all = Append(list, entry)
  BY AppendProperties
<1>2. /\ Len(Append(list, entry)) = Len(list) + 1
      /\ \A i \in 1..Len(list) : Append(list, entry)[i] = list[i]
      /\ Append(list, entry)[Len(list) + 1] = entry
  BY AppendProperties
<1> QED
  BY <1>1, <1>2

\* Keeping the last entries after each event keeps the last of all.
LEMMA LastOfAppend ==
  ASSUME NEW list \in Seq(Entry), NEW entry \in Entry
  PROVE  LastEntries(Append(LastOf(list), entry)) = LastOf(Append(list, entry))
<1>1. PICK n \in Nat : n = Len(list)
  BY LenProperties
<1>2. PICK k \in Nat : k = KeptOf(n) /\ k <= n /\ k <= Limit /\ (k = n \/ k = Limit)
  BY KeptRange, LimitAssumption DEF KeptOf
<1>3. PICK tail \in Seq(Entry) :
        /\ tail = LastOf(list) /\ Len(tail) = k
        /\ \A i \in 1..k : tail[i] = list[n - k + i]
  BY <1>1, <1>2, LastOfIsList
<1>4. PICK all \in Seq(Entry) :
        /\ all = Append(list, entry) /\ Len(all) = n + 1
        /\ all[n + 1] = entry /\ \A i \in 1..n : all[i] = list[i]
  <2>1. \E all \in Seq(Entry) :
          /\ all = Append(list, entry) /\ Len(all) = n + 1
          /\ all[n + 1] = entry /\ \A i \in 1..n : all[i] = list[i]
    BY <1>1, Appended, ZenonT(30)
  <2> QED
    BY <2>1, ZenonT(30)
<1>5. PICK longer \in Seq(Entry) :
        /\ longer = Append(tail, entry) /\ Len(longer) = k + 1
        /\ longer[k + 1] = entry /\ \A i \in 1..k : longer[i] = tail[i]
  <2>1. tail \in Seq(Entry) /\ k = Len(tail)
    BY <1>3
  <2>2. \E result \in Seq(Entry) :
          /\ result = Append(tail, entry) /\ Len(result) = k + 1
          /\ result[k + 1] = entry /\ \A i \in 1..k : result[i] = tail[i]
    BY <2>1, Appended, ZenonT(30)
  <2> QED
    BY <2>2, ZenonT(30)
<1>6. \A i \in 1..(k + 1) : longer[i] = all[n - k + i]
  <2>1. ASSUME NEW i \in 1..k PROVE longer[i] = all[n - k + i]
    <3>1. n - k + i \in 1..n
      BY <1>2
    <3> QED
      BY <1>3, <1>4, <1>5, <3>1
  <2>2. longer[k + 1] = all[n - k + (k + 1)]
    BY <1>2, <1>4, <1>5
  <2>3. \A i \in 1..(k + 1) : i \in 1..k \/ i = k + 1
    BY <1>2
  <2> QED
    BY <2>1, <2>2, <2>3
<1>7. PICK j \in Nat :
        /\ j = KeptOf(k + 1) /\ j = KeptOf(n + 1) /\ j <= k + 1 /\ j <= n + 1
  <2>1. KeptOf(k + 1) = KeptOf(n + 1)
    BY <1>2, LimitAssumption DEF KeptOf
  <2>2. KeptOf(n + 1) \in Nat /\ KeptOf(n + 1) <= n + 1
    <3>1. n + 1 \in Nat
      OBVIOUS
    <3>2. KeptOf(n + 1) \in 0..Limit /\ KeptOf(n + 1) <= n + 1
      BY <3>1, KeptRange
    <3> QED
      BY <3>2, LimitAssumption
  <2>3. KeptOf(k + 1) <= k + 1
    <3>1. k + 1 \in Nat
      OBVIOUS
    <3> QED
      BY <3>1, KeptRange
  <2> QED
    BY <2>1, <2>2, <2>3
<1>8. /\ Len(LastOf(longer)) = j /\ Len(LastOf(all)) = j
      /\ LastOf(longer) \in Seq(Entry) /\ LastOf(all) \in Seq(Entry)
      /\ \A i \in 1..j : LastOf(longer)[i] = longer[k + 1 - j + i]
      /\ \A i \in 1..j : LastOf(all)[i] = all[n + 1 - j + i]
  <2>1. /\ LastOf(longer) \in Seq(Entry)
        /\ Len(LastOf(longer)) = KeptOf(Len(longer))
        /\ \A i \in 1..KeptOf(Len(longer)) :
              LastOf(longer)[i] = longer[Len(longer) - KeptOf(Len(longer)) + i]
    BY LastOfIsList
  <2>2. /\ LastOf(all) \in Seq(Entry)
        /\ Len(LastOf(all)) = KeptOf(Len(all))
        /\ \A i \in 1..KeptOf(Len(all)) :
              LastOf(all)[i] = all[Len(all) - KeptOf(Len(all)) + i]
    BY LastOfIsList
  <2>3. Len(longer) = k + 1 /\ Len(all) = n + 1
    BY <1>4, <1>5
  <2> QED
    <3>1. KeptOf(Len(longer)) = j /\ KeptOf(Len(all)) = j
      BY <1>7, <2>3
    <3>2. ASSUME NEW i \in 1..j PROVE LastOf(longer)[i] = longer[k + 1 - j + i]
      <4>1. i \in 1..KeptOf(Len(longer))
        BY <3>1
      <4>2. LastOf(longer)[i] = longer[Len(longer) - KeptOf(Len(longer)) + i]
        BY <2>1, <4>1
      <4>3. Len(longer) - KeptOf(Len(longer)) + i = k + 1 - j + i
        BY <2>3, <3>1
      <4> QED
        BY <4>2, <4>3
    <3>3. ASSUME NEW i \in 1..j PROVE LastOf(all)[i] = all[n + 1 - j + i]
      <4>1. i \in 1..KeptOf(Len(all))
        BY <3>1
      <4>2. LastOf(all)[i] = all[Len(all) - KeptOf(Len(all)) + i]
        BY <2>2, <4>1
      <4>3. Len(all) - KeptOf(Len(all)) + i = n + 1 - j + i
        BY <2>3, <3>1
      <4> QED
        BY <4>2, <4>3
    <3> QED
      BY <2>1, <2>2, <3>1, <3>2, <3>3
<1>9. ASSUME NEW i \in 1..j PROVE LastOf(longer)[i] = LastOf(all)[i]
  <2>1. /\ k + 1 - j + i \in 1..(k + 1)
        /\ n - k + (k + 1 - j + i) = n + 1 - j + i
    BY <1>2, <1>7
  <2> QED
    BY <1>6, <1>8, <2>1
<1>10. LastOf(longer) = LastOf(all)
  BY <1>8, <1>9, SeqEqual
<1> QED
  BY <1>3, <1>4, <1>5, <1>10, LastEntriesIsLastOf

LEMMA LastOfEmpty == LastOf(<<>>) = <<>> /\ <<>> \in Lists /\ <<>> \in Seq(Entry)
<1>1. <<>> \in Seq(Entry) /\ Len(<<>>) = 0
  BY EmptySeq
<1>2. <<>> \in Lists
  <2>1. Len(<<>>) <= Limit
    BY <1>1, LimitAssumption
  <2> QED
    BY <1>1, <2>1, ShortIsList
<1>3. KeptOf(0) = 0
  BY LimitAssumption DEF KeptOf
<1>4. Len(LastOf(<<>>)) = 0 /\ LastOf(<<>>) \in Seq(Entry)
  BY <1>1, <1>3, LastOfIsList
<1> QED
  BY <1>1, <1>2, <1>4, EmptySeq

LEMMA TornIsNoList == \A list \in Seq(Entry) : list # Torn
<1>1. Entry \subseteq Nat
  BY DEF Entry
<1> QED
  BY <1>1, SeqMonotonic, MarksAssumption

\* A list within the limit is what is kept of it.
LEMMA LastOfShort ==
  ASSUME NEW list \in Lists
  PROVE  LastOf(list) = list /\ list \in Seq(Entry)
<1>1. list \in Seq(Entry) /\ Len(list) <= Limit
  BY ListIsSeq, LimitAssumption
<1>2. LastEntries(list) = list
  BY <1>1, LimitAssumption DEF LastEntries
<1> QED
  BY <1>1, <1>2, LastEntriesIsLastOf

LEMMA LoadedIsList ==
  ASSUME history \in Lists \cup {Torn}
  PROVE  Loaded \in Lists
BY LastOfEmpty DEF Loaded

LEMMA HistoryInit == Init => HistoryInv
<1> SUFFICES ASSUME Init PROVE HistoryInv
  OBVIOUS
<1>1. /\ history = <<>> /\ recorded = <<>> /\ overlap = FALSE /\ events = 0
      /\ recorder = [g \in Goroutine |-> Idle]
  BY DEF Init
<1>2. HistoryType
  <2>1. 0 \in 0..MaxEntries
    BY RecordsBoundAssumption
  <2> QED
    BY <1>1, <2>1, LastOfEmpty DEF HistoryType
<1>3. Loaded = LastOf(recorded)
  BY <1>1, LastOfEmpty DEF Loaded
<1>4. OneWriter /\ WritesLast /\ HasTorn
  BY <1>1 DEF OneWriter, WritesLast, HasTorn, Idle
<1> QED
  BY <1>1, <1>2, <1>3, <1>4 DEF HistoryInv

\* A goroutine that enters has the history to itself, or overlaps.
LEMMA WriterEnters ==
  ASSUME HistoryInv, NEW g \in Goroutine, NEW list \in Lists, Enter(g, list),
         recorded' \in Seq(Entry), events' \in 0..MaxEntries, UNCHANGED history,
         Busy = {} => list = LastOf(recorded')
  PROVE  HistoryInv'
<1>1. /\ recorder[g] = Idle
      /\ recorder' = [recorder EXCEPT ![g] = [pc |-> "create", list |-> list]]
      /\ overlap' = (Busy # {})
  BY DEF Enter
<1>2. recorder'[g] = [pc |-> "create", list |-> list]
      /\ \A h \in Goroutine \ {g} : recorder'[h] = recorder[h]
  BY <1>1 DEF HistoryInv, HistoryType
<1>3. recorder'[g] # Idle /\ Busy' # {}
  BY <1>2 DEF Idle, Busy
<1>4. HistoryType'
  <2>1. recorder' \in [Goroutine -> {Idle} \cup [pc : {"create", "write"}, list : Lists]]
    BY <1>1 DEF HistoryInv, HistoryType
  <2>2. overlap' \in BOOLEAN
    BY <1>1, Zenon
  <2> QED
    BY <2>1, <2>2 DEF HistoryInv, HistoryType
<1>5. ASSUME ~overlap' PROVE OneWriter' /\ WritesLast' /\ HasTorn'
  <2>1. \A h \in Goroutine \ {g} : recorder'[h] = Idle
    BY <1>1, <1>2, <1>5 DEF Busy
  <2>2. OneWriter'
    BY <2>1 DEF OneWriter
  <2>3. WritesLast'
    <3>1. Busy = {}
      BY <1>1, <1>5, Zenon
    <3>2. recorder'[g].list = list
      BY <1>2
    <3> QED
      BY <2>1, <3>1, <3>2 DEF WritesLast
  <2>4. HasTorn'
    BY <1>2, <2>1 DEF HasTorn, Idle
  <2> QED
    BY <2>2, <2>3, <2>4
<1> QED
  BY <1>3, <1>4, <1>5 DEF HistoryInv

\* A goroutine that leaves: the last one has written what was to be kept, or
\* the record starts from what there is.
LEMMA WriterLeaves ==
  ASSUME HistoryInv, NEW g \in Goroutine, recorder[g] # Idle, NEW whole \in BOOLEAN,
         Leave(g, whole), history' \in Lists \cup {Torn}, UNCHANGED events,
         whole /\ ~overlap => Loaded' = recorder[g].list
  PROVE  HistoryInv'
<1>1. recorder' = [recorder EXCEPT ![g] = Idle]
  BY DEF Leave
<1>2. /\ recorder'[g] = Idle
      /\ \A h \in Goroutine \ {g} : recorder'[h] = recorder[h]
  BY <1>1 DEF HistoryInv, HistoryType
<1>3. recorder' \in [Goroutine -> {Idle} \cup [pc : {"create", "write"}, list : Lists]]
  BY <1>1 DEF HistoryInv, HistoryType
<1>4. g \in Busy
  BY DEF Busy
<1>5. CASE Busy = {g}
  <2>1. /\ overlap' = FALSE
        /\ recorded' = IF whole /\ ~overlap THEN recorded ELSE Loaded'
    BY <1>5 DEF Leave
  <2>2. Loaded' \in Lists
    BY LastOfEmpty DEF Loaded
  <2>3. LastOf(Loaded') = Loaded' /\ Loaded' \in Seq(Entry)
    BY <2>2, LastOfShort
  <2>4. \A h \in Goroutine : recorder'[h] = Idle
    BY <1>2, <1>5 DEF Busy
  <2>5. HistoryType'
    BY <1>3, <2>1, <2>3 DEF HistoryInv, HistoryType
  <2>6. Loaded' = LastOf(recorded')
    <3>1. CASE whole /\ ~overlap
      <4>1. recorder[g].list = LastOf(recorded)
        BY <3>1 DEF HistoryInv, WritesLast
      <4>2. LastOf(recorded') = LastOf(recorded)
        BY <2>1, <3>1
      <4> QED
        BY <3>1, <4>1, <4>2
    <3>2. CASE ~(whole /\ ~overlap)
      BY <2>1, <2>3, <3>2
    <3> QED
      BY <3>1, <3>2
  <2> QED
    BY <2>1, <2>4, <2>5, <2>6 DEF HistoryInv, OneWriter, WritesLast, HasTorn, Idle
<1>6. CASE Busy # {g}
  <2>1. PICK h \in Goroutine : h # g /\ recorder[h] # Idle
    BY <1>4, <1>6 DEF Busy
  <2>2. overlap
    BY <2>1 DEF HistoryInv, OneWriter
  <2>3. UNCHANGED <<overlap, recorded>>
    BY <1>6 DEF Leave
  <2>4. Busy' # {}
    BY <1>2, <2>1 DEF Busy
  <2>5. HistoryType'
    BY <1>3, <2>3 DEF HistoryInv, HistoryType
  <2> QED
    BY <2>2, <2>3, <2>4, <2>5 DEF HistoryInv
<1> QED
  BY <1>5, <1>6

LEMMA HistoryStep ==
  ASSUME HistoryInv, NEW g \in Goroutine, RecordHistory(g)
  PROVE  HistoryInv'
<1>1. CASE LoadHistory(g)
  <2>1. PICK entry \in Entry : entry = events + 1 /\ events' = entry
    BY <1>1, RecordsBoundAssumption DEF LoadHistory, Entry, HistoryInv, HistoryType
  <2>2. events' \in 0..MaxEntries /\ UNCHANGED history
    BY <1>1, <2>1 DEF LoadHistory, Entry
  <2>3. PICK before \in Lists : before = Loaded
    BY LoadedIsList DEF HistoryInv, HistoryType
  <2>4. PICK list : list = LastEntries(Append(before, entry))
    OBVIOUS
  <2>5. list \in Lists
    <3>1. before \in Seq(Entry)
      BY ListIsSeq
    <3>2. Append(before, entry) \in Seq(Entry)
      BY <3>1, AppendProperties
    <3> QED
      BY <2>4, <3>2, LastEntriesIsLastOf, LastOfIsList
  <2>6. CASE Enter(g, list) /\ recorded' = Append(recorded, entry)
    <3>1. recorded' \in Seq(Entry)
      BY <2>6, AppendProperties DEF HistoryInv, HistoryType
    <3>2. ASSUME Busy = {} PROVE list = LastOf(recorded')
      <4>1. before = LastOf(recorded)
        BY <2>3, <3>2 DEF HistoryInv
      <4>2. recorded \in Seq(Entry)
        BY DEF HistoryInv, HistoryType
      <4> QED
        BY <2>4, <2>6, <4>1, <4>2, LastOfAppend
    <3> QED
      BY <2>2, <2>5, <2>6, <3>1, <3>2, WriterEnters
  <2>7. CASE Enter(g, <<entry>>) /\ recorded' = <<entry>>
    <3>1. <<entry>> \in Lists
      <4>1. <<entry>> \in Seq(Entry) /\ Len(<<entry>>) <= Limit
        BY LimitAssumption
      <4> QED
        BY <4>1, ShortIsList
    <3>2. LastOf(<<entry>>) = <<entry>> /\ <<entry>> \in Seq(Entry)
      BY <3>1, LastOfShort
    <3>3. LastOf(recorded') = LastOf(<<entry>>) /\ recorded' \in Seq(Entry)
      BY <2>7, <3>2
    <3> QED
      BY <2>2, <2>7, <3>1, <3>2, <3>3, WriterEnters
  <2> QED
    BY <1>1, <2>1, <2>3, <2>4, <2>6, <2>7 DEF LoadHistory
<1>2. CASE ClearHistory(g)
  <2>1. Enter(g, <<>>) /\ recorded' = <<>> /\ UNCHANGED <<history, events>>
    BY <1>2 DEF ClearHistory
  <2>2. LastOf(recorded') = LastOf(<<>>) /\ recorded' \in Seq(Entry)
    BY <2>1, LastOfEmpty
  <2>3. events' \in 0..MaxEntries
    BY <2>1 DEF HistoryInv, HistoryType
  <2> QED
    BY <2>1, <2>2, <2>3, LastOfEmpty, WriterEnters
<1>3. CASE CreateHistory(g)
  <2>1. recorder[g].pc = "create" /\ recorder[g] # Idle /\ UNCHANGED events
    BY <1>3 DEF CreateHistory, Idle
  <2>2. CASE UNCHANGED history /\ Leave(g, FALSE)
    BY <2>1, <2>2, WriterLeaves DEF HistoryInv, HistoryType
  <2>3. CASE history' = Torn /\ recorder' = [recorder EXCEPT ![g].pc = "write"]
             /\ UNCHANGED <<recorded, overlap>>
    <3>1. PICK list \in Lists : list = recorder[g].list
      BY <2>1 DEF HistoryInv, HistoryType, Idle
    <3>2. PICK rec \in [pc : {"create", "write"}, list : Lists] :
            rec = [pc |-> "write", list |-> list]
      OBVIOUS
    <3>3. [recorder[g] EXCEPT !.pc = "write"] = rec
      <4>1. recorder[g] \in [pc : {"create", "write"}, list : Lists]
        BY <2>1 DEF HistoryInv, HistoryType
      <4> QED
        BY <3>1, <3>2, <4>1
    <3>4. recorder' = [recorder EXCEPT ![g] = rec]
      BY <2>3, <3>3
    <3>5. HistoryType'
      BY <2>1, <2>3, <3>4 DEF HistoryInv, HistoryType
    <3>6. /\ recorder'[g] = rec /\ rec # Idle /\ rec.list = recorder[g].list
          /\ \A h \in Goroutine \ {g} : recorder'[h] = recorder[h]
      BY <3>1, <3>2, <3>4 DEF HistoryInv, HistoryType, Idle
    <3>7. Busy' # {}
      BY <3>6 DEF Busy
    <3>8. LastOf(recorded') = LastOf(recorded)
      BY <2>3
    <3>9. ~overlap' => OneWriter' /\ WritesLast' /\ HasTorn'
      BY <2>1, <2>3, <3>6, <3>8 DEF HistoryInv, OneWriter, WritesLast, HasTorn
    <3> QED
      BY <3>5, <3>7, <3>9 DEF HistoryInv
  <2> QED
    BY <1>3, <2>2, <2>3 DEF CreateHistory
<1>4. CASE WriteHistory(g)
  <2>1. recorder[g].pc = "write" /\ recorder[g] # Idle /\ UNCHANGED events
    BY <1>4 DEF WriteHistory, Idle
  <2>2. recorder[g].list \in Lists /\ history \in Lists \cup {Torn}
    BY <2>1 DEF HistoryInv, HistoryType, Idle
  <2>3. CASE history' = recorder[g].list /\ Leave(g, TRUE)
    <3>1. history' # Torn
      BY <2>2, <2>3, ListIsSeq, TornIsNoList
    <3>2. Loaded' = recorder[g].list
      BY <2>3, <3>1 DEF Loaded
    <3> QED
      BY <2>1, <2>2, <2>3, <3>2, WriterLeaves
  <2>4. CASE history \notin {Torn, recorder[g].list} /\ history' = Torn /\ Leave(g, TRUE)
    <3>1. overlap
      BY <2>1, <2>4 DEF HistoryInv, HasTorn
    <3> QED
      BY <2>1, <2>4, <3>1, WriterLeaves
  <2>5. CASE UNCHANGED history /\ Leave(g, FALSE)
    BY <2>1, <2>2, <2>5, WriterLeaves
  <2> QED
    BY <1>4, <2>3, <2>4, <2>5 DEF WriteHistory
<1> QED
  BY <1>1, <1>2, <1>3, <1>4 DEF RecordHistory

LEMMA HistoryRestart ==
  ASSUME HistoryInv, Restart
  PROVE  HistoryInv'
<1>1. /\ recorder' = [g \in Goroutine |-> Idle]
      /\ recorded' = IF Busy = {} THEN recorded ELSE Loaded
      /\ overlap' = FALSE
      /\ UNCHANGED <<history, events>>
  BY DEF Restart
<1>2. Loaded' = Loaded /\ Loaded \in Lists
  BY <1>1, LoadedIsList DEF HistoryInv, HistoryType, Loaded
<1>3. LastOf(Loaded) = Loaded /\ Loaded \in Seq(Entry)
  BY <1>2, LastOfShort
<1>4. HistoryType'
  BY <1>1, <1>3 DEF HistoryInv, HistoryType
<1>5. Loaded' = LastOf(recorded')
  <2>1. CASE Busy = {}
    <3>1. LastOf(recorded') = LastOf(recorded)
      BY <1>1, <2>1
    <3> QED
      BY <1>2, <2>1, <3>1 DEF HistoryInv
  <2>2. CASE Busy # {}
    <3>1. LastOf(recorded') = LastOf(Loaded)
      BY <1>1, <2>2
    <3> QED
      BY <1>2, <1>3, <3>1
  <2> QED
    BY <2>1, <2>2
<1>6. OneWriter' /\ WritesLast' /\ HasTorn'
  BY <1>1 DEF OneWriter, WritesLast, HasTorn, Idle
<1> QED
  BY <1>1, <1>4, <1>5, <1>6 DEF HistoryInv

LEMMA HistoryNext == HistoryInv /\ [Next]_vars => HistoryInv'
<1> SUFFICES ASSUME HistoryInv, [Next]_vars PROVE HistoryInv'
  OBVIOUS
<1>1. CASE UNCHANGED historyVars
  BY <1>1
  DEF historyVars, HistoryInv, HistoryType, OneWriter, WritesLast, HasTorn, Busy, Loaded
<1>2. ASSUME NEW g \in Goroutine, History(g) PROVE HistoryInv'
  BY <1>2, HistoryStep DEF History
<1>3. CASE Restart
  BY <1>3, HistoryRestart
<1> QED
  BY <1>1, <1>2, <1>3
  DEF Next, vars, Profile, Traffic, Analytics

\* The history has the last events, in their order, and goes on after whatever
\* has disturbed it.
THEOREM HistoryKept == Spec => []HistoryComplete
<1>1. HistoryInv => HistoryComplete
  <2> SUFFICES ASSUME HistoryInv, Busy = {} PROVE HistoryComplete
    BY DEF HistoryComplete
  <2>1. Loaded = LastOf(recorded)
    BY DEF HistoryInv
  <2> QED
    BY <2>1 DEF HistoryComplete, LastOf, KeptOf
<1> QED
  BY <1>1, HistoryInit, HistoryNext, PTL DEF Spec

-----------------------------------------------------------------------------
(* Type correctness *)

RestType ==
  /\ part \in {"profiles", "history", "analytics"}
  /\ faults \in 0..MaxFaults
  /\ configMu \in Goroutine \cup {Nobody}
  /\ session \in 0..MaxSessions
  /\ counter \in 0..MaxBytes \cup {None}
  /\ sample \in 0..MaxBytes \cup {None}
  /\ snapshot \in 0..MaxBytes \cup {None}

LEMMA FaultCounts ==
  ASSUME RestType, Fault \/ UNCHANGED faults
  PROVE  faults' \in 0..MaxFaults
<1>1. faults \in 0..MaxFaults
  BY DEF RestType
<1> QED
  BY <1>1, RecordsBoundAssumption DEF Fault

LEMMA RestInit == Init => RestType
<1> SUFFICES ASSUME Init PROVE RestType
  OBVIOUS
<1>1. 0 \in 0..MaxFaults /\ 0 \in 0..MaxSessions
  BY RecordsBoundAssumption
<1> QED
  BY <1>1 DEF Init, RestType

LEMMA RestNext == RestType /\ [Next]_vars => RestType'
<1> SUFFICES ASSUME RestType, [Next]_vars PROVE RestType'
  OBVIOUS
<1>1. CASE UNCHANGED vars
  BY <1>1 DEF vars, profileVars, trafficVars, RestType
<1>2. ASSUME NEW g \in Goroutine, Profile(g) PROVE RestType'
  <2>1. Fault \/ UNCHANGED faults
    BY <1>2 DEF Profile, EditProfiles, LockConfigs, LoadAndEdit, CreateDraft, WriteDraft,
       RenameDraft
  <2>2. configMu' \in Goroutine \cup {Nobody}
    BY <1>2 DEF Profile, EditProfiles, LockConfigs, LoadAndEdit, CreateDraft, WriteDraft,
       RenameDraft, EndEdit, RestType
  <2>3. faults' \in 0..MaxFaults
    BY <2>1, FaultCounts
  <2> QED
    BY <1>2, <2>2, <2>3 DEF Profile, trafficVars, analyticsVars, RestType
<1>3. ASSUME NEW g \in Goroutine, History(g) PROVE RestType'
  <2>1. Fault \/ UNCHANGED faults
    BY <1>3 DEF History, RecordHistory, LoadHistory, ClearHistory, CreateHistory, WriteHistory
  <2>2. faults' \in 0..MaxFaults
    BY <2>1, FaultCounts
  <2> QED
    BY <1>3, <2>2 DEF History, profileVars, trafficVars, analyticsVars, RestType
<1>4. CASE Traffic
  <2>1. UNCHANGED <<part, profileVars>>
    BY <1>4 DEF Traffic
  <2>2. CASE EngineRuns /\ UNCHANGED <<sample, snapshot, analyticsVars, faults>>
    <3>1. session' \in 0..MaxSessions
      BY <2>2, RecordsBoundAssumption DEF EngineRuns, RestType
    <3>2. counter' \in 0..MaxBytes \cup {None}
      BY <2>2, RecordsBoundAssumption, Marks DEF EngineRuns, RestType
    <3> QED
      BY <2>1, <2>2, <3>1, <3>2 DEF RestType, profileVars
  <2>3. CASE MonitorTraffic
    <3>1. UNCHANGED <<session, counter>>
      BY <2>3 DEF MonitorTraffic
    <3>2. sample' \in {sample, counter, None} /\ snapshot' \in {snapshot, sample, None}
      BY <2>3 DEF MonitorTraffic, ReadTraffic, UpdateTrafficSnapshot
    <3>3. Fault \/ UNCHANGED faults
      BY <2>3 DEF MonitorTraffic, UpdateTrafficSnapshot, RecordTraffic, UseStatistics
    <3>4. faults' \in 0..MaxFaults
      BY <3>3, FaultCounts
    <3> QED
      BY <2>1, <3>1, <3>2, <3>4 DEF RestType, profileVars
  <2> QED
    BY <1>4, <2>2, <2>3 DEF Traffic
<1>5. CASE Analytics
  <2>1. UNCHANGED <<part, profileVars, trafficVars>>
    BY <1>5 DEF Analytics
  <2>2. Fault \/ UNCHANGED faults
    BY <1>5 DEF Analytics, RecordReconnect, MonitorFlows, ReadAnalytics, ClearAnalytics,
       FinishSave, HalfMinutePasses, UseStatistics
  <2>3. faults' \in 0..MaxFaults
    BY <2>2, FaultCounts
  <2> QED
    BY <2>1, <2>3 DEF RestType, profileVars, trafficVars
<1>6. CASE Restart
  <2>1. faults' \in 0..MaxFaults
    BY <1>6, FaultCounts DEF Restart
  <2> QED
    BY <1>6, <2>1 DEF Restart, RestType
<1> QED
  BY <1>1, <1>2, <1>3, <1>4, <1>5, <1>6 DEF Next

\* Every variable keeps its type, for the three files together.
THEOREM RecordsTypeCorrect == Spec => []TypeOK
<1>1. RestType /\ EditInv /\ TrafficInv /\ StatisticsInv /\ HistoryInv => TypeOK
  BY DEF TypeOK, RestType, EditInv, EditorType, TrafficInv, TrafficType, StatisticsInv,
     HistoryInv, HistoryType
<1>2. Init => EditInv
  BY EditInit
<1>3. EditInv /\ [Next]_vars => EditInv'
  BY EditNext
<1> QED
  BY <1>1, <1>2, <1>3, RestInit, RestNext, TrafficInit, TrafficNext, StatisticsInit,
     StatisticsNext, HistoryInit, HistoryNext, PTL DEF Spec
=============================================================================
