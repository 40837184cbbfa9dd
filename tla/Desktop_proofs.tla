--------------------------- MODULE Desktop_proofs ---------------------------
(***************************************************************************)
(* Proofs about the tray, the window and the credential stores, for any names,  *)
(* passwords, stores, handlers and numbers of failures: what was written last *)
(* is read, secrets have a profile, and the flag follows the dialogs.         *)
(***************************************************************************)
EXTENDS Desktop, FiniteSetTheorems, TLAPS

-----------------------------------------------------------------------------
(* Handlers *)

TaskType == task \in [Task -> OpenTask \cup {Idle}]

LEMMA FaultCounts ==
  ASSUME TypeOK, Fault \/ UNCHANGED faults
  PROVE  faults' \in 0..MaxFaults
<1>1. faults \in 0..MaxFaults
  BY DEF TypeOK
<1> QED
  BY <1>1, DesktopFaultsAssumption DEF Fault

LEMMA OpenIsTask ==
  ASSUME TaskType, NEW t \in Task, task[t].pc # "idle"
  PROVE  task[t] \in OpenTask
BY DEF TaskType, Idle

LEMMA IdleIsNoPlace == "idle" \notin Place /\ Idle.pc = "idle" /\ Idle \notin OpenTask
<1>1. "idle" \notin Place /\ Idle.pc = "idle"
  BY DEF Place, Dialog, Idle, Storing
<1>2. \A r \in OpenTask : r.pc \in Place
  BY DEF OpenTask
<1> QED
  BY <1>1, <1>2

\* A handler that opens, moves or ends.
LEMMA SetTaskEffect ==
  ASSUME TaskType, NEW t \in Task, NEW record \in OpenTask \cup {Idle}, SetTask(t, record)
  PROVE  /\ TaskType'
         /\ task'[t] = record
         /\ \A u \in Task \ {t} : task'[u] = task[u]
BY DEF TaskType, SetTask

LEMMA EndEffect ==
  ASSUME TaskType, NEW t \in Task, End(t)
  PROVE  /\ TaskType'
         /\ task'[t] = Idle
         /\ \A u \in Task \ {t} : task'[u] = task[u]
BY DEF TaskType, End

LEMMA GoEffect ==
  ASSUME TaskType, NEW t \in Task, task[t].pc # "idle", NEW pc \in Place, Go(t, pc)
  PROVE  /\ TaskType'
         /\ task'[t] \in OpenTask
         /\ task'[t].pc = pc
         /\ task'[t].name = task[t].name
         /\ task'[t].replace = task[t].replace
         /\ \A u \in Task \ {t} : task'[u] = task[u]
<1>1. task[t] \in OpenTask
  BY OpenIsTask
<1>2. PICK r : r = [task[t] EXCEPT !.pc = pc]
  OBVIOUS
<1>3. r \in OpenTask /\ r.pc = pc /\ r.name = task[t].name /\ r.replace = task[t].replace
  BY <1>1, <1>2 DEF OpenTask
<1>4. task' = [task EXCEPT ![t] = r]
  BY <1>2 DEF Go
<1> QED
  BY <1>3, <1>4 DEF TaskType

LEMMA NameIsNoName == \A n \in Name : n # NoName
BY DesktopNamesAssumption DEF NoName

LEMMA HandlerType ==
  ASSUME NEW n \in Name \cup {NoName}, NEW pc \in {"read", "confirm", "form"},
         NEW kind \in {"connect", "edit", "delete"}, NEW h, h = Handler(pc, kind, n)
  PROVE  h \in OpenTask /\ h.pc = pc /\ h.name = n
<1>1. pc \in Place /\ NoName \in Name \cup {NoName} /\ 0 \in Password0 /\ FALSE \in BOOLEAN
  BY DEF Place, Dialog, Password0
<1> QED
  BY <1>1 DEF Handler, OpenTask

\* Updates of one field of a handler's record, and of several.
LEMMA SetPc ==
  ASSUME NEW r \in OpenTask, NEW pc \in Place, NEW s, s = [r EXCEPT !.pc = pc]
  PROVE  s \in OpenTask /\ s.pc = pc /\ s.name = r.name /\ s.replace = r.replace
BY DEF OpenTask

LEMMA SetPassword ==
  ASSUME NEW r \in OpenTask, NEW value \in Password0, NEW s, s = [r EXCEPT !.password = value]
  PROVE  s \in OpenTask /\ s.pc = r.pc /\ s.name = r.name /\ s.replace = r.replace
BY DEF OpenTask

LEMMA SetName ==
  ASSUME NEW r \in OpenTask, NEW n \in Name, NEW s, s = [r EXCEPT !.name = n]
  PROVE  s \in OpenTask /\ s.pc = r.pc /\ s.name = n /\ s.replace = r.replace
BY DEF OpenTask

LEMMA SetReplace ==
  ASSUME NEW r \in OpenTask, NEW n \in Name, NEW s, s = [r EXCEPT !.replace = n]
  PROVE  s \in OpenTask /\ s.pc = r.pc /\ s.name = r.name /\ s.replace = n
BY DEF OpenTask

With(r, pc, value) == [r EXCEPT !.pc = pc, !.password = value]
Filled(r, pc, n, value) == [r EXCEPT !.pc = pc, !.name = n, !.password = value]

LEMMA WithType ==
  ASSUME NEW r \in OpenTask, NEW pc \in Place, NEW value \in Password0,
         NEW s, s = With(r, pc, value)
  PROVE  s \in OpenTask /\ s.pc = pc /\ s.name = r.name /\ s.replace = r.replace
<1>1. PICK s1 : s1 = [r EXCEPT !.pc = pc]
  OBVIOUS
<1>2. s = [s1 EXCEPT !.password = value]
  BY <1>1 DEF With
<1>3. s1 \in OpenTask /\ s1.pc = pc /\ s1.name = r.name /\ s1.replace = r.replace
  BY <1>1, SetPc
<1> QED
  BY <1>2, <1>3, SetPassword, Zenon

LEMMA FilledType ==
  ASSUME NEW r \in OpenTask, NEW pc \in Place, NEW n \in Name, NEW value \in Password0,
         NEW s, s = Filled(r, pc, n, value)
  PROVE  s \in OpenTask /\ s.pc = pc /\ s.name = n /\ s.replace = r.replace
<1>1. PICK s1 : s1 = [r EXCEPT !.pc = pc]
  OBVIOUS
<1>2. PICK s2 : s2 = [s1 EXCEPT !.name = n]
  OBVIOUS
<1>3. s = [s2 EXCEPT !.password = value]
  BY <1>1, <1>2 DEF Filled
<1>4. s1 \in OpenTask /\ s1.pc = pc /\ s1.replace = r.replace
  BY <1>1, SetPc
<1>5. s2 \in OpenTask /\ s2.pc = pc /\ s2.name = n /\ s2.replace = r.replace
  BY <1>2, <1>4, SetName
<1>6. s \in OpenTask /\ s.pc = s2.pc /\ s.name = s2.name /\ s.replace = s2.replace
  BY <1>3, <1>5, SetPassword
<1> QED
  BY <1>5, <1>6
-----------------------------------------------------------------------------
(* Accesses to the stores *)

StoreType ==
  /\ keyring \in Passwords
  /\ file \in Passwords
  /\ garbled \in BOOLEAN
  /\ at \in [Task -> {"none", "load", "put", "moved"}]
  /\ data \in [Task -> Passwords]
  /\ behind \in [Task -> SUBSET Name]
  /\ clean \in SUBSET Task
  /\ last \in Passwords
  /\ unclean \in SUBSET Name

LEMMA ZeroIsPassword == 0 \in Password0 /\ Nothing \in Passwords /\ {} \in SUBSET Name
BY DEF Password0, Nothing, Passwords

\* A password for one name more in a table.
LEMMA OneEntry ==
  ASSUME NEW f \in Passwords, NEW n \in Name, NEW value \in Password0,
         NEW g, g = [f EXCEPT ![n] = value]
  PROVE  g \in Passwords /\ g[n] = value /\ \A m \in Name \ {n} : g[m] = f[m]
BY DEF Passwords

-----------------------------------------------------------------------------
(* Dialogs *)

\* Steps with no dialog of their own: none opens and none ends.
LEMMA NoDialogFlag ==
  ASSUME FlagFollowsDialogs, NoDialog, InDialog' = InDialog
  PROVE  FlagFollowsDialogs'
BY DEF FlagFollowsDialogs, NoDialog

\* The dialogs of the tray before and after a step of one handler: of the
\* window, of one that has no dialog, of one that opens and one that ends its.
LEMMA DialogsFrame ==
  ASSUME NEW t \in Task, \A u \in Task \ {t} : task'[u] = task[u], UNCHANGED store,
         \/ InWindow(t)
         \/ task[t].pc \notin Dialog /\ task'[t].pc \notin Dialog
  PROVE  InDialog' = InDialog
BY DEF InDialog, InWindow

LEMMA OpenDialogFlag ==
  ASSUME FlagFollowsDialogs, NEW t \in Task, OpenDialog(t), UNCHANGED store,
         \A u \in Task \ {t} : task'[u] = task[u], task'[t].pc \in Dialog
  PROVE  FlagFollowsDialogs'
<1>1. CASE InWindow(t)
  BY <1>1, DialogsFrame, NoDialogFlag DEF OpenDialog
<1>2. CASE ~InWindow(t)
  <2>1. t \in InDialog'
    BY <1>2 DEF InDialog, InWindow
  <2> QED
    BY <1>2, <2>1 DEF FlagFollowsDialogs, OpenDialog
<1> QED
  BY <1>1, <1>2

LEMMA OpenDialogTypes ==
  ASSUME NEW t \in Task, OpenDialog(t), busy \in BOOLEAN, nested \in BOOLEAN
  PROVE  busy' \in BOOLEAN /\ nested' \in BOOLEAN
BY DEF OpenDialog, NoDialog

LEMMA CloseDialogFlag ==
  ASSUME NEW t \in Task, CloseDialog(t), ~InWindow(t), t \in InDialog,
         InDialog' \subseteq InDialog \ {t}
  PROVE  FlagFollowsDialogs'
<1>1. busy' = FALSE /\ nested' = (Cardinality(InDialog) > 1)
  BY DEF CloseDialog
<1>2. ASSUME InDialog' # {} PROVE Cardinality(InDialog) > 1
  <2>1. PICK u \in InDialog : u # t
    BY <1>2
  <2>2. IsFiniteSet(InDialog) /\ {t, u} \subseteq InDialog
    BY <2>1, TaskAssumption, FS_Subset DEF InDialog
  <2>3. Cardinality({t, u}) = 2
    <3>1. IsFiniteSet({t}) /\ Cardinality({t}) = 1
      BY FS_Singleton
    <3>2. u \notin {t} /\ {t, u} = {t} \cup {u}
      BY <2>1
    <3> QED
      BY <3>1, <3>2, FS_AddElement
  <2>4. Cardinality({t, u}) <= Cardinality(InDialog) /\ Cardinality(InDialog) \in Nat
    BY <2>2, FS_Subset, FS_CardinalityType
  <2> QED
    BY <2>3, <2>4
<1> QED
  BY <1>1, <1>2 DEF FlagFollowsDialogs

LEMMA DialogEnds ==
  ASSUME FlagFollowsDialogs, NEW t \in Task, CloseDialog(t), UNCHANGED store,
         \A u \in Task \ {t} : task'[u] = task[u],
         task[t].pc \in Dialog, task'[t].pc \notin Dialog
  PROVE  FlagFollowsDialogs'
<1>1. CASE InWindow(t)
  BY <1>1, DialogsFrame, NoDialogFlag DEF CloseDialog
<1>2. CASE ~InWindow(t)
  <2>1. t \in InDialog /\ InDialog' \subseteq InDialog \ {t}
    BY <1>2 DEF InDialog, InWindow
  <2> QED
    BY <1>2, <2>1, CloseDialogFlag
<1> QED
  BY <1>1, <1>2

-----------------------------------------------------------------------------
(* Secrets *)

AllWriteForProfile == \A t \in Task : WritesForProfile(t)
AllClean == \A n \in Name : CleanOrCleaned(n)
AllNamed == \A t \in Task : Named(t)
Writing == {"read", "prompt", "write", "drop", "store"}

\* Steps that touch no store, where nobody stops to clean up, and names that
\* leave the file are to be cleaned or known as unsettled.
LEMMA CleanFrame ==
  ASSUME AllClean, UNCHANGED <<keyring, file, garbled, unclean>>,
         NEW t \in Task, \A u \in Task \ {t} : task'[u] = task[u],
         task[t].pc \notin {"drop", "forget"},
         \A n \in Name : n \in configs \cup unsettled =>
           n \in configs' \cup unsettled' \/ Cleans(t, n)'
  PROVE  AllClean'
<1> SUFFICES ASSUME NEW n \in Name PROVE CleanOrCleaned(n)'
  BY DEF AllClean
<1>1. \A u \in Task : Cleans(u, n) => Cleans(u, n)'
  BY DEF Cleans
<1>2. CleanOrCleaned(n)
  BY DEF AllClean
<1>3. CASE n \in configs \cup unsettled
  BY <1>3 DEF CleanOrCleaned
<1>4. CASE n \notin configs \cup unsettled
  BY <1>1, <1>2, <1>4 DEF CleanOrCleaned, InFile
<1> QED
  BY <1>3, <1>4

LEMMA WritesFrame ==
  ASSUME AllWriteForProfile, NEW t \in Task, \A u \in Task \ {t} : task'[u] = task[u],
         configs \cup unsettled \subseteq configs' \cup unsettled',
         WritesForProfile(t)'
  PROVE  AllWriteForProfile'
BY DEF AllWriteForProfile, WritesForProfile

LEMMA NamedFrame ==
  ASSUME AllNamed, NEW t \in Task, \A u \in Task \ {t} : task'[u] = task[u], Named(t)'
  PROVE  AllNamed'
BY DEF AllNamed, Named, Renames

-----------------------------------------------------------------------------
(* Steps that touch no store *)

LEMMA InvParts ==
  ASSUME DesktopInv
  PROVE  /\ TypeOK /\ TaskType /\ StoreType /\ store \in Stores
         /\ AllWriteForProfile /\ AllClean /\ AllNamed
         /\ StoreInv /\ FlagFollowsDialogs
BY DEF DesktopInv, TypeOK, TaskType, StoreType, AllWriteForProfile, AllClean, AllNamed

LEMMA AccessAtStores ==
  ASSUME DesktopInv, NEW t \in Task, task[t].pc \notin Storing
  PROVE  at[t] = "none"
BY DEF DesktopInv, StoreInv, AccessInv

\* The types a step of the handlers can disturb.
SmallTypes ==
  /\ configs \in SUBSET Name
  /\ shown \in SUBSET Name
  /\ busy \in BOOLEAN
  /\ unsettled \in SUBSET Name
  /\ nested \in BOOLEAN
  /\ faults \in 0..MaxFaults

\* Steps that leave the stores and the accesses under way alone.
LEMMA StoresKept ==
  ASSUME DesktopInv, UNCHANGED <<store, storeVars>>, TaskType', SmallTypes',
         \A u \in Task : at[u] # "none" => task'[u] = task[u]
  PROVE  TypeOK' /\ StoreInv'
<1>1. UNCHANGED <<store, keyring, file, garbled, at, data, behind, clean, last, unclean>>
  BY DEF storeVars, accessVars
<1>2. TypeOK'
  BY <1>1 DEF DesktopInv, TypeOK, TaskType, SmallTypes
<1>4. \A u \in Task : at[u] # "none" => Subject(u)' = Subject(u) /\ Value(u)' = Value(u)
  BY DEF Subject, Value
<1>5. StoreInv
  BY DEF DesktopInv
<1>6. \A u \in Task : UsesKeyring(u)' = UsesKeyring(u) /\ InWindow(u)' = InWindow(u)
  BY <1>1 DEF UsesKeyring, InWindow
<1>7. ASSUME NEW u \in Task, at[u] # "none" PROVE AccessInv(u)'
  <2>1. AccessInv(u)
    BY <1>5 DEF StoreInv
  <2>2. Company(u)' = Company(u)
    BY <1>1, <1>4, <1>7 DEF Company
  <2> QED
    BY <1>1, <1>4, <1>6, <1>7, <2>1, <2>2 DEF AccessInv
<1>8. \A u \in Task : AccessInv(u)'
  BY <1>1, <1>7 DEF AccessInv
<1>9. OneAtATime'
  BY <1>1, <1>5, <1>6 DEF StoreInv, OneAtATime, Apart
<1>10. UnusedIsEmpty'
  BY <1>1, <1>5 DEF StoreInv, UnusedIsEmpty
<1>11. LastWrittenIsRead'
  BY <1>1, <1>4, <1>5, <1>6 DEF StoreInv, LastWrittenIsRead, Lookup, Held
<1> QED
  BY <1>2, <1>8, <1>9, <1>10, <1>11 DEF StoreInv

LEMMA PlainStep ==
  ASSUME DesktopInv, UNCHANGED <<store, storeVars>>, NEW t \in Task, TaskType',
         \A u \in Task \ {t} : task'[u] = task[u],
         task[t].pc \notin Storing,
         SmallTypes', configs \subseteq configs', unsettled \subseteq unsettled',
         WritesForProfile(t)', Named(t)', FlagFollowsDialogs'
  PROVE  DesktopInv'
<1>1. TypeOK' /\ StoreInv'
  <2>1. \A u \in Task : at[u] # "none" => task'[u] = task[u]
    BY AccessAtStores
  <2> QED
    BY <2>1, StoresKept
<1>2. AllWriteForProfile'
  BY InvParts, WritesFrame
<1>3. AllClean'
  <2>1. UNCHANGED <<keyring, file, garbled, unclean>>
    BY DEF storeVars
  <2>2. \A n \in Name :
          n \in configs \cup unsettled => n \in configs' \cup unsettled' \/ Cleans(t, n)'
    OBVIOUS
  <2> QED
    BY <2>1, <2>2, InvParts, CleanFrame DEF Storing
<1>4. AllNamed'
  BY InvParts, NamedFrame
<1> QED
  BY <1>1, <1>2, <1>3, <1>4 DEF DesktopInv, AllWriteForProfile, AllClean, AllNamed

LEMMA SmallTypesNow == ASSUME DesktopInv PROVE SmallTypes
BY DEF DesktopInv, TypeOK, SmallTypes

\* A handler that ends writes nothing any more.
LEMMA IdleWritesNothing ==
  ASSUME NEW t \in Task, task'[t] = Idle
  PROVE  WritesForProfile(t)' /\ Named(t)' /\ task'[t].pc \notin Dialog
BY DEF Idle, WritesForProfile, Named, Place, Dialog, Storing

LEMMA ClickInv ==
  ASSUME DesktopInv, NEW t \in Task, NEW n \in Name,
         ClickConnect(t, n) \/ ClickEdit(t, n) \/ ClickDelete(t, n)
  PROVE  DesktopInv'
<1>1. task[t] = Idle
  BY DEF ClickConnect, ClickEdit, ClickDelete, Click
<1>2. SmallTypes /\ TaskType
  BY InvParts, SmallTypesNow
<1>3. task[t].pc \notin Storing /\ task[t].pc \notin Dialog
  BY <1>1 DEF Idle, Dialog, Storing
<1>4. CASE ClickConnect(t, n)
  <2>1. Handler("read", "connect", n) \in OpenTask
    BY HandlerType
  <2>2. /\ TaskType' /\ task'[t] = Handler("read", "connect", n)
        /\ \A u \in Task \ {t} : task'[u] = task[u]
    BY <1>2, <1>4, <2>1, SetTaskEffect DEF ClickConnect
  <2>3. unsettled' = IF n \in configs THEN unsettled ELSE unsettled \cup {n}
    BY <1>4 DEF ClickConnect
  <2>4. UNCHANGED <<store, storeVars, configs, shown, busy, nested, faults>>
    BY <1>4 DEF ClickConnect
  <2>5. SmallTypes'
    BY <1>2, <2>3, <2>4 DEF SmallTypes
  <2>6. task'[t].pc = "read" /\ task'[t].name = n
    BY <2>2 DEF Handler
  <2>7. WritesForProfile(t)'
    BY <2>3, <2>4, <2>6 DEF WritesForProfile
  <2>8. Named(t)'
    BY <2>6, DesktopNamesAssumption DEF Named, NoName
  <2>9. FlagFollowsDialogs'
    <3>1. InDialog' = InDialog
      BY <1>3, <2>2, <2>4, <2>6, DialogsFrame DEF Dialog
    <3> QED
      BY <2>4, <3>1, InvParts, NoDialogFlag DEF NoDialog
  <2> QED
    BY <1>3, <2>2, <2>3, <2>4, <2>5, <2>7, <2>8, <2>9, PlainStep
<1>5. ASSUME NEW record \in OpenTask, SetTask(t, record), record.pc \in {"form", "confirm"},
             record.name # NoName,
             OpenDialog(t), UNCHANGED <<store, storeVars, configs, shown, unsettled, faults>>
      PROVE  DesktopInv'
  <2>1. /\ TaskType' /\ task'[t] = record
        /\ \A u \in Task \ {t} : task'[u] = task[u]
    BY <1>2, <1>5, SetTaskEffect
  <2>2. SmallTypes'
    BY <1>2, <1>5, OpenDialogTypes DEF SmallTypes
  <2>3. WritesForProfile(t)' /\ Named(t)'
    BY <1>5, <2>1 DEF WritesForProfile, Named
  <2>4. task'[t].pc \in Dialog
    BY <1>5, <2>1 DEF Dialog
  <2>5. FlagFollowsDialogs'
    BY <1>5, <2>1, <2>4, InvParts, OpenDialogFlag
  <2> QED
    BY <1>3, <1>5, <2>1, <2>2, <2>3, <2>5, PlainStep
<1>6. CASE ClickEdit(t, n)
  <2>1. PICK h : h = Handler("form", "edit", n)
    OBVIOUS
  <2>2. PICK r : r = [h EXCEPT !.replace = n]
    OBVIOUS
  <2>4. h \in OpenTask /\ h.pc = "form" /\ h.name = n
    BY <2>1, HandlerType
  <2>3. r \in OpenTask /\ r.pc = "form" /\ r.name # NoName
    BY <2>2, <2>4, NameIsNoName, SetReplace
  <2> QED
    BY <1>5, <1>6, <2>1, <2>2, <2>3 DEF ClickEdit
<1>7. CASE ClickDelete(t, n)
  <2>1. PICK h : h = Handler("confirm", "delete", n)
    OBVIOUS
  <2>2. h \in OpenTask /\ h.pc = "confirm" /\ h.name # NoName
    BY <2>1, HandlerType, NameIsNoName
  <2> QED
    BY <1>5, <1>7, <2>1, <2>2 DEF ClickDelete
<1> QED
  BY <1>4, <1>6, <1>7

LEMMA ClickAddInv ==
  ASSUME DesktopInv, NEW t \in Task, ClickAdd(t)
  PROVE  DesktopInv'
<1>1. PICK h \in OpenTask : h = Handler("form", "edit", NoName) /\ h.pc = "form"
  <2>1. PICK h : h = Handler("form", "edit", NoName)
    OBVIOUS
  <2>2. NoName \in Name \cup {NoName}
    OBVIOUS
  <2>3. h \in OpenTask /\ h.pc = "form"
    BY <2>1, <2>2, HandlerType
  <2> QED
    BY <2>1, <2>3
<1>2. /\ TaskType' /\ task'[t] = h
      /\ \A u \in Task \ {t} : task'[u] = task[u]
  BY <1>1, InvParts, SetTaskEffect DEF ClickAdd
<1>3. UNCHANGED <<store, storeVars, configs, shown, unsettled, faults>> /\ OpenDialog(t)
  BY DEF ClickAdd
<1>4. SmallTypes'
  BY <1>3, SmallTypesNow, OpenDialogTypes DEF SmallTypes
<1>5. WritesForProfile(t)' /\ Named(t)'
  BY <1>1, <1>2 DEF WritesForProfile, Named
<1>6. task'[t].pc \in Dialog
  BY <1>1, <1>2 DEF Dialog
<1>7. FlagFollowsDialogs'
  BY <1>2, <1>3, <1>6, InvParts, OpenDialogFlag
<1>8. task[t].pc \notin Storing
  BY DEF ClickAdd, Idle, Storing
<1> QED
  BY <1>2, <1>3, <1>4, <1>5, <1>7, <1>8, PlainStep

LEMMA ReadFaults ==
  ASSUME DesktopInv, NEW t, NEW n, NEW value, Read(t, n, value)
  PROVE  faults' \in 0..MaxFaults
BY InvParts, FaultCounts DEF Read

LEMMA ConnectReadInv ==
  ASSUME DesktopInv, NEW t \in Task, ConnectRead(t)
  PROVE  DesktopInv'
<1>1. /\ task[t].pc = "read" /\ TaskType /\ SmallTypes
      /\ UNCHANGED <<store, storeVars, configs, shown, unsettled>>
  BY InvParts, SmallTypesNow DEF ConnectRead
<1>2. faults' \in 0..MaxFaults
  BY ReadFaults DEF ConnectRead
<1>3. task[t].pc \notin Storing /\ task[t].pc \notin Dialog /\ task[t].pc # "idle"
  BY <1>1 DEF Dialog, Storing
<1>4. CASE End(t) /\ NoDialog
  <2>1. /\ TaskType' /\ task'[t] = Idle
        /\ \A u \in Task \ {t} : task'[u] = task[u]
    BY <1>1, <1>4, EndEffect
  <2>2. SmallTypes'
    BY <1>1, <1>2, <1>4 DEF SmallTypes, NoDialog
  <2>3. WritesForProfile(t)' /\ Named(t)' /\ task'[t].pc \notin Dialog
    BY <2>1, IdleWritesNothing
  <2>4. FlagFollowsDialogs'
    BY <1>1, <1>3, <1>4, <2>1, <2>3, DialogsFrame, InvParts, NoDialogFlag
  <2> QED
    BY <1>1, <1>3, <2>1, <2>2, <2>3, <2>4, PlainStep
<1>5. CASE Go(t, "prompt") /\ OpenDialog(t)
  <2>1. /\ TaskType' /\ task'[t].pc = "prompt" /\ task'[t].name = task[t].name
        /\ \A u \in Task \ {t} : task'[u] = task[u]
    BY <1>1, <1>3, <1>5, GoEffect DEF Place, Dialog
  <2>2. SmallTypes'
    BY <1>1, <1>2, <1>5, OpenDialogTypes DEF SmallTypes
  <2>3. WritesForProfile(t)' /\ Named(t)'
    BY <1>1, <2>1, InvParts DEF AllWriteForProfile, WritesForProfile, AllNamed, Named, Place
  <2>4. task'[t].pc \in Dialog
    BY <2>1 DEF Dialog
  <2>5. FlagFollowsDialogs'
    BY <1>1, <1>5, <2>1, <2>4, InvParts, OpenDialogFlag
  <2> QED
    BY <1>1, <1>3, <2>1, <2>2, <2>3, <2>5, PlainStep
<1> QED
  BY <1>4, <1>5 DEF ConnectRead

\* A dialog that ends: the handler goes on or is done.
LEMMA DialogDone ==
  ASSUME DesktopInv, NEW t \in Task, task[t].pc \in Dialog, CloseDialog(t),
         UNCHANGED <<store, storeVars, configs, shown, unsettled, faults>>,
         TaskType', \A u \in Task \ {t} : task'[u] = task[u],
         task'[t].pc \notin Dialog, WritesForProfile(t)', Named(t)'
  PROVE  DesktopInv'
<1>1. SmallTypes'
  <2>1. PICK b \in BOOLEAN : b <=> Cardinality(InDialog) > 1
    OBVIOUS
  <2>2. b = (Cardinality(InDialog) > 1)
    BY <2>1
  <2>3. busy' \in BOOLEAN /\ nested' \in BOOLEAN
    BY <2>2, SmallTypesNow DEF SmallTypes, CloseDialog, NoDialog
  <2> QED
    BY <2>3, SmallTypesNow DEF SmallTypes
<1>2. FlagFollowsDialogs'
  BY InvParts, DialogEnds
<1>3. task[t].pc \notin Storing
  BY DEF Dialog, Storing
<1> QED
  BY <1>1, <1>2, <1>3, PlainStep

LEMMA DialogInv ==
  ASSUME DesktopInv, NEW t \in Task, Prompt(t) \/ Form(t) \/ Confirm(t)
  PROVE  DesktopInv'
<1>1. /\ task[t].pc \in Dialog /\ task[t].pc # "idle" /\ TaskType
      /\ UNCHANGED <<store, storeVars, configs, shown, unsettled, faults>>
      /\ CloseDialog(t)
  BY InvParts DEF Prompt, Form, Confirm, Dialog
<1>2. task[t] \in OpenTask
  BY <1>1, OpenIsTask
<1>3. CASE End(t)
  <2>1. /\ TaskType' /\ task'[t] = Idle
        /\ \A u \in Task \ {t} : task'[u] = task[u]
    BY <1>1, <1>3, EndEffect
  <2> QED
    BY <1>1, <2>1, IdleWritesNothing, DialogDone
<1>4. CASE Prompt(t) /\ ~End(t)
  <2>1. PICK typed \in Password0 :
          SetTask(t, [task[t] EXCEPT !.pc = "write", !.password = typed])
    BY <1>4 DEF Prompt
  <2>2. PICK r : r = With(task[t], "write", typed)
    OBVIOUS
  <2>3. r \in OpenTask /\ r.pc = "write" /\ r.name = task[t].name
    <3>1. "write" \in Place
      BY DEF Place, Storing
    <3> QED
      BY <1>2, <2>2, <3>1, WithType
  <2>6. /\ TaskType' /\ task'[t] = r
        /\ \A u \in Task \ {t} : task'[u] = task[u]
    <3>1. SetTask(t, r)
      BY <2>1, <2>2 DEF With
    <3> QED
      BY <1>1, <2>3, <3>1, SetTaskEffect
  <2>4. WritesForProfile(t)' /\ Named(t)'
    <3>1. task[t].pc = "prompt"
      BY <1>4 DEF Prompt
    <3>2. task[t].name \in configs \cup unsettled /\ task[t].name # NoName
      BY <3>1, InvParts DEF AllWriteForProfile, WritesForProfile, AllNamed, Named, Place, Dialog
    <3> QED
      BY <1>1, <2>3, <2>6, <3>2 DEF WritesForProfile, Named
  <2>5. task'[t].pc \notin Dialog
    BY <2>3, <2>6 DEF Dialog
  <2> QED
    BY <1>1, <2>4, <2>5, <2>6, DialogDone
<1>5. CASE Form(t) /\ ~End(t)
  <2>1. PICK n \in Name, typed \in Password0, pc \in {"keep", "save"} :
          SetTask(t, [task[t] EXCEPT !.pc = pc, !.name = n, !.password = typed])
    BY <1>5 DEF Form
  <2>2. PICK r : r = Filled(task[t], pc, n, typed)
    OBVIOUS
  <2>6. r \in OpenTask /\ r.pc = pc /\ r.name = n
    <3>1. pc \in Place
      BY DEF Place
    <3> QED
      BY <1>2, <2>2, <3>1, FilledType
  <2>5. /\ TaskType' /\ task'[t] = r
        /\ \A u \in Task \ {t} : task'[u] = task[u]
    <3>1. SetTask(t, r)
      BY <2>1, <2>2 DEF Filled
    <3> QED
      BY <1>1, <2>6, <3>1, SetTaskEffect
  <2>7. WritesForProfile(t)' /\ Named(t)' /\ task'[t].pc \notin Dialog
    BY <2>5, <2>6, DesktopNamesAssumption DEF WritesForProfile, Named, NoName, Dialog
  <2> QED
    BY <1>1, <2>5, <2>7, DialogDone
<1>6. CASE Confirm(t) /\ ~End(t)
  <2>1. Go(t, "remove")
    BY <1>6 DEF Confirm
  <2>2. /\ TaskType' /\ task'[t].pc = "remove" /\ task'[t].name = task[t].name
        /\ \A u \in Task \ {t} : task'[u] = task[u]
    BY <1>1, <2>1, GoEffect DEF Place
  <2>4. task[t].name # NoName
    <3>1. task[t].pc = "confirm"
      BY <1>6 DEF Confirm
    <3> QED
      BY <3>1, InvParts DEF AllNamed, Named, Place, Dialog
  <2>3. WritesForProfile(t)' /\ Named(t)' /\ task'[t].pc \notin Dialog
    BY <2>2, <2>4 DEF WritesForProfile, Named, Dialog
  <2> QED
    BY <1>1, <2>2, <2>3, DialogDone
<1> QED
  BY <1>3, <1>4, <1>5, <1>6

LEMMA InnerPromptInv ==
  ASSUME DesktopInv, NEW t \in Task, InnerPrompt(t)
  PROVE  DesktopInv'
<1>1. /\ task[t].pc = "form" /\ busy' = FALSE /\ nested' = TRUE
      /\ UNCHANGED <<store, storeVars, configs, shown, task, unsettled, faults>>
  BY DEF InnerPrompt
<1>2. SmallTypes' /\ TaskType'
  BY <1>1, SmallTypesNow, InvParts DEF SmallTypes, TaskType
<1>3. FlagFollowsDialogs'
  BY <1>1 DEF FlagFollowsDialogs
<1>4. WritesForProfile(t)' /\ Named(t)'
  BY <1>1 DEF WritesForProfile, Named
<1> QED
  BY <1>1, <1>2, <1>3, <1>4, PlainStep DEF Storing

LEMMA KeepInv ==
  ASSUME DesktopInv, NEW t \in Task, Keep(t)
  PROVE  DesktopInv'
<1>1. PICK value \in Password0 :
        /\ Read(t, Kept(t), value)
        /\ SetTask(t, [task[t] EXCEPT !.pc = "save", !.password = value])
  BY DEF Keep
<1>2. /\ task[t].pc = "keep" /\ task[t].pc \notin Dialog
      /\ UNCHANGED <<store, storeVars, configs, shown, busy, unsettled, nested>>
  BY DEF Keep, Dialog
<1>3. task[t] \in OpenTask
  BY <1>2, OpenIsTask, InvParts
<1>4. PICK r : r = With(task[t], "save", value)
  OBVIOUS
<1>9. r \in OpenTask /\ r.pc = "save" /\ r.name = task[t].name
  <2>1. "save" \in Place
    BY DEF Place
  <2> QED
    BY <1>3, <1>4, <2>1, WithType
<1>5. /\ TaskType' /\ task'[t] = r
      /\ \A u \in Task \ {t} : task'[u] = task[u]
  <2>1. SetTask(t, r)
    BY <1>1, <1>4 DEF With
  <2> QED
    BY <1>9, <2>1, InvParts, SetTaskEffect
<1>6. SmallTypes'
  BY <1>1, <1>2, ReadFaults, SmallTypesNow DEF SmallTypes
<1>7. WritesForProfile(t)' /\ Named(t)' /\ task'[t].pc \notin Dialog
  <2>1. task[t].name # NoName
    BY <1>2, InvParts DEF AllNamed, Named, Place, Dialog
  <2> QED
    BY <1>5, <1>9, <2>1 DEF WritesForProfile, Named, Dialog
<1>8. FlagFollowsDialogs'
  BY <1>2, <1>5, <1>7, DialogsFrame, InvParts, NoDialogFlag DEF NoDialog
<1> QED
  BY <1>2, <1>5, <1>6, <1>7, <1>8, PlainStep DEF Storing

LEMMA HideInv ==
  ASSUME DesktopInv, NEW t \in Task, Hide(t)
  PROVE  DesktopInv'
<1>1. /\ task[t].pc = "hide" /\ task[t].pc \notin Dialog
      /\ UNCHANGED <<store, storeVars, configs, busy, unsettled, nested, faults>>
  BY DEF Hide, Dialog
<1>2. /\ TaskType' /\ task'[t] = Idle
      /\ \A u \in Task \ {t} : task'[u] = task[u]
  BY InvParts, EndEffect DEF Hide
<1>3. SmallTypes'
  BY <1>1, SmallTypesNow DEF SmallTypes, Hide
<1>4. WritesForProfile(t)' /\ Named(t)' /\ task'[t].pc \notin Dialog
  BY <1>2, IdleWritesNothing
<1>5. FlagFollowsDialogs'
  BY <1>1, <1>2, <1>4, DialogsFrame, InvParts, NoDialogFlag DEF NoDialog
<1> QED
  BY <1>1, <1>2, <1>3, <1>4, <1>5, PlainStep DEF Storing

LEMMA TickInv ==
  ASSUME DesktopInv, Tick
  PROVE  DesktopInv'
<1>1. /\ UNCHANGED <<store, storeVars, configs, busy, task, unsettled, nested, faults>>
      /\ shown' = configs
  BY DEF Tick
<1>2. SmallTypes' /\ TaskType'
  BY <1>1, SmallTypesNow, InvParts DEF SmallTypes, TaskType
<1>3. TypeOK' /\ StoreInv'
  BY <1>1, <1>2, StoresKept
<1>4. \A t \in Task : WritesForProfile(t)'
  BY <1>1 DEF DesktopInv, WritesForProfile
<1>5. \A n \in Name : CleanOrCleaned(n)'
  BY <1>1 DEF DesktopInv, CleanOrCleaned, Cleans, InFile, storeVars
<1>6. FlagFollowsDialogs'
  BY <1>1 DEF DesktopInv, FlagFollowsDialogs, InDialog, InWindow
<1>7. \A t \in Task : Named(t)'
  BY <1>1 DEF DesktopInv, Named, Renames
<1> QED
  BY <1>3, <1>4, <1>5, <1>6, <1>7 DEF DesktopInv

-----------------------------------------------------------------------------
(* Steps of the accesses to the stores *)

LEMMA NameOfWriter ==
  ASSUME DesktopInv, NEW t \in Task, task[t].pc \in Writing
  PROVE  task[t].name \in configs \cup unsettled /\ task[t].name \in Name
<1>1. task[t].name \in configs \cup unsettled
  BY InvParts DEF AllWriteForProfile, WritesForProfile, Writing
<1> QED
  BY <1>1, SmallTypesNow DEF SmallTypes

LEMMA NameOfHandler ==
  ASSUME DesktopInv, NEW t \in Task, task[t].pc \in Place \ {"form"}
  PROVE  task[t] \in OpenTask /\ task[t].name \in Name
<1>1. task[t] \in OpenTask
  BY InvParts, OpenIsTask, IdleIsNoPlace
<1>2. task[t].name # NoName
  BY InvParts DEF AllNamed, Named
<1> QED
  BY <1>1, <1>2 DEF OpenTask

\* What an access is about, and the password it leaves.
LEMMA SubjectType ==
  ASSUME DesktopInv, NEW t \in Task, task[t].pc \in Storing
  PROVE  /\ Subject(t) \in Name /\ Value(t) \in Password0
         /\ task[t].pc \in {"drop", "forget"} => Value(t) = 0
         /\ task[t].pc \in {"write", "store"} => Subject(t) \in configs \cup unsettled
<1>1. task[t] \in OpenTask /\ task[t].name \in Name
  BY NameOfHandler DEF Place, Storing, Dialog
<1>2. task[t].pc = "drop" => task[t].replace \in Name
  BY <1>1, InvParts DEF AllNamed, Named, Renames, OpenTask
<1>3. task[t].pc \in {"write", "store"} => task[t].name \in configs \cup unsettled
  BY NameOfWriter DEF Writing
<1>4. task[t].password \in Password0 /\ 0 \in Password0
  BY <1>1, ZeroIsPassword DEF OpenTask
<1> QED
  BY <1>1, <1>2, <1>3, <1>4 DEF Subject, Value, Storing

\* Cleaning is what the accesses that delete are for.
LEMMA CleansItsSubject ==
  ASSUME NEW t \in Task, NEW n, Cleans(t, n)
  PROVE  Subject(t) = n /\ task[t].pc \in {"drop", "forget"}
BY DEF Cleans, Subject

\* The handler after an access that has ended.
LEMMA ProceedEffect ==
  ASSUME DesktopInv, NEW t \in Task, task[t].pc \in Storing, Proceed(t),
         UNCHANGED <<configs, unsettled>>
  PROVE  /\ TaskType' /\ \A u \in Task \ {t} : task'[u] = task[u]
         /\ task'[t].pc \notin Dialog /\ WritesForProfile(t)' /\ Named(t)'
         /\ shown' \in SUBSET Name
<1>1. task[t].pc # "idle" /\ TaskType
  BY InvParts DEF Storing
<1>2. shown' \in SUBSET Name
  BY SmallTypesNow DEF SmallTypes, Proceed, RefreshMenus
<1>3. CASE End(t)
  BY <1>1, <1>2, <1>3, EndEffect, IdleWritesNothing
<1>4. CASE task[t].pc = "drop" /\ Go(t, "store")
  <2>1. /\ TaskType' /\ task'[t].pc = "store" /\ task'[t].name = task[t].name
        /\ \A u \in Task \ {t} : task'[u] = task[u]
    BY <1>1, <1>4, GoEffect DEF Place, Storing
  <2>2. task[t].name \in configs \cup unsettled /\ task[t].name # NoName
    BY <1>4, NameOfWriter, NameIsNoName DEF Writing
  <2> QED
    BY <1>2, <2>1, <2>2 DEF WritesForProfile, Named, Dialog
<1>5. CASE task[t].pc = "forget" /\ Go(t, "hide")
  <2>1. /\ TaskType' /\ task'[t].pc = "hide" /\ task'[t].name = task[t].name
        /\ \A u \in Task \ {t} : task'[u] = task[u]
    BY <1>1, <1>5, GoEffect DEF Place
  <2>2. task[t].name # NoName
    BY <1>5, NameOfHandler, NameIsNoName DEF Place, Storing
  <2> QED
    BY <1>2, <2>1, <2>2 DEF WritesForProfile, Named, Dialog
<1> QED
  BY <1>3, <1>4, <1>5 DEF Proceed, Storing

\* An access that goes on to its next step.
LEMMA ContinueInv ==
  ASSUME DesktopInv, NEW t \in Task, task[t].pc \in Storing, store # "windows",
         NEW s \in Name, s = Subject(t), NEW v \in Password0, v = Value(t),
         NEW place \in {"load", "put"}, NEW ok \in BOOLEAN, Continue(t, place, ok),
         UNCHANGED <<store, file, garbled, behind, configs, busy, unsettled, nested>>,
         faults' \in 0..MaxFaults, keyring' \in Passwords,
         \A m \in Name \ {s} : keyring'[m] = keyring[m],
         store = "file" => UNCHANGED keyring,
         ok /\ GoesWell(t) /\ UsesKeyring(t) => keyring'[s] \in {0, v},
         \/ place = "load" /\ UNCHANGED data
         \/ /\ place = "put" /\ data' = [data EXCEPT ![t] = file]
            /\ ~garbled /\ (InWindow(t) \/ MutexFree(t))
  PROVE  DesktopInv'
<1>1. /\ at' = [at EXCEPT ![t] = place]
      /\ clean' = IF ok /\ GoesWell(t) THEN clean \cup {t} ELSE clean \ (Company(t) \cup {t})
      /\ UNCHANGED <<task, shown, last, unclean>>
  BY DEF Continue
<1>2. StoreType /\ StoreInv /\ SmallTypes
  BY InvParts, SmallTypesNow
<1>3. at'[t] = place /\ \A u \in Task \ {t} : at'[u] = at[u] /\ data'[u] = data[u]
  BY <1>1, <1>2 DEF StoreType
<1>4. TypeOK'
  <2>1. at' \in [Task -> {"none", "load", "put", "moved"}] /\ clean' \in SUBSET Task
    BY <1>1, <1>2 DEF StoreType
  <2>2. data' \in [Task -> Passwords]
    BY <1>2 DEF StoreType
  <2> QED
    BY <1>1, <2>1, <2>2 DEF DesktopInv, TypeOK
<1>5. \A u \in Task : /\ Subject(u)' = Subject(u) /\ Value(u)' = Value(u)
                      /\ UsesKeyring(u)' = UsesKeyring(u) /\ InWindow(u)' = InWindow(u)
  BY <1>1 DEF Subject, Value, UsesKeyring, InWindow
<1>6. \A m \in Name : Held(m)' = Held(m) /\ InFile(m)' = InFile(m)
  BY DEF Held, InFile
<1>7. AccessInv(t)'
  <2>1. Company(t)' = Company(t)
    BY <1>3, <1>5 DEF Company
  <2>2. t \in clean' => ok /\ GoesWell(t)
    BY <1>1
  <2>3. place = "put" => data'[t] = file /\ ~garbled
    BY <1>2 DEF StoreType
  <2> QED
    BY <1>1, <1>3, <1>5, <2>1, <2>2, <2>3 DEF AccessInv, GoesWell
<1>8. ASSUME NEW u \in Task \ {t}, at[u] # "none" PROVE AccessInv(u)'
  <2>1. AccessInv(u)
    BY <1>2 DEF StoreInv
  <2>2. Subject(u) \in Name
    BY <1>8, <2>1, SubjectType DEF AccessInv
  <2>3. ASSUME u \in clean' PROVE u \in clean /\ Subject(u) # s
    BY <1>1, <1>8, <2>3 DEF Company, GoesWell
  <2>4. ASSUME u \in clean' PROVE Company(u)' = {} /\ (UsesKeyring(u) => keyring'[Subject(u)] \in {0, Value(u)})
    <3>1. Company(u) = {} /\ (UsesKeyring(u) => keyring[Subject(u)] \in {0, Value(u)})
      BY <1>8, <2>1, <2>3, <2>4 DEF AccessInv
    <3>2. Company(u)' \subseteq Company(u)
      BY <1>3, <1>5, <2>3, <2>4 DEF Company
    <3> QED
      BY <2>2, <2>3, <2>4, <3>1, <3>2
  <2> QED
    BY <1>1, <1>3, <1>5, <1>8, <2>1, <2>4 DEF AccessInv
<1>9. \A u \in Task : AccessInv(u)'
  BY <1>3, <1>7, <1>8 DEF AccessInv
<1>10. OneAtATime'
  <2> SUFFICES ASSUME NEW u \in Task, NEW w \in Task, u # w,
                      at'[u] \in {"put", "moved"}, at'[w] \in {"put", "moved"}
               PROVE  InWindow(u) # InWindow(w)
    BY <1>5 DEF OneAtATime, Apart
  <2>1. ASSUME NEW x \in Task \ {t}, at[x] \in {"put", "moved"}, place = "put"
        PROVE  InWindow(x) # InWindow(t)
    BY <2>1 DEF MutexFree, InWindow
  <2>2. CASE u # t /\ w # t
    BY <1>2, <1>3, <2>2 DEF StoreInv, OneAtATime, Apart
  <2> QED
    BY <1>3, <2>1, <2>2
<1>11. UnusedIsEmpty'
  BY <1>2 DEF StoreInv, UnusedIsEmpty
<1>12. LastWrittenIsRead'
  <2> SUFFICES ASSUME NEW n \in Name \ unclean',
                      \A u \in Task : at'[u] = "none" \/ Subject(u)' # n,
                      NEW u \in Task
               PROVE  Lookup(u, n)' = last'[n]
    BY DEF LastWrittenIsRead
  <2>1. n # s /\ n \notin unclean
    BY <1>1, <1>3, <1>5
  <2>2. \A w \in Task : at[w] = "none" \/ Subject(w) # n
    BY <1>3, <1>5, <2>1
  <2>3. Lookup(u, n) = last[n]
    BY <1>2, <2>1, <2>2 DEF StoreInv, LastWrittenIsRead
  <2> QED
    BY <1>1, <1>5, <1>6, <2>1, <2>3 DEF Lookup
<1>13. ASSUME NEW n \in Name PROVE CleanOrCleaned(n)'
  <2>1. CleanOrCleaned(n) /\ \A u \in Task : Cleans(u, n) => Cleans(u, n)'
    BY <1>1 DEF DesktopInv, Cleans
  <2>2. CASE n # s
    BY <1>1, <1>6, <2>1, <2>2 DEF CleanOrCleaned
  <2>3. CASE n = s /\ task[t].pc \in {"write", "store"}
    BY <2>3, SubjectType DEF CleanOrCleaned
  <2>4. CASE n = s /\ task[t].pc \in {"drop", "forget"}
    <3>1. Cleans(t, n)
      BY <2>4 DEF Cleans, Subject
    <3> QED
      BY <2>1, <3>1 DEF CleanOrCleaned
  <2> QED
    BY <2>2, <2>3, <2>4 DEF Storing
<1>14. FlagFollowsDialogs' /\ AllWriteForProfile' /\ AllNamed'
  BY <1>1, InvParts DEF FlagFollowsDialogs, InDialog, InWindow, AllWriteForProfile,
     WritesForProfile, AllNamed, Named, Renames
<1> QED
  BY <1>4, <1>9, <1>10, <1>11, <1>12, <1>13, <1>14
  DEF DesktopInv, StoreInv, AllWriteForProfile, AllNamed

\* An access that ends: of its own name it knows what it has left, and of the
\* others only those of lost have changed.
LEMMA SettleInv ==
  ASSUME DesktopInv, NEW t \in Task, task[t].pc \in Storing,
         NEW s \in Name, s = Subject(t), NEW v \in Password0, v = Value(t),
         NEW lost \in SUBSET Name, NEW ok \in BOOLEAN, Settle(t, lost, ok),
         UNCHANGED <<store, configs, busy, unsettled, nested>>,
         faults' \in 0..MaxFaults, keyring' \in Passwords, file' \in Passwords,
         garbled' \in BOOLEAN, at' \in [Task -> {"none", "load", "put", "moved"}],
         behind' \in [Task -> SUBSET Name], UnusedIsEmpty',
         \A m \in Name \ {s} : keyring'[m] = keyring[m],
         \A m \in Name \ ({s} \cup lost) : Held(m)' = Held(m) /\ InFile(m)' = InFile(m),
         ok /\ GoesWell(t) =>
           /\ \A u \in Task : Lookup(u, s)' = v
           /\ task[t].pc \in {"drop", "forget"} => keyring'[s] = 0 /\ ~InFile(s)',
         at'[t] = "none",
         \A u \in Task \ {t} : at'[u] = at[u] \/ (at[u] = "put" /\ at'[u] = "moved"),
         \A u \in Task \ {t} : at'[u] = "put" =>
           ~garbled' /\ \A m \in Name \ behind'[u] : data[u][m] = file'[m]
  PROVE  DesktopInv'
<1>1. /\ clean' = clean \ (Company(t) \cup {t})
      /\ data' = [data EXCEPT ![t] = Nothing]
      /\ unclean' = IF ok /\ GoesWell(t) THEN (unclean \cup lost) \ {s}
                    ELSE unclean \cup lost \cup {s}
      /\ last' = [n \in Name |-> IF n \in unclean' THEN 0
                                ELSE IF n = s THEN v ELSE last[n]]
  BY DEF Settle
<1>2. StoreType /\ StoreInv /\ SmallTypes
  BY InvParts, SmallTypesNow
<1>3. /\ TaskType' /\ \A u \in Task \ {t} : task'[u] = task[u]
      /\ task'[t].pc \notin Dialog /\ WritesForProfile(t)' /\ Named(t)'
      /\ shown' \in SUBSET Name
  BY ProceedEffect DEF Settle
<1>4. TypeOK'
  <2>1. unclean' \in SUBSET Name /\ clean' \in SUBSET Task /\ data' \in [Task -> Passwords]
    BY <1>1, <1>2, ZeroIsPassword DEF StoreType
  <2>2. last' \in Passwords
    BY <1>1, <1>2, ZeroIsPassword DEF StoreType, Passwords
  <2> QED
    BY <1>2, <1>3, <2>1, <2>2 DEF DesktopInv, TypeOK, TaskType, SmallTypes
<1>5. \A u \in Task : UsesKeyring(u)' = UsesKeyring(u) /\ InWindow(u)' = InWindow(u)
  BY DEF UsesKeyring, InWindow
<1>6. \A u \in Task \ {t} : Subject(u)' = Subject(u) /\ Value(u)' = Value(u)
  BY <1>3 DEF Subject, Value
<1>7. \A u \in Task : at'[u] # "none" => u # t /\ at[u] # "none"
  OBVIOUS
<1>8. ASSUME NEW u \in Task, at'[u] # "none" PROVE AccessInv(u)'
  <2>1. AccessInv(u) /\ u # t /\ at[u] # "none"
    BY <1>2, <1>7, <1>8 DEF StoreInv
  <2>2. Subject(u) \in Name /\ task[u].pc \in Storing
    BY <2>1, SubjectType DEF AccessInv
  <2>3. ASSUME u \in clean' PROVE u \in clean /\ Subject(u) # s
    BY <1>1, <2>1, <2>3 DEF Company
  <2>4. ASSUME u \in clean' PROVE Company(u)' = {} /\ (UsesKeyring(u) => keyring'[Subject(u)] \in {0, Value(u)})
    <3>1. Company(u) = {} /\ (UsesKeyring(u) => keyring[Subject(u)] \in {0, Value(u)})
      BY <2>1, <2>3, <2>4 DEF AccessInv
    <3>2. Company(u)' \subseteq Company(u)
      BY <1>6, <1>7, <2>1 DEF Company
    <3> QED
      BY <2>2, <2>3, <2>4, <3>1, <3>2
  <2>5. data'[u] = data[u]
    BY <1>1, <1>2, <2>1 DEF StoreType
  <2> QED
    BY <1>3, <1>5, <1>6, <1>8, <2>1, <2>2, <2>4, <2>5 DEF AccessInv
<1>9. \A u \in Task : AccessInv(u)'
  BY <1>8 DEF AccessInv
<1>10. OneAtATime'
  <2>1. \A u \in Task : at'[u] \in {"put", "moved"} => at[u] \in {"put", "moved"}
    OBVIOUS
  <2> QED
    BY <1>2, <1>5, <2>1 DEF StoreInv, OneAtATime, Apart
<1>11. LastWrittenIsRead'
  <2> SUFFICES ASSUME NEW n \in Name, n \notin unclean',
                      \A u \in Task : at'[u] = "none" \/ Subject(u)' # n,
                      NEW u \in Task
               PROVE  Lookup(u, n)' = last'[n]
    BY DEF LastWrittenIsRead
  <2>1. CASE n = s
    BY <1>1, <2>1
  <2>2. CASE n # s
    <3>1. n \notin unclean \cup lost
      BY <1>1, <2>2
    <3>2. \A w \in Task : at[w] = "none" \/ Subject(w) # n
      <4> SUFFICES ASSUME NEW w \in Task \ {t} PROVE at[w] = "none" \/ Subject(w) # n
        BY <2>2
      <4>1. at[w] # "none" => at'[w] # "none"
        OBVIOUS
      <4> QED
        BY <1>6, <4>1
    <3>3. Lookup(u, n) = last[n]
      BY <1>2, <3>1, <3>2 DEF StoreInv, LastWrittenIsRead
    <3>4. keyring'[n] = keyring[n] /\ Held(n)' = Held(n)
      BY <2>2, <3>1
    <3> QED
      BY <1>1, <1>5, <2>2, <3>3, <3>4 DEF Lookup
  <2> QED
    BY <2>1, <2>2
<1>12. ASSUME NEW n \in Name PROVE CleanOrCleaned(n)'
  <2>1. CASE n = s
    <3>1. CASE task[t].pc \in {"write", "store"}
      BY <2>1, <3>1, SubjectType DEF CleanOrCleaned
    <3>2. CASE task[t].pc \in {"drop", "forget"}
      BY <1>1, <2>1, <3>2 DEF CleanOrCleaned
    <3> QED
      BY <3>1, <3>2 DEF Storing
  <2>2. CASE n # s
    <3>1. CleanOrCleaned(n)
      BY DEF DesktopInv
    <3>2. \A u \in Task : Cleans(u, n) => Cleans(u, n)'
      <4> SUFFICES ASSUME NEW u \in Task, Cleans(u, n) PROVE Cleans(u, n)'
        OBVIOUS
      <4>1. u # t
        BY <2>2, CleansItsSubject
      <4> QED
        BY <1>3, <4>1 DEF Cleans
    <3>3. CASE n \in unclean \cup lost
      BY <1>1, <2>2, <3>3 DEF CleanOrCleaned
    <3>4. CASE n \notin unclean \cup lost
      <4>1. keyring'[n] = keyring[n] /\ InFile(n)' = InFile(n)
        BY <2>2, <3>4
      <4> QED
        BY <3>1, <3>2, <3>4, <4>1 DEF CleanOrCleaned
    <3> QED
      BY <3>3, <3>4
  <2> QED
    BY <2>1, <2>2
<1>13. AllWriteForProfile' /\ AllNamed'
  BY <1>3, InvParts, WritesFrame, NamedFrame
<1>14. FlagFollowsDialogs'
  <2>1. task[t].pc \notin Dialog
    BY DEF Dialog, Storing
  <2> QED
    BY <1>3, <2>1, DialogsFrame, InvParts, NoDialogFlag DEF NoDialog
<1> QED
  BY <1>4, <1>9, <1>10, <1>11, <1>12, <1>13, <1>14
  DEF DesktopInv, StoreInv, AllWriteForProfile, AllNamed

LEMMA AccessKeyringInv ==
  ASSUME DesktopInv, NEW t \in Task, AccessKeyring(t)
  PROVE  DesktopInv'
<1>1. /\ task[t].pc \in Storing /\ UsesKeyring(t) /\ at[t] = "none"
      /\ UNCHANGED <<store, file, garbled, behind, configs, busy, unsettled, nested>>
  BY DEF AccessKeyring
<1>2. PICK key \in {keyring[Subject(t)], Value(t)}, failed \in BOOLEAN :
       /\ keyring' = [keyring EXCEPT ![Subject(t)] = key]
       /\ IF failed THEN Fault ELSE key = Value(t) /\ UNCHANGED faults
       /\ IF store = "windows" \/ (~failed /\ KeyringSuffices(t))
          THEN /\ Settle(t, {}, ~failed /\ ~LeavesOlder(t, key))
               /\ UNCHANGED at
          ELSE Continue(t, "load", key \in {0, Value(t)}) /\ UNCHANGED data
  BY DEF AccessKeyring
<1>3. PICK s \in Name, v \in Password0 : s = Subject(t) /\ v = Value(t)
  BY <1>1, SubjectType
<1>4. StoreType /\ StoreInv /\ store \in Stores
  BY InvParts
<1>5. /\ keyring' \in Passwords /\ keyring'[s] = key
      /\ \A m \in Name \ {s} : keyring'[m] = keyring[m]
  <2>1. key \in Password0
    BY <1>2, <1>3, <1>4 DEF StoreType, Passwords
  <2> QED
    BY <1>2, <1>3, <1>4, <2>1 DEF StoreType, Passwords
<1>6. faults' \in 0..MaxFaults
  BY <1>2, InvParts, FaultCounts
<1>7. CASE store = "windows" \/ (~failed /\ KeyringSuffices(t))
  <2>1. PICK ok \in BOOLEAN : ok <=> ~failed /\ ~LeavesOlder(t, key)
    OBVIOUS
  <2>2. ok = (~failed /\ ~LeavesOlder(t, key))
    BY <2>1
  <2>3. Settle(t, {}, ok) /\ UNCHANGED at
    BY <1>2, <1>7, <2>2
  <2>4. UnusedIsEmpty'
    BY <1>1, <1>4 DEF StoreInv, UnusedIsEmpty, UsesKeyring
  <2>5. \A m \in Name : Held(m)' = Held(m) /\ InFile(m)' = InFile(m)
    BY <1>1 DEF Held, InFile
  <2>6. store = "windows" => Held(s) = 0 /\ ~InFile(s)
    BY <1>4 DEF StoreInv, UnusedIsEmpty, Nothing, Held, InFile
  <2>7. ~InFile(s) => Held(s) = 0
    BY DEF InFile, Held
  <2>8. store \in {"hybrid", "windows"}
    BY <1>1, <1>7 DEF UsesKeyring, KeyringSuffices
  <2>9. ASSUME ok
        PROVE  /\ \A u \in Task : Lookup(u, s)' = v
               /\ task[t].pc \in {"drop", "forget"} => keyring'[s] = 0 /\ ~InFile(s)'
    <3>1. keyring'[s] = v
      BY <1>2, <1>3, <1>5, <2>1, <2>9
    <3>2. v = 0 => Held(s)' = 0
      <4>1. store # "windows" /\ v = 0 => ~InFile(s)
        BY <1>2, <1>3, <1>7, <2>1, <2>9 DEF LeavesOlder, KeyringSuffices
      <4> QED
        BY <2>5, <2>6, <2>7, <4>1
    <3>3. \A u \in Task : UsesKeyring(u)'
      BY <1>1, <2>8 DEF UsesKeyring
    <3>4. task[t].pc \in {"drop", "forget"} => v = 0 /\ store = "windows"
      BY <1>1, <1>3, <1>7, SubjectType DEF KeyringSuffices
    <3> QED
      BY <2>5, <2>6, <3>1, <3>2, <3>3, <3>4 DEF Lookup
  <2>10. \A u \in Task \ {t} : at'[u] = "put" =>
           ~garbled' /\ \A m \in Name \ behind'[u] : data[u][m] = file'[m]
    BY <1>1, <1>4, <2>3 DEF StoreInv, AccessInv
  <2>11. file' \in Passwords /\ garbled' \in BOOLEAN /\ behind' \in [Task -> SUBSET Name]
         /\ at' \in [Task -> {"none", "load", "put", "moved"}] /\ {} \in SUBSET Name
    BY <1>1, <1>4, <2>3 DEF StoreType
  <2> QED
    BY <1>1, <1>3, <1>5, <1>6, <2>3, <2>4, <2>5, <2>9, <2>10, <2>11, SettleInv
<1>8. CASE ~(store = "windows" \/ (~failed /\ KeyringSuffices(t)))
  <2>1. PICK ok \in BOOLEAN : ok <=> key \in {0, v}
    OBVIOUS
  <2>2. ok = (key \in {0, Value(t)})
    BY <1>3, <2>1
  <2>3. Continue(t, "load", ok) /\ UNCHANGED data
    BY <1>2, <1>8, <2>2
  <2>4. store = "file" => UNCHANGED keyring
    BY <1>1 DEF UsesKeyring
  <2>5. ok => keyring'[s] \in {0, v}
    BY <1>5, <2>1
  <2> QED
    BY <1>1, <1>3, <1>5, <1>6, <1>8, <2>3, <2>4, <2>5, ContinueInv
<1> QED
  BY <1>7, <1>8

\* An access that ends without having changed a store.
LEMMA FruitlessInv ==
  ASSUME DesktopInv, NEW t \in Task, task[t].pc \in Storing, Settle(t, {}, FALSE),
         at' = [at EXCEPT ![t] = "none"], Fault \/ UNCHANGED faults,
         behind' \in [Task -> SUBSET Name], \A u \in Task \ {t} : behind'[u] = behind[u],
         UNCHANGED <<store, keyring, file, garbled, configs, busy, unsettled, nested>>
  PROVE  DesktopInv'
<1>1. PICK s \in Name, v \in Password0 : s = Subject(t) /\ v = Value(t)
  BY SubjectType
<1>2. StoreType /\ StoreInv
  BY InvParts
<1>3. /\ at' \in [Task -> {"none", "load", "put", "moved"}] /\ at'[t] = "none"
      /\ \A u \in Task \ {t} : at'[u] = at[u]
  BY <1>2 DEF StoreType
<1>4. keyring' \in Passwords /\ file' \in Passwords /\ garbled' \in BOOLEAN
      /\ {} \in SUBSET Name /\ FALSE \in BOOLEAN
  BY <1>2 DEF StoreType
<1>5. UnusedIsEmpty' /\ \A m \in Name : Held(m)' = Held(m) /\ InFile(m)' = InFile(m)
  BY <1>2 DEF StoreInv, UnusedIsEmpty, Held, InFile
<1>6. \A u \in Task \ {t} : at'[u] = "put" =>
        ~garbled' /\ \A m \in Name \ behind'[u] : data[u][m] = file'[m]
  BY <1>2, <1>3 DEF StoreInv, AccessInv
<1>7. faults' \in 0..MaxFaults
  BY InvParts, FaultCounts
<1> QED
  BY <1>1, <1>3, <1>4, <1>5, <1>6, <1>7, SettleInv

LEMMA LoadFileInv ==
  ASSUME DesktopInv, NEW t \in Task, LoadFile(t)
  PROVE  DesktopInv'
<1>1. /\ task[t].pc \in Storing /\ store # "windows"
      /\ at[t] = IF UsesKeyring(t) THEN "load" ELSE "none"
      /\ InWindow(t) \/ MutexFree(t)
      /\ UNCHANGED <<store, keyring, file, garbled, behind, configs, busy, unsettled, nested>>
  BY DEF LoadFile
<1>2. StoreType /\ StoreInv
  BY InvParts
<1>3. CASE /\ ~garbled
           /\ data' = [data EXCEPT ![t] = file]
           /\ Continue(t, "put", TRUE)
           /\ UNCHANGED faults
  <2>1. PICK s \in Name, v \in Password0 : s = Subject(t) /\ v = Value(t)
    BY <1>1, SubjectType
  <2>2. GoesWell(t) /\ UsesKeyring(t) => keyring'[s] \in {0, v}
    <3>1. GoesWell(t) /\ UsesKeyring(t) => t \in clean /\ at[t] # "none"
      BY <1>1 DEF GoesWell
    <3>2. AccessInv(t)
      BY <1>2 DEF StoreInv
    <3> QED
      BY <1>1, <2>1, <3>1, <3>2 DEF AccessInv
  <2>3. keyring' \in Passwords /\ faults' \in 0..MaxFaults
    BY <1>1, <1>2, <1>3, InvParts, FaultCounts DEF StoreType
  <2> QED
    BY <1>1, <1>3, <2>1, <2>2, <2>3, ContinueInv
<1>4. CASE /\ Fault \/ (garbled /\ UNCHANGED faults)
           /\ at' = [at EXCEPT ![t] = "none"]
           /\ Settle(t, {}, FALSE)
  BY <1>1, <1>2, <1>4, FruitlessInv DEF StoreType
<1> QED
  BY <1>3, <1>4 DEF LoadFile

\* Who has come as far as the file.
LEMMA AtTheFile ==
  ASSUME DesktopInv, NEW t \in Task, at[t] \in {"put", "moved"}
  PROVE  /\ task[t].pc \in Storing /\ store # "windows"
         /\ at[t] = "put" => ~garbled /\ \A n \in Name \ behind[t] : data[t][n] = file[n]
         /\ t \in clean /\ UsesKeyring(t) => keyring[Subject(t)] \in {0, Value(t)}
BY DEF DesktopInv, StoreInv, AccessInv

LEMMA PutFileInv ==
  ASSUME DesktopInv, NEW t \in Task, PutFile(t)
  PROVE  DesktopInv'
<1>1. /\ at[t] = "put" /\ at' = [at EXCEPT ![t] = "none"]
      /\ UNCHANGED <<store, keyring, garbled, configs, busy, unsettled, nested>>
  BY DEF PutFile
<1>2. StoreType /\ StoreInv
  BY InvParts
<1>3. /\ task[t].pc \in Storing /\ store # "windows"
      /\ ~garbled /\ \A n \in Name \ behind[t] : data[t][n] = file[n]
      /\ t \in clean /\ UsesKeyring(t) => keyring[Subject(t)] \in {0, Value(t)}
  BY <1>1, AtTheFile
<1>4. CASE /\ Fault
           /\ behind' = [behind EXCEPT ![t] = {}]
           /\ Settle(t, {}, FALSE)
           /\ UNCHANGED file
  <2>1. behind' \in [Task -> SUBSET Name] /\ \A u \in Task \ {t} : behind'[u] = behind[u]
    BY <1>2, <1>4 DEF StoreType
  <2> QED
    BY <1>1, <1>3, <1>4, <2>1, FruitlessInv
<1>5. CASE /\ file' = Rewritten(t)
           /\ behind' = [u \in Task |->
                           CASE u = t -> {}
                             [] at[u] = "put" /\ Apart(t, u) -> behind[u] \cup Changed(t)
                             [] OTHER -> behind[u]]
           /\ Settle(t, behind[t], UsesKeyring(t) \/ keyring[Subject(t)] = 0)
           /\ UNCHANGED faults
  <2>1. PICK s \in Name, v \in Password0 : s = Subject(t) /\ v = Value(t)
    BY <1>3, SubjectType
  <2>2. file' \in Passwords /\ file'[s] = v /\ \A m \in Name \ {s} : file'[m] = data[t][m]
    <3>1. file' = [data[t] EXCEPT ![s] = v] /\ data[t] \in Passwords
      BY <1>2, <1>5, <2>1 DEF Rewritten, StoreType
    <3> QED
      BY <3>1 DEF Passwords
  <2>3. PICK ok \in BOOLEAN : ok <=> UsesKeyring(t) \/ keyring[Subject(t)] = 0
    OBVIOUS
  <2>4. ok = (UsesKeyring(t) \/ keyring[Subject(t)] = 0)
    BY <2>3 DEF UsesKeyring
  <2>5. Settle(t, behind[t], ok) /\ behind[t] \in SUBSET Name
    BY <1>2, <1>5, <2>4 DEF StoreType
  <2>6. /\ at' \in [Task -> {"none", "load", "put", "moved"}] /\ at'[t] = "none"
        /\ \A u \in Task \ {t} : at'[u] = at[u]
    BY <1>1, <1>2 DEF StoreType
  <2>7. behind' \in [Task -> SUBSET Name]
    <3>1. Changed(t) \in SUBSET Name
      BY DEF Changed
    <3>2. \A u \in Task : behind'[u] \in {{}, behind[u], behind[u] \cup Changed(t)}
      BY <1>5
    <3> QED
      BY <1>2, <1>5, <3>1, <3>2 DEF StoreType
  <2>8. UnusedIsEmpty'
    BY <1>1, <1>2, <1>3 DEF StoreInv, UnusedIsEmpty
  <2>9. \A m \in Name \ ({s} \cup behind[t]) : Held(m)' = Held(m) /\ InFile(m)' = InFile(m)
    BY <1>1, <1>3, <2>2 DEF Held, InFile
  <2>10. ASSUME ok, GoesWell(t)
         PROVE  /\ \A u \in Task : Lookup(u, s)' = v
                /\ task[t].pc \in {"drop", "forget"} => keyring'[s] = 0 /\ ~InFile(s)'
    <3>1. t \in clean
      BY <1>1, <2>10 DEF GoesWell
    <3>2. keyring'[s] \in {0, v}
      BY <1>1, <1>3, <2>1, <2>3, <2>10, <3>1
    <3>3. Held(s)' = v /\ (v = 0 => ~InFile(s)')
      BY <1>1, <1>3, <2>2 DEF Held, InFile
    <3>4. task[t].pc \in {"drop", "forget"} => v = 0
      BY <1>3, <2>1, SubjectType
    <3> QED
      BY <3>2, <3>3, <3>4 DEF Lookup
  <2>11. ASSUME NEW u \in Task \ {t}, at'[u] = "put"
         PROVE  ~garbled' /\ \A m \in Name \ behind'[u] : data[u][m] = file'[m]
    <3>1. at[u] = "put" /\ Apart(t, u)
      BY <1>1, <1>2, <2>6, <2>11 DEF StoreInv, OneAtATime
    <3>2. behind'[u] = behind[u] \cup Changed(t)
      BY <1>5, <2>11, <3>1
    <3>3. \A m \in Name \ behind[u] : data[u][m] = file[m]
      BY <3>1, AtTheFile
    <3>4. \A m \in Name \ Changed(t) : file'[m] = file[m]
      BY <1>5 DEF Changed
    <3> QED
      BY <1>1, <1>3, <3>2, <3>3, <3>4
  <2>12. keyring' \in Passwords /\ garbled' \in BOOLEAN /\ faults' \in 0..MaxFaults
         /\ \A m \in Name \ {s} : keyring'[m] = keyring[m]
    BY <1>1, <1>2, <1>5, InvParts, FaultCounts DEF StoreType
  <2> QED
    BY <1>1, <1>3, <2>1, <2>2, <2>5, <2>6, <2>7, <2>8, <2>9, <2>10, <2>11, <2>12, SettleInv
<1> QED
  BY <1>4, <1>5 DEF PutFile

LEMMA CollideInv ==
  ASSUME DesktopInv, NEW t \in Task, NEW u \in Task, Collide(t, u)
  PROVE  DesktopInv'
<1>1. /\ at[t] = "put" /\ at[u] = "put" /\ Apart(t, u) /\ Fault
      /\ at' = [at EXCEPT ![t] = "none", ![u] = "moved"]
      /\ garbled' \in BOOLEAN
      /\ file' = IF garbled' THEN file ELSE Rewritten(u)
      /\ behind' = [behind EXCEPT ![t] = {}, ![u] = {}]
      /\ Settle(t, Name, FALSE)
      /\ UNCHANGED <<store, keyring, configs, busy, unsettled, nested>>
  BY DEF Collide
<1>2. StoreType /\ StoreInv
  BY InvParts
<1>3. task[t].pc \in Storing /\ task[u].pc \in Storing /\ store # "windows"
  BY <1>1, AtTheFile
<1>4. PICK s \in Name, v \in Password0 : s = Subject(t) /\ v = Value(t)
  BY <1>3, SubjectType
<1>5. file' \in Passwords
  <2>1. data[u] \in Passwords /\ Subject(u) \in Name /\ Value(u) \in Password0
    BY <1>2, <1>3, SubjectType DEF StoreType
  <2>2. Rewritten(u) \in Passwords
    BY <2>1, OneEntry DEF Rewritten
  <2> QED
    BY <1>1, <1>2, <2>2 DEF StoreType
<1>6. t # u
  BY <1>1 DEF Apart
<1>7. /\ at' \in [Task -> {"none", "load", "put", "moved"}] /\ at'[t] = "none"
      /\ at'[u] = "moved" /\ \A w \in Task \ {t, u} : at'[w] = at[w]
  BY <1>1, <1>2, <1>6 DEF StoreType
<1>8. behind' \in [Task -> SUBSET Name] /\ keyring' \in Passwords
      /\ faults' \in 0..MaxFaults /\ Name \in SUBSET Name /\ FALSE \in BOOLEAN
  BY <1>1, <1>2, InvParts, FaultCounts DEF StoreType
<1>9. UnusedIsEmpty'
  BY <1>1, <1>2, <1>3 DEF StoreInv, UnusedIsEmpty
<1>10. \A w \in Task \ {t} : at'[w] # "put"
  <2> SUFFICES ASSUME NEW w \in Task \ {t, u}, at[w] = "put" PROVE FALSE
    BY <1>7
  <2>1. Apart(w, t) /\ Apart(w, u)
    BY <1>1, <1>2 DEF StoreInv, OneAtATime
  <2> QED
    BY <1>1, <2>1 DEF Apart, InWindow
<1>11. \A w \in Task \ {t} : at'[w] = at[w] \/ (at[w] = "put" /\ at'[w] = "moved")
  BY <1>1, <1>7
<1>12. \A m \in Name \ ({s} \cup Name) : Held(m)' = Held(m) /\ InFile(m)' = InFile(m)
  OBVIOUS
<1>13. \A m \in Name \ {s} : keyring'[m] = keyring[m]
  BY <1>1
<1> QED
  BY <1>1, <1>3, <1>4, <1>5, <1>7, <1>8, <1>9, <1>10, <1>11, <1>12, <1>13, SettleInv

LEMMA GiveUpInv ==
  ASSUME DesktopInv, NEW t \in Task, GiveUp(t)
  PROVE  DesktopInv'
<1>1. task[t].pc \in Storing
  BY AtTheFile DEF GiveUp
<1>2. behind' \in [Task -> SUBSET Name] /\ \A u \in Task \ {t} : behind'[u] = behind[u]
  BY InvParts DEF StoreType, GiveUp
<1> QED
  BY <1>1, <1>2, FruitlessInv DEF GiveUp

-----------------------------------------------------------------------------
(* Requests to the controller *)

\* A name that leaves the file is cleaned by the handler that took it off, and
\* by nobody else in use, or is unsettled.
LEMMA RequestStep ==
  ASSUME DesktopInv, NEW t \in Task, task[t].pc \in {"save", "remove"},
         TaskType', \A u \in Task \ {t} : task'[u] = task[u],
         task'[t].pc \notin Dialog, WritesForProfile(t)', Named(t)',
         configs' \in SUBSET Name, unsettled' \in SUBSET Name,
         \A n \in unsettled : n \in configs' \cup unsettled',
         Fault \/ UNCHANGED faults, UNCHANGED <<store, storeVars, shown, busy, nested>>,
         \A n \in configs : \/ n \in configs' \cup unsettled'
                            \/ Cleans(t, n)' /\ n \notin Others(t)
  PROVE  DesktopInv'
<1>1. TypeOK' /\ StoreInv'
  <2>1. SmallTypes'
    BY FaultCounts, InvParts, SmallTypesNow DEF SmallTypes
  <2>2. \A u \in Task : at[u] # "none" => task'[u] = task[u]
    BY AccessAtStores DEF Storing
  <2> QED
    BY <2>1, <2>2, StoresKept
<1>2. AllNamed'
  BY InvParts, NamedFrame
<1>3. AllWriteForProfile'
  <2>1. ASSUME NEW u \in Task \ {t}, task[u].pc \in Writing
        PROVE  task[u].name \in configs' \cup unsettled'
    <3>1. task[u].name \in configs \cup unsettled
      BY <2>1, NameOfWriter
    <3>2. task[u].name \in Others(t)
      BY <2>1 DEF Others, About, Open, Writing
    <3> QED
      BY <3>1, <3>2
  <2>2. \A u \in Task \ {t} : WritesForProfile(u)'
    BY <2>1 DEF WritesForProfile, Writing
  <2> QED
    BY <2>2 DEF AllWriteForProfile
<1>4. AllClean'
  <2>1. UNCHANGED <<keyring, file, garbled, unclean>>
    BY DEF storeVars
  <2>2. \A n \in Name :
          n \in configs \cup unsettled => n \in configs' \cup unsettled' \/ Cleans(t, n)'
    OBVIOUS
  <2> QED
    BY <2>1, <2>2, InvParts, CleanFrame
<1>5. FlagFollowsDialogs'
  <2>1. task[t].pc \notin Dialog
    BY DEF Dialog
  <2> QED
    BY <2>1, DialogsFrame, InvParts, NoDialogFlag DEF NoDialog
<1> QED
  BY <1>1, <1>2, <1>3, <1>4, <1>5 DEF DesktopInv, AllWriteForProfile, AllClean, AllNamed

LEMMA SaveInv ==
  ASSUME DesktopInv, NEW t \in Task, Save(t)
  PROVE  DesktopInv'
<1>1. PICK saved \in BOOLEAN, replied \in BOOLEAN :
       /\ (saved /\ replied /\ UNCHANGED faults) \/ (~replied /\ Fault)
       /\ configs' = IF saved THEN (configs \ {task[t].replace}) \cup {task[t].name}
                     ELSE configs
       /\ unsettled' = IF saved THEN (unsettled \cup LeftBehind(t, replied)) \ {task[t].name}
                       ELSE unsettled
       /\ IF replied THEN AfterSave(t) ELSE End(t)
  BY DEF Save
<1>2. /\ task[t].pc = "save" /\ task[t].pc # "idle"
      /\ UNCHANGED <<store, storeVars, shown, busy, nested>>
  BY DEF Save
<1>3. task[t] \in OpenTask /\ task[t].name \in Name
  BY <1>2, NameOfHandler DEF Place
<1>4. configs \in SUBSET Name /\ unsettled \in SUBSET Name /\ TaskType
  BY SmallTypesNow, InvParts DEF SmallTypes
<1>5. configs' \in SUBSET Name
  BY <1>1, <1>3, <1>4
<1>6. unsettled' \in SUBSET Name /\ \A n \in unsettled : n \in configs' \cup unsettled'
  <2>1. LeftBehind(t, replied) \in SUBSET Name
    BY <1>3 DEF LeftBehind, Renames, OpenTask
  <2> QED
    BY <1>1, <1>4, <2>1
<1>7. CASE replied /\ ~InWindow(t)
  <2>1. saved /\ UNCHANGED faults
    BY <1>1, <1>7
  <2>2. PICK pc \in {"drop", "store"} :
          pc = (IF Renames(t) THEN "drop" ELSE "store") /\ Go(t, pc)
    BY <1>1, <1>7 DEF AfterSave
  <2>3. /\ TaskType' /\ task'[t].pc = pc /\ task'[t].name = task[t].name
        /\ task'[t].replace = task[t].replace
        /\ \A u \in Task \ {t} : task'[u] = task[u]
    <3>1. pc \in Place
      BY DEF Place, Storing
    <3> QED
      BY <1>2, <1>4, <2>2, <3>1, GoEffect
  <2>4. WritesForProfile(t)' /\ Named(t)' /\ task'[t].pc \notin Dialog
    BY <1>1, <1>3, <2>1, <2>2, <2>3, NameIsNoName
    DEF WritesForProfile, Named, Renames, Dialog
  <2>5. ASSUME NEW n \in configs
        PROVE  n \in configs' \cup unsettled' \/ (Cleans(t, n)' /\ n \notin Others(t))
    <3>1. CASE n # task[t].replace \/ n = task[t].name
      BY <1>1, <2>1, <3>1
    <3>2. CASE n = task[t].replace /\ n # task[t].name
      <4>1. Renames(t)
        BY <1>4, <3>2, NameIsNoName DEF Renames
      <4>2. Cleans(t, n)'
        BY <2>2, <2>3, <3>2, <4>1 DEF Cleans
      <4>3. n \in Others(t) => n \in unsettled'
        BY <1>1, <1>7, <2>1, <3>2, <4>1 DEF LeftBehind
      <4> QED
        BY <4>2, <4>3
    <3> QED
      BY <3>1, <3>2
  <2> QED
    BY <1>2, <1>5, <1>6, <2>1, <2>3, <2>4, <2>5, RequestStep
<1>8. ASSUME ~replied \/ InWindow(t), End(t) PROVE DesktopInv'
  <2>1. /\ TaskType' /\ task'[t] = Idle
        /\ \A u \in Task \ {t} : task'[u] = task[u]
    BY <1>4, <1>8, EndEffect
  <2>2. WritesForProfile(t)' /\ Named(t)' /\ task'[t].pc \notin Dialog
    BY <2>1, IdleWritesNothing
  <2>3. \A n \in configs : n \in configs' \cup unsettled'
    BY <1>1, <1>4, <1>8, NameIsNoName DEF Renames, LeftBehind
  <2>4. Fault \/ UNCHANGED faults
    BY <1>1
  <2> QED
    BY <1>2, <1>5, <1>6, <2>1, <2>2, <2>3, <2>4, RequestStep
<1>9. CASE replied /\ InWindow(t) /\ Go(t, "store")
  <2>1. saved /\ UNCHANGED faults
    BY <1>1, <1>9
  <2>2. /\ TaskType' /\ task'[t].pc = "store" /\ task'[t].name = task[t].name
        /\ \A u \in Task \ {t} : task'[u] = task[u]
    BY <1>2, <1>4, <1>9, GoEffect DEF Place, Storing
  <2>3. WritesForProfile(t)' /\ Named(t)' /\ task'[t].pc \notin Dialog
    BY <1>1, <1>3, <2>1, <2>2, NameIsNoName DEF WritesForProfile, Named, Dialog
  <2>4. \A n \in configs : n \in configs' \cup unsettled'
    BY <1>1, <1>4, <1>9, NameIsNoName DEF Renames, LeftBehind
  <2> QED
    BY <1>2, <1>5, <1>6, <2>1, <2>2, <2>3, <2>4, RequestStep
<1>10. ~replied => End(t)
  BY <1>1
<1>11. replied /\ InWindow(t) => End(t) \/ Go(t, "store")
  BY <1>1 DEF AfterSave
<1> QED
  BY <1>7, <1>8, <1>9, <1>10, <1>11

LEMMA RemoveInv ==
  ASSUME DesktopInv, NEW t \in Task, Remove(t)
  PROVE  DesktopInv'
<1>1. PICK replied \in BOOLEAN :
       /\ \/ /\ task[t].name \in configs
             /\ configs' = configs \ {task[t].name}
             /\ unsettled' = unsettled \cup (IF replied THEN Others(t) \cap {task[t].name}
                                            ELSE {task[t].name})
             /\ (replied /\ UNCHANGED faults) \/ (~replied /\ Fault)
          \/ /\ ~replied
             /\ UNCHANGED <<configs, unsettled>>
             /\ Fault \/ (task[t].name \notin configs /\ UNCHANGED faults)
       /\ IF replied THEN Go(t, "forget") ELSE End(t)
  BY DEF Remove
<1>2. /\ task[t].pc = "remove" /\ task[t].pc # "idle"
      /\ UNCHANGED <<store, storeVars, shown, busy, nested>>
  BY DEF Remove
<1>3. task[t].name \in Name /\ task[t].name # NoName
  BY <1>2, NameOfHandler, NameIsNoName DEF Place
<1>4. configs \in SUBSET Name /\ unsettled \in SUBSET Name /\ TaskType
  BY SmallTypesNow, InvParts DEF SmallTypes
<1>5. /\ configs' \in SUBSET Name /\ unsettled' \in SUBSET Name
      /\ (\A n \in unsettled : n \in configs' \cup unsettled') /\ (Fault \/ UNCHANGED faults)
  BY <1>1, <1>3, <1>4
<1>6. CASE replied
  <2>1. /\ TaskType' /\ task'[t].pc = "forget" /\ task'[t].name = task[t].name
        /\ \A u \in Task \ {t} : task'[u] = task[u]
    BY <1>1, <1>2, <1>4, <1>6, GoEffect DEF Place, Storing
  <2>2. WritesForProfile(t)' /\ Named(t)' /\ task'[t].pc \notin Dialog
    BY <1>3, <2>1 DEF WritesForProfile, Named, Dialog
  <2>3. ASSUME NEW n \in configs
        PROVE  n \in configs' \cup unsettled' \/ (Cleans(t, n)' /\ n \notin Others(t))
    <3>1. CASE n # task[t].name
      BY <1>1, <3>1
    <3>2. CASE n = task[t].name
      <4>1. Cleans(t, n)'
        BY <2>1, <3>2 DEF Cleans
      <4> QED
        BY <1>1, <1>6, <3>2, <4>1
    <3> QED
      BY <3>1, <3>2
  <2> QED
    BY <1>2, <1>5, <2>1, <2>2, <2>3, RequestStep
<1>7. CASE ~replied
  <2>1. /\ TaskType' /\ task'[t] = Idle
        /\ \A u \in Task \ {t} : task'[u] = task[u]
    BY <1>1, <1>4, <1>7, EndEffect
  <2>2. WritesForProfile(t)' /\ Named(t)' /\ task'[t].pc \notin Dialog
    BY <2>1, IdleWritesNothing
  <2>3. \A n \in configs : n \in configs' \cup unsettled'
    BY <1>1, <1>7
  <2> QED
    BY <1>2, <1>5, <2>1, <2>2, <2>3, RequestStep
<1> QED
  BY <1>6, <1>7

-----------------------------------------------------------------------------
(* The specification *)

LEMMA InitInv == Init => DesktopInv
<1> SUFFICES ASSUME Init PROVE DesktopInv
  OBVIOUS
<1>1. TypeOK
  <2>1. Nothing \in Passwords /\ {} \in SUBSET Name /\ 0 \in 0..MaxFaults
    BY ZeroIsPassword, DesktopFaultsAssumption
  <2>2. /\ keyring \in Passwords /\ file \in Passwords /\ last \in Passwords
        /\ data \in [Task -> Passwords] /\ behind \in [Task -> SUBSET Name]
        /\ task \in [Task -> OpenTask \cup {Idle}]
        /\ at \in [Task -> {"none", "load", "put", "moved"}]
    BY <2>1 DEF Init
  <2> QED
    BY <2>1, <2>2 DEF Init, TypeOK
<1>2. \A t \in Task : task[t] = Idle /\ at[t] = "none"
  BY DEF Init
<1>3. \A t \in Task : WritesForProfile(t) /\ Named(t) /\ task[t].pc \notin Dialog
  BY <1>2 DEF Idle, WritesForProfile, Named, Place, Dialog, Storing
<1>4. \A n \in Name : keyring[n] = 0 /\ file[n] = 0 /\ ~garbled /\ last[n] = 0
  BY DEF Init, Nothing
<1>5. \A n \in Name : CleanOrCleaned(n)
  BY <1>4 DEF CleanOrCleaned, InFile
<1>6. StoreInv
  <2>1. LastWrittenIsRead
    BY <1>4 DEF LastWrittenIsRead, Lookup, Held
  <2> QED
    BY <1>2, <2>1 DEF Init, StoreInv, AccessInv, OneAtATime, UnusedIsEmpty
<1>7. FlagFollowsDialogs
  <2>1. InDialog = {}
    BY <1>3 DEF InDialog
  <2> QED
    BY <2>1 DEF Init, FlagFollowsDialogs
<1> QED
  BY <1>1, <1>3, <1>5, <1>6, <1>7 DEF DesktopInv

LEMMA StepInv == DesktopInv /\ [Next]_vars => DesktopInv'
<1> SUFFICES ASSUME DesktopInv, [Next]_vars PROVE DesktopInv'
  OBVIOUS
<1>1. CASE UNCHANGED vars
  <2>1. UNCHANGED <<store, storeVars, configs, shown, busy, task, unsettled, nested,
                    faults>>
    BY <1>1 DEF vars
  <2>5. TypeOK' /\ StoreInv'
    <3>1. SmallTypes' /\ TaskType'
      BY <2>1, SmallTypesNow, InvParts DEF SmallTypes, TaskType
    <3> QED
      BY <2>1, <3>1, StoresKept
  <2>2. FlagFollowsDialogs'
    BY <2>1 DEF DesktopInv, FlagFollowsDialogs, InDialog, InWindow
  <2>3. \A t \in Task : WritesForProfile(t)' /\ Named(t)'
    BY <2>1 DEF DesktopInv, WritesForProfile, Named, Renames
  <2>4. \A n \in Name : CleanOrCleaned(n)'
    BY <2>1 DEF DesktopInv, CleanOrCleaned, Cleans, InFile, storeVars
  <2> QED
    BY <2>2, <2>3, <2>4, <2>5 DEF DesktopInv
<1>2. ASSUME NEW t \in Task, Connecting(t) PROVE DesktopInv'
  BY <1>2, ConnectReadInv, DialogInv DEF Connecting
<1>3. ASSUME NEW t \in Task, Saving(t) PROVE DesktopInv'
  BY <1>3, InnerPromptInv, DialogInv, KeepInv, SaveInv DEF Saving
<1>4. ASSUME NEW t \in Task, Deleting(t) PROVE DesktopInv'
  BY <1>4, DialogInv, RemoveInv, HideInv DEF Deleting
<1>5. ASSUME NEW t \in Task, NEW n \in Name,
             ClickConnect(t, n) \/ ClickEdit(t, n) \/ ClickDelete(t, n)
      PROVE  DesktopInv'
  BY <1>5, ClickInv
<1>6. ASSUME NEW t \in Task, Accessing(t) PROVE DesktopInv'
  BY <1>6, AccessKeyringInv, LoadFileInv, PutFileInv, CollideInv, GiveUpInv DEF Accessing
<1> QED
  BY <1>1, <1>2, <1>3, <1>4, <1>5, <1>6, TickInv, ClickAddInv DEF Next

\* The invariant behind the results below holds in every reachable state.
THEOREM DesktopInvariant == Spec => []DesktopInv
BY InitInv, StepInv, PTL DEF Spec

\* Passwords, profiles, dialogs and handlers stay within their types, whatever
\* fails and however the handlers interleave.
THEOREM DesktopTypeCorrect == Spec => []TypeOK
<1>1. DesktopInv => TypeOK
  BY DEF DesktopInv
<1> QED
  BY <1>1, DesktopInvariant, PTL

\* Tray and window both read what was written last, for all the stores and any
\* number of failures and lost updates, but for the names those have touched.
THEOREM ReadsAreFresh == Spec => []LastWrittenIsRead
<1>1. DesktopInv => LastWrittenIsRead
  BY DEF DesktopInv, StoreInv
<1> QED
  BY <1>1, DesktopInvariant, PTL

\* The flag that keeps the menus still follows the dialogs, for any number of
\* handlers.
THEOREM FlagIsRight == Spec => []FlagFollowsDialogs
<1>1. DesktopInv => FlagFollowsDialogs
  BY DEF DesktopInv
<1> QED
  BY <1>1, DesktopInvariant, PTL

\* No store keeps a password for a name without a profile once nobody is at
\* work on it.
THEOREM NoOrphanSecrets == Spec => []SecretsHaveProfile
<1>1. DesktopInv => SecretsHaveProfile
  <2> SUFFICES ASSUME DesktopInv, NEW n \in Name \ configs,
                      \A t \in Task : n \notin About(t), n \notin unsettled \cup unclean
               PROVE  keyring[n] = 0 /\ ~InFile(n)
    BY DEF SecretsHaveProfile
  <2>1. \A t \in Task : ~Cleans(t, n)
    BY DEF About, Open, Cleans
  <2> QED
    BY <2>1 DEF DesktopInv, CleanOrCleaned
<1> QED
  BY <1>1, DesktopInvariant, PTL
=============================================================================
