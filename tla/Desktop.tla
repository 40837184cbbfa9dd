------------------------------- MODULE Desktop -------------------------------
(***************************************************************************)
(* The two front ends that keep passwords, the tray (app.go, profile_form.go,  *)
(* dialogs.go) and, on Linux, the window (gui_linux.py), with the credential   *)
(* stores (internal/credentials, CredentialsStore of the window) and the      *)
(* profile file of the controller (trayclient.SaveProfile and DeleteProfile,   *)
(* handleProfilesSave and -Delete, upsertConfig and deleteConfig).             *)
(*                                                                         *)
(* Each menu item of the tray has a goroutine of its own, so its handlers run  *)
(* side by side, and beside those of the window, another process, which has   *)
(* one modal dialog at a time.  On Linux the tray's menus only connect and     *)
(* add; profiles are edited and deleted in the window.  On Windows there is no *)
(* window.  A handler is a `task` that goes from dialog to request to store.   *)
(* A write or deletion in the stores is an access of several steps: the        *)
(* keyring, then credentials.json, which is read and then written whole.  The  *)
(* tray's handlers share a mutex over the two; the window does not.            *)
(*                                                                         *)
(* A password is a number, 0 for none.  The pre-shared key of an IPsec profile *)
(* takes the same way as the password, one call after it, and is left out.     *)
(***************************************************************************)
EXTENDS Naturals, FiniteSets

CONSTANTS Name,          \* profile names
          Password,      \* passwords the user can type
          Task,          \* handlers that can be open at once
          Window,        \* the one that is the window's on Linux
          Stores,        \* the credential stores to look at
          MaxFaults      \* bound on failing calls

ASSUME PasswordAssumption == 0 \notin Password
\* "hybrid": keyring and file; "file": there is no secret-tool; "mixed": the
\* tray's probe of it failed, so that the tray keeps to the file, and the window
\* finds it working; "windows": the Credential Manager alone.
ASSUME StoresAssumption == Stores \subseteq {"hybrid", "file", "mixed", "windows"}
ASSUME DesktopNamesAssumption == "none" \notin Name
ASSUME TaskAssumption == IsFiniteSet(Task)
ASSUME DesktopFaultsAssumption == MaxFaults \in Nat

VARIABLES
  store,      \* credentials.New: which stores there are
  keyring,    \* passwords in the Secret Service, or Windows Credential Manager
  file,       \* passwords in credentials.json
  garbled,    \* credentials.json cannot be parsed
  at,         \* where the access of a handler to the stores stands
  data,       \* what it has read of the file
  behind,     \* history: names the other process has changed there since
  clean,      \* history: accesses under way that went well and had no company
  configs,    \* the names in the controller's profile file
  shown,      \* app.items: the profiles that have a menu
  busy,       \* dialogBusy
  task,       \* the handlers
  last,       \* history: the password that a clean write has left for a name
  unclean,    \* history: names whose last write was not a clean one, or was
              \* undone in the file since
  unsettled,  \* history: names removed behind a handler's or the tray's back
  nested,     \* history: a dialog has ended within or beside another
  faults      \* failures so far

accessVars == <<at, data, behind, clean>>
storeVars == <<keyring, file, garbled, accessVars, last, unclean>>
vars == <<store, storeVars, configs, shown, busy, task, unsettled, nested, faults>>

-----------------------------------------------------------------------------
NoName == "none"
Password0 == Password \cup {0}

Idle == [pc |-> "idle"]
Handler(pc, kind, n) ==
  [pc |-> pc, kind |-> kind, name |-> n, replace |-> NoName, password |-> 0]

Dialog == {"prompt", "form", "confirm"}
Storing == {"write", "store", "drop", "forget"}
Place == Dialog \cup Storing \cup {"read", "keep", "save", "remove", "hide"}
Passwords == [Name -> Password0]
Nothing == [n \in Name |-> 0]
OpenTask ==
  [pc : Place, kind : {"connect", "edit", "delete"}, name : Name \cup {NoName},
   replace : Name \cup {NoName}, password : Password0]

TypeOK ==
  /\ store \in Stores
  /\ keyring \in Passwords
  /\ file \in Passwords
  /\ garbled \in BOOLEAN
  /\ at \in [Task -> {"none", "load", "put", "moved"}]
  /\ data \in [Task -> Passwords]
  /\ behind \in [Task -> SUBSET Name]
  /\ clean \in SUBSET Task
  /\ configs \in SUBSET Name
  /\ shown \in SUBSET Name
  /\ busy \in BOOLEAN
  /\ task \in [Task -> OpenTask \cup {Idle}]
  /\ last \in Passwords
  /\ unclean \in SUBSET Name
  /\ unsettled \in SUBSET Name
  /\ nested \in BOOLEAN
  /\ faults \in 0..MaxFaults

Init ==
  /\ store \in Stores
  /\ keyring = Nothing
  /\ file = Nothing
  /\ garbled = FALSE
  /\ at = [t \in Task |-> "none"]
  /\ data = [t \in Task |-> Nothing]
  /\ behind = [t \in Task |-> {}]
  /\ clean = {}
  /\ configs = {}
  /\ shown = {}
  /\ busy = FALSE
  /\ task = [t \in Task |-> Idle]
  /\ last = Nothing
  /\ unclean = {}
  /\ unsettled = {}
  /\ nested = FALSE
  /\ faults = 0

-----------------------------------------------------------------------------
Fault == faults < MaxFaults /\ faults' = faults + 1

Open(t) == task[t].pc # "idle"
About(t) == IF Open(t) THEN {task[t].name, task[t].replace} ELSE {}
InWindow(t) == t = Window /\ store # "windows"

\* The dialogs of the tray.
InDialog == {t \in Task : task[t].pc \in Dialog /\ ~InWindow(t)}

SetTask(t, record) == task' = [task EXCEPT ![t] = record]
Go(t, pc) == task' = [task EXCEPT ![t].pc = pc]
End(t) == task' = [task EXCEPT ![t] = Idle]

-----------------------------------------------------------------------------
(* The credential stores *)

\* refreshProfiles, which the ticker calls, and a connect request when it
\* returns: the menus are those of the profiles on file; not while a dialog is
\* open, as far as the flag tells.
RefreshMenus == shown' \in IF busy THEN {shown} ELSE {shown, configs}

UsesKeyring(t) ==
  store \in {"hybrid", "windows"} \/ (store = "mixed" /\ InWindow(t))

\* Read with everything working: those who use the keyring ask the file when it
\* has no answer, the others have only the file.
Held(n) == IF garbled THEN 0 ELSE file[n]
InFile(n) == garbled \/ file[n] # 0
Lookup(t, n) == IF UsesKeyring(t) /\ keyring[n] # 0 THEN keyring[n] ELSE Held(n)

\* Read: a failing keyring is as good as one without the password, and a file
\* that cannot be read is an error, which the callers take for no password.
Read(t, n, value) ==
  \/ value = Lookup(t, n) /\ UNCHANGED faults
  \/ /\ Fault
     /\ value \in IF UsesKeyring(t) THEN {0, Held(n)} ELSE {0}

\* Write and Delete of a password: an access is about one name, and leaves one
\* password for it, or none.
Subject(t) == IF task[t].pc = "drop" THEN task[t].replace ELSE task[t].name
Value(t) == IF task[t].pc \in {"write", "store"} THEN task[t].password ELSE 0

\* Accesses of other handlers to the same name that are under way.
Company(t) == {u \in Task \ {t} : at[u] # "none" /\ Subject(u) = Subject(t)}
GoesWell(t) == Company(t) = {} /\ (at[t] = "none" \/ t \in clean)

Continue(t, place, ok) ==
  /\ at' = [at EXCEPT ![t] = place]
  /\ clean' = IF ok /\ GoesWell(t) THEN clean \cup {t} ELSE clean \ (Company(t) \cup {t})
  /\ UNCHANGED <<task, shown, last, unclean>>

\* What the handler does after its access, which callers do not ask how it went.
Proceed(t) ==
  /\ CASE task[t].pc \in {"write", "store"} -> End(t)
       [] task[t].pc = "drop" -> Go(t, "store")
       [] task[t].pc = "forget" -> IF InWindow(t) THEN End(t) ELSE Go(t, "hide")
  /\ IF task[t].pc = "store" /\ ~InWindow(t) THEN RefreshMenus ELSE UNCHANGED shown

\* The access ends; it has undone what others wrote about the names of lost.
Settle(t, lost, ok) ==
  /\ clean' = clean \ (Company(t) \cup {t})
  /\ data' = [data EXCEPT ![t] = Nothing]
  /\ unclean' = IF ok /\ GoesWell(t) THEN (unclean \cup lost) \ {Subject(t)}
                ELSE unclean \cup lost \cup {Subject(t)}
  /\ last' = [n \in Name |-> IF n \in unclean' THEN 0
                            ELSE IF n = Subject(t) THEN Value(t) ELSE last[n]]
  /\ Proceed(t)

\* Mutants: a deletion, or a write of the window, is content with the keyring.
KeyringForDelete(t) == task[t].pc \notin {"write", "store"} \/ ~InWindow(t)
KeyringForWindow(t) == task[t].pc \in {"write", "store"}

\* hybridStore.Write, unlike Delete and the window, is content with the keyring.
KeyringSuffices(t) == task[t].pc \in {"write", "store"} /\ ~InWindow(t)

\* A write of no password that leaves one in the file is not a clean one.
LeavesOlder(t, key) ==
  task[t].pc \in {"write", "store"} /\ key = 0 /\ InFile(Subject(t))

\* The keyring, which may fail and may have taken the change (a timeout).
AccessKeyring(t) ==
  /\ task[t].pc \in Storing
  /\ UsesKeyring(t)
  /\ at[t] = "none"
  /\ \E key \in {keyring[Subject(t)], Value(t)}, failed \in BOOLEAN :
       /\ keyring' = [keyring EXCEPT ![Subject(t)] = key]
       /\ IF failed THEN Fault ELSE key = Value(t) /\ UNCHANGED faults
       /\ IF store = "windows" \/ (~failed /\ KeyringSuffices(t))
          THEN /\ Settle(t, {}, ~failed /\ ~LeavesOlder(t, key))
               /\ UNCHANGED at
          ELSE Continue(t, "load", key \in {0, Value(t)}) /\ UNCHANGED data
  /\ UNCHANGED <<store, file, garbled, behind, configs, busy, unsettled, nested>>

\* The tray's handlers hold a mutex from the reading to the writing.
MutexFree(t) == \A u \in Task \ {t} : at[u] \in {"put", "moved"} => InWindow(u)

LoadFile(t) ==
  /\ task[t].pc \in Storing
  /\ store # "windows"
  /\ at[t] = IF UsesKeyring(t) THEN "load" ELSE "none"
  /\ InWindow(t) \/ MutexFree(t)
  /\ \/ /\ ~garbled
        /\ data' = [data EXCEPT ![t] = file]
        /\ Continue(t, "put", TRUE)
        /\ UNCHANGED faults
     \/ /\ Fault \/ (garbled /\ UNCHANGED faults)
        /\ at' = [at EXCEPT ![t] = "none"]
        /\ Settle(t, {}, FALSE)
  /\ UNCHANGED <<store, keyring, file, garbled, behind, configs, busy, unsettled,
                 nested>>

\* Tray and window, two processes.
Apart(t, u) == InWindow(t) # InWindow(u)
Rewritten(t) == [data[t] EXCEPT ![Subject(t)] = Value(t)]
Changed(t) == {n \in Name : Rewritten(t)[n] # file[n]}

\* The whole file is written as it was read but for the name, so that changes
\* of the other process since are undone.  A tray that keeps to the file does
\* not know what the window has put into the keyring.
PutFile(t) ==
  /\ at[t] = "put"
  /\ at' = [at EXCEPT ![t] = "none"]
  /\ \/ /\ file' = Rewritten(t)
        /\ behind' = [u \in Task |->
                        CASE u = t -> {}
                          [] at[u] = "put" /\ Apart(t, u) -> behind[u] \cup Changed(t)
                          [] OTHER -> behind[u]]
        /\ Settle(t, behind[t], UsesKeyring(t) \/ keyring[Subject(t)] = 0)
        /\ UNCHANGED faults
     \/ /\ Fault
        /\ behind' = [behind EXCEPT ![t] = {}]
        /\ Settle(t, {}, FALSE)
        /\ UNCHANGED file
  /\ UNCHANGED <<store, keyring, garbled, configs, busy, unsettled, nested>>

\* Both processes write the same temporary file, and the one to rename it first
\* may move what the other has written, or parts of both.
Collide(t, u) ==
  /\ at[t] = "put" /\ at[u] = "put" /\ Apart(t, u)
  /\ Fault
  /\ at' = [at EXCEPT ![t] = "none", ![u] = "moved"]
  /\ garbled' \in BOOLEAN
  /\ file' = IF garbled' THEN file ELSE Rewritten(u)
  /\ behind' = [behind EXCEPT ![t] = {}, ![u] = {}]
  /\ Settle(t, Name, FALSE)
  /\ UNCHANGED <<store, keyring, configs, busy, unsettled, nested>>

\* The other then finds nothing to rename.
GiveUp(t) ==
  /\ at[t] = "moved"
  /\ at' = [at EXCEPT ![t] = "none"]
  /\ Settle(t, {}, FALSE)
  /\ UNCHANGED <<store, keyring, file, garbled, behind, configs, busy, unsettled,
                 nested, faults>>

-----------------------------------------------------------------------------
(* Dialogs *)

NoDialog == UNCHANGED <<busy, nested>>

\* withDialog around the user's answer: the flag is one for all dialogs of the
\* tray; those of the window do not touch it.
OpenDialog(t) ==
  IF InWindow(t) THEN NoDialog ELSE busy' = TRUE /\ UNCHANGED nested

\* Mutant: the flag is not cleared when the dialog ends.
CloseQuietly(t) == NoDialog

CloseDialog(t) ==
  IF InWindow(t) THEN NoDialog
  ELSE busy' = FALSE /\ nested' = (Cardinality(InDialog) > 1)

\* A prompt inside the wizard has its own withDialog and clears the flag.
InnerPrompt(t) ==
  /\ task[t].pc = "form" /\ ~InWindow(t)
  /\ busy' = FALSE
  /\ nested' = TRUE
  /\ UNCHANGED <<store, storeVars, configs, shown, task, unsettled, faults>>

\* The ticker does the same.
Tick ==
  /\ ~busy
  /\ shown' = configs
  /\ UNCHANGED <<store, storeVars, configs, busy, task, unsettled, nested, faults>>

-----------------------------------------------------------------------------
(* handleConnect *)

Item(t) == IF task[t].kind = "edit" THEN task[t].replace ELSE task[t].name

\* One goroutine for each menu item serves one click after the other.  The
\* window shows what it polls.
Click(t, kind, n) ==
  /\ task[t] = Idle
  /\ IF InWindow(t) THEN n \in configs
     ELSE /\ n \in shown
          /\ kind # "connect" => store = "windows"
          /\ \A u \in Task :
               Open(u) /\ ~InWindow(u) => task[u].kind # kind \/ Item(u) # n

\* The menu may be one whose profile is gone from the file.
ClickConnect(t, n) ==
  /\ Click(t, "connect", n)
  /\ SetTask(t, Handler("read", "connect", n))
  /\ unsettled' = IF n \in configs THEN unsettled ELSE unsettled \cup {n}
  /\ UNCHANGED <<store, storeVars, configs, shown, busy, nested, faults>>

\* With a password the connect request goes out, and that is the controller's;
\* without one the user is asked, and may give none.
ConnectRead(t) ==
  /\ task[t].pc = "read"
  /\ \E value \in Password0 :
       /\ Read(t, task[t].name, value)
       /\ \/ value # 0 /\ End(t) /\ NoDialog
          \/ value = 0 /\ Go(t, "prompt") /\ OpenDialog(t)
  /\ UNCHANGED <<store, storeVars, configs, shown, unsettled>>

Prompt(t) ==
  /\ task[t].pc = "prompt"
  /\ CloseDialog(t)
  /\ \/ End(t)
     \/ \E typed \in Password0 :
          SetTask(t, [task[t] EXCEPT !.pc = "write", !.password = typed])
  /\ UNCHANGED <<store, storeVars, configs, shown, unsettled, faults>>

-----------------------------------------------------------------------------
(* handleAddProfile, handleEditProfile and persistAndSave *)

ClickAdd(t) ==
  /\ task[t] = Idle
  /\ InWindow(t) \/ \A u \in Task :
       Open(u) /\ ~InWindow(u) => task[u].kind # "edit" \/ Item(u) # NoName
  /\ SetTask(t, Handler("form", "edit", NoName))
  /\ OpenDialog(t)
  /\ UNCHANGED <<store, storeVars, configs, shown, unsettled, faults>>

ClickEdit(t, n) ==
  /\ Click(t, "edit", n)
  /\ n \in configs
  /\ SetTask(t, [Handler("form", "edit", n) EXCEPT !.replace = n])
  /\ OpenDialog(t)
  /\ UNCHANGED <<store, storeVars, configs, shown, unsettled, faults>>

\* The form gives a name and a password, or nothing to keep the existing one.
Form(t) ==
  /\ task[t].pc = "form"
  /\ CloseDialog(t)
  /\ \/ End(t)
     \/ \E n \in Name, typed \in Password0, pc \in {"keep", "save"} :
          /\ pc = "keep" <=> typed = 0 /\ ~InWindow(t)
          /\ SetTask(t, [task[t] EXCEPT !.pc = pc, !.name = n, !.password = typed])
  /\ UNCHANGED <<store, storeVars, configs, shown, unsettled, faults>>

\* firstNonEmpty(replace, config.Name)
Kept(t) == IF task[t].replace # NoName THEN task[t].replace ELSE task[t].name
Keep(t) ==
  /\ task[t].pc = "keep"
  /\ \E value \in Password0 :
       /\ Read(t, Kept(t), value)
       /\ SetTask(t, [task[t] EXCEPT !.pc = "save", !.password = value])
  /\ UNCHANGED <<store, storeVars, configs, shown, busy, unsettled, nested>>

Renames(t) == task[t].replace \notin {NoName, task[t].name}

\* Names that a handler other than t is about.
Others(t) == UNION {About(u) : u \in Task \ {t}}

\* persistAndSave deletes the passwords under the old name, and writes the new
\* one whatever it is.  The window writes one that was typed, and leaves those
\* under the old name.
AfterSave(t) ==
  IF InWindow(t) THEN IF task[t].password = 0 THEN End(t) ELSE Go(t, "store")
  ELSE Go(t, IF Renames(t) THEN "drop" ELSE "store")

\* The old name, unless t is going to clean it up and nobody else is about it.
LeftBehind(t, replied) ==
  IF ~Renames(t) THEN {}
  ELSE IF replied /\ ~InWindow(t) THEN Others(t) \cap {task[t].replace}
  ELSE {task[t].replace}

\* The controller replaces both names by the new one; the request may fail, or
\* fail after it was served.
Save(t) ==
  /\ task[t].pc = "save"
  /\ \E saved, replied \in BOOLEAN :
       /\ (saved /\ replied /\ UNCHANGED faults) \/ (~replied /\ Fault)
       /\ configs' = IF saved THEN (configs \ {task[t].replace}) \cup {task[t].name}
                     ELSE configs
       /\ unsettled' = IF saved THEN (unsettled \cup LeftBehind(t, replied)) \ {task[t].name}
                       ELSE unsettled
       /\ IF replied THEN AfterSave(t) ELSE End(t)
  /\ UNCHANGED <<store, storeVars, shown, busy, nested>>

-----------------------------------------------------------------------------
(* handleDeleteProfile *)

ClickDelete(t, n) ==
  /\ Click(t, "delete", n)
  /\ SetTask(t, Handler("confirm", "delete", n))
  /\ OpenDialog(t)
  /\ UNCHANGED <<store, storeVars, configs, shown, unsettled, faults>>

Confirm(t) ==
  /\ task[t].pc = "confirm"
  /\ CloseDialog(t)
  /\ End(t) \/ Go(t, "remove")
  /\ UNCHANGED <<store, storeVars, configs, shown, unsettled, faults>>

\* A profile that is not on file is an error.
Remove(t) ==
  /\ task[t].pc = "remove"
  /\ \E replied \in BOOLEAN :
       /\ \/ /\ task[t].name \in configs
             /\ configs' = configs \ {task[t].name}
             /\ unsettled' = unsettled \cup (IF replied THEN Others(t) \cap {task[t].name}
                                            ELSE {task[t].name})
             /\ (replied /\ UNCHANGED faults) \/ (~replied /\ Fault)
          \/ /\ ~replied
             /\ UNCHANGED <<configs, unsettled>>
             /\ Fault \/ (task[t].name \notin configs /\ UNCHANGED faults)
       /\ IF replied THEN Go(t, "forget") ELSE End(t)
  /\ UNCHANGED <<store, storeVars, shown, busy, nested>>

Hide(t) ==
  /\ task[t].pc = "hide"
  /\ End(t)
  /\ shown' \in {shown \ {task[t].name}} \cup (IF busy THEN {} ELSE {configs})
  /\ UNCHANGED <<store, storeVars, configs, busy, unsettled, nested, faults>>
-----------------------------------------------------------------------------
Connecting(t) == ConnectRead(t) \/ Prompt(t)
Saving(t) == InnerPrompt(t) \/ Form(t) \/ Keep(t) \/ Save(t)
Deleting(t) == Confirm(t) \/ Remove(t) \/ Hide(t)
Accessing(t) ==
  \/ AccessKeyring(t) \/ LoadFile(t) \/ PutFile(t) \/ GiveUp(t)
  \/ \E u \in Task : Collide(t, u)

Next ==
  \/ Tick
  \/ \E t \in Task :
       \/ Connecting(t) \/ Saving(t) \/ Deleting(t) \/ Accessing(t) \/ ClickAdd(t)
       \/ \E n \in Name : ClickConnect(t, n) \/ ClickEdit(t, n) \/ ClickDelete(t, n)

Spec == Init /\ [][Next]_vars

-----------------------------------------------------------------------------
(* Properties *)

\* When nobody is at work on a name without a profile, no store keeps a
\* password for it, after any sequence of saves, renames and deletions.  The
\* exceptions: the profile was removed while another handler was about it, or
\* by a request whose reply was lost, or renamed in the window; the last write
\* of the name was not a clean one; or the other process has undone it.
SecretsHaveProfile ==
  \A n \in Name \ configs :
    /\ \A t \in Task : n \notin About(t)
    /\ n \notin unsettled \cup unclean
    => keyring[n] = 0 /\ ~InFile(n)

\* Between accesses tray and window both read what was written last, also when
\* that write or an earlier one had to turn to the file, unless the write was
\* not a clean one (a store failed, but for a keyring without an older password,
\* or another handler wrote beside it, or the other store was left with an
\* older one), or the other process has undone it in the file since.
LastWrittenIsRead ==
  \A n \in Name \ unclean :
    (\A t \in Task : at[t] = "none" \/ Subject(t) # n) =>
      \A t \in Task : Lookup(t, n) = last[n]

\* The flag that keeps the menus still follows the dialogs of the tray: it is
\* set while one is open, unless another has ended within or beside it, and it
\* never stays set when none is, which would stop the menus for good.
FlagFollowsDialogs ==
  /\ busy => InDialog # {}
  /\ InDialog # {} /\ ~nested => busy

-----------------------------------------------------------------------------
(* The inductive invariant behind the first one *)

\* Who writes a password does so for a profile on file, or for one that was
\* removed behind its back.
WritesForProfile(t) ==
  task[t].pc \in {"read", "prompt", "write", "drop", "store"} =>
    task[t].name \in configs \cup unsettled

\* A handler past its form has a name; one that drops an old name had one.
Named(t) ==
  /\ task[t].pc \in Place \ {"form"} => task[t].name # NoName
  /\ task[t].pc = "drop" => Renames(t)

\* A name that is not on file has no password, or a handler is about to delete it.
Cleans(t, n) ==
  \/ task[t].pc = "drop" /\ task[t].replace = n
  \/ task[t].pc = "forget" /\ task[t].name = n
CleanOrCleaned(n) ==
  \/ n \in configs \cup unsettled \cup unclean
  \/ keyring[n] = 0 /\ ~InFile(n)
  \/ \E t \in Task : Cleans(t, n)

\* An access belongs to a handler that has come to the stores.  While it goes
\* well the keyring has no other password than the one to write, and it has the
\* name to itself; and what it has read is what the file holds, but for the
\* changes of the other process.
AccessInv(t) ==
  at[t] # "none" =>
    /\ task[t].pc \in Storing
    /\ store # "windows"
    /\ t \in clean /\ UsesKeyring(t) => keyring[Subject(t)] \in {0, Value(t)}
    /\ t \in clean => Company(t) = {}
    /\ at[t] = "put" =>
         ~garbled /\ \A n \in Name \ behind[t] : data[t][n] = file[n]
OneAtATime ==
  \A t, u \in Task :
    t # u /\ at[t] \in {"put", "moved"} /\ at[u] \in {"put", "moved"} => Apart(t, u)

\* A store that is not there holds nothing.
UnusedIsEmpty ==
  /\ store = "windows" => file = Nothing /\ ~garbled
  /\ store = "file" => keyring = Nothing

StoreInv ==
  /\ \A t \in Task : AccessInv(t)
  /\ OneAtATime
  /\ UnusedIsEmpty
  /\ LastWrittenIsRead

DesktopInv ==
  /\ TypeOK
  /\ \A t \in Task : WritesForProfile(t)
  /\ \A t \in Task : Named(t)
  /\ \A n \in Name : CleanOrCleaned(n)
  /\ StoreInv
  /\ FlagFollowsDialogs
=============================================================================
