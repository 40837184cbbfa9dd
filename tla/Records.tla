------------------------------- MODULE Records -------------------------------
(***************************************************************************)
(* The files the controller keeps (main.go): the profiles, which are written   *)
(* to a temporary file that is renamed, under configMu; the history, which any *)
(* goroutine loads, extends and writes without a lock; and the statistics,     *)
(* kept in memory under a lock, read from their file when they are first used, *)
(* written at most every 30 seconds and fed from the traffic counters, which   *)
(* start at zero with every session of an engine.                            *)
(*                                                                         *)
(* os.WriteFile truncates the file and then writes it, and a crash may come in *)
(* between.  A file that is not valid JSON is Torn; the code reads the history *)
(* and the statistics from it as if there were none.                          *)
(*                                                                         *)
(* The three share no state.  A behaviour is one of a single file, which Init  *)
(* picks, so that their states do not multiply.                               *)
(***************************************************************************)
EXTENDS Naturals, Sequences

CONSTANTS Name,        \* profile names
          Version,     \* contents of a profile
          Goroutine,   \* goroutines that write a file
          Limit,       \* entries the history keeps (1000 in the code)
          MaxEntries,  \* bound on events
          MaxBytes,    \* bound on the traffic of a session
          MaxSessions, \* bound on sessions
          MaxFaults,   \* bound on failing writes and reads and on crashes
          Torn,        \* a file that is not valid JSON
          None         \* no counter, no draft

ASSUME VersionAssumption == 0 \notin Version
ASSUME GoroutineAssumption == "nobody" \notin Goroutine
ASSUME MarksAssumption ==
  /\ Torn # None
  /\ {Torn, None} \cap Nat = {}
  /\ Torn \notin Seq(Nat)
ASSUME LimitAssumption == Limit \in Nat \ {0}
ASSUME RecordsBoundAssumption ==
  /\ MaxEntries \in Nat /\ MaxBytes \in Nat /\ MaxSessions \in Nat
  /\ MaxFaults \in Nat

VARIABLES
  part,       \* the file this behaviour is about
  faults,     \* failures so far
  configs,    \* the profile file
  draft,      \* the temporary file beside it
  configMu,   \* the goroutine that has the lock
  editor,     \* where each goroutine stands in a save or deletion
  history,    \* the history file
  recorder,   \* where each goroutine stands in recordHistory or a clearing
  events,     \* the events so far
  recorded,   \* history: what the file is to hold the last entries of
  overlap,    \* history: more than one goroutine has been at it since it was
              \* last quiet
  moved,      \* history: the bytes moved by all sessions together
  session,    \* the sessions so far
  counter,    \* the byte counter of the session that runs, or None
  sample,     \* what monitorTraffic has read and not yet taken in
  snapshot,   \* trafficState.items of the profile
  loaded,     \* analyticsState.loaded
  total,      \* analyticsState: the profile's bytes in memory
  fresh,      \* lastSave is less than 30 seconds ago
  saving,     \* saveAnalyticsLocked has truncated the file
  saved,      \* the statistics file
  kept,       \* history: the most it has held since it was cleared
  lost        \* history: it was not read or written, or written without reading

profileVars == <<configs, draft, configMu, editor>>
historyVars == <<history, recorder, events, recorded, overlap>>
trafficVars == <<moved, session, counter, sample, snapshot>>
analyticsVars == <<loaded, total, fresh, saving, saved, kept, lost>>
vars == <<part, faults, profileVars, historyVars, trafficVars, analyticsVars>>

-----------------------------------------------------------------------------
Nobody == "nobody"

Profiles == INSTANCE ProfileRegister WITH table <- configs

Entry == 1..MaxEntries
Lists == UNION {[1..n -> Entry] : n \in 0..Limit}
Idle == [pc |-> "idle"]

TypeOK ==
  /\ part \in {"profiles", "history", "analytics"}
  /\ faults \in 0..MaxFaults
  /\ configs \in Profiles!Tables
  /\ draft \in Profiles!Tables \cup {Torn, None}
  /\ configMu \in Goroutine \cup {Nobody}
  /\ editor \in [Goroutine ->
       {Idle} \cup [pc : {"load"}, edit : Profiles!Edits]
              \cup [pc : {"create", "write", "rename"}, next : Profiles!Tables]]
  /\ history \in Lists \cup {Torn}
  /\ recorder \in [Goroutine -> {Idle} \cup [pc : {"create", "write"}, list : Lists]]
  /\ events \in 0..MaxEntries
  /\ recorded \in Seq(Entry)
  /\ overlap \in BOOLEAN
  /\ moved \in Nat
  /\ session \in 0..MaxSessions
  /\ counter \in 0..MaxBytes \cup {None}
  /\ sample \in 0..MaxBytes \cup {None}
  /\ snapshot \in 0..MaxBytes \cup {None}
  /\ loaded \in BOOLEAN
  /\ total \in Nat
  /\ fresh \in BOOLEAN
  /\ saving \in BOOLEAN
  /\ saved \in Nat \cup {Torn}
  /\ kept \in Nat
  /\ lost \in BOOLEAN

Init ==
  /\ part \in {"profiles", "history", "analytics"}
  /\ faults = 0
  /\ configs = [n \in Name |-> Profiles!Absent]
  /\ draft = None
  /\ configMu = Nobody
  /\ editor = [g \in Goroutine |-> Idle]
  /\ history = <<>>
  /\ recorder = [g \in Goroutine |-> Idle]
  /\ events = 0
  /\ recorded = <<>>
  /\ overlap = FALSE
  /\ moved = 0
  /\ session = 0
  /\ counter = None
  /\ sample = None
  /\ snapshot = None
  /\ loaded = FALSE
  /\ total = 0
  /\ fresh = FALSE
  /\ saving = FALSE
  /\ saved = 0
  /\ kept = 0
  /\ lost = FALSE

Fault == faults < MaxFaults /\ faults' = faults + 1

-----------------------------------------------------------------------------
(* upsertConfig, deleteConfig and saveConfigs *)

EndEdit(g) ==
  /\ configMu' = Nobody
  /\ editor' = [editor EXCEPT ![g] = Idle]

\* Mutant: nobody waits for the lock.
LockAnyway(g, edit) ==
  /\ editor[g] = Idle
  /\ configMu' = g
  /\ editor' = [editor EXCEPT ![g] = [pc |-> "load", edit |-> edit]]
  /\ UNCHANGED <<configs, draft, faults>>

\* The lock is taken before the file is read.
LockConfigs(g, edit) ==
  /\ editor[g] = Idle
  /\ configMu = Nobody
  /\ configMu' = g
  /\ editor' = [editor EXCEPT ![g] = [pc |-> "load", edit |-> edit]]
  /\ UNCHANGED <<configs, draft, faults>>

\* loadConfigs and the edit; a file that cannot be read ends it.
LoadAndEdit(g) ==
  /\ editor[g].pc = "load"
  /\ UNCHANGED <<configs, draft>>
  /\ \/ /\ editor' = [editor EXCEPT ![g] =
                        [pc |-> "create", next |-> Profiles!Edited(@.edit, configs)]]
        /\ UNCHANGED <<configMu, faults>>
     \/ Fault /\ EndEdit(g)

CreateDraft(g) ==
  /\ editor[g].pc = "create"
  /\ draft' = Torn
  /\ editor' = [editor EXCEPT ![g].pc = "write"]
  /\ UNCHANGED <<configs, configMu, faults>>

\* A write that fails leaves the draft as it is.
WriteDraft(g) ==
  /\ editor[g].pc = "write"
  /\ UNCHANGED configs
  /\ \/ /\ draft' = editor[g].next
        /\ editor' = [editor EXCEPT ![g].pc = "rename"]
        /\ UNCHANGED <<configMu, faults>>
     \/ Fault /\ EndEdit(g) /\ UNCHANGED draft

\* The rename takes whatever the temporary file holds.
RenameDraft(g) ==
  /\ editor[g].pc = "rename"
  /\ \/ configs' = draft /\ draft' = None /\ UNCHANGED faults
     \/ Fault /\ UNCHANGED <<configs, draft>>
  /\ EndEdit(g)

EditProfiles(g) ==
  \/ \E edit \in Profiles!Edits : LockConfigs(g, edit)
  \/ LoadAndEdit(g) \/ CreateDraft(g) \/ WriteDraft(g) \/ RenameDraft(g)

-----------------------------------------------------------------------------
(* recordHistory and handleHistoryAPI *)

Loaded == IF history = Torn THEN <<>> ELSE history
Busy == {g \in Goroutine : recorder[g] # Idle}

\* Mutant: the first entries are kept when there are too many.
FirstEntries(list) == IF Len(list) > Limit THEN SubSeq(list, 1, Limit) ELSE list

\* What is left of a list that has grown beyond the limit.
LastEntries(list) ==
  IF Len(list) > Limit THEN SubSeq(list, Len(list) - Limit + 1, Len(list)) ELSE list

\* The goroutine leaves.  When it was the last, and its own write was not a
\* whole one or others have been at it meanwhile, the record starts from what
\* the file now has.
Leave(g, whole) ==
  /\ recorder' = [recorder EXCEPT ![g] = Idle]
  /\ IF Busy = {g}
     THEN /\ overlap' = FALSE
          /\ recorded' = IF whole /\ ~overlap THEN recorded ELSE Loaded'
     ELSE UNCHANGED <<overlap, recorded>>

Enter(g, list) ==
  /\ recorder[g] = Idle
  /\ recorder' = [recorder EXCEPT ![g] = [pc |-> "create", list |-> list]]
  /\ overlap' = (Busy # {})

\* loadHistory, the new entry and the limit.  A file that cannot be read is
\* taken for an empty one, and its entries are gone with the next write.
LoadHistory(g) ==
  /\ events < MaxEntries
  /\ events' = events + 1
  /\ \/ /\ Enter(g, LastEntries(Append(Loaded, events')))
        /\ recorded' = Append(recorded, events')
        /\ UNCHANGED faults
     \/ /\ Fault
        /\ Enter(g, <<events'>>)
        /\ recorded' = <<events'>>
  /\ UNCHANGED history

\* The request to clear the history writes the empty list.
ClearHistory(g) ==
  /\ Enter(g, <<>>)
  /\ recorded' = <<>>
  /\ UNCHANGED <<history, events, faults>>

CreateHistory(g) ==
  /\ recorder[g].pc = "create"
  /\ \/ /\ history' = Torn
        /\ recorder' = [recorder EXCEPT ![g].pc = "write"]
        /\ UNCHANGED <<recorded, overlap, faults>>
     \/ /\ Fault
        /\ UNCHANGED history
        /\ Leave(g, FALSE)
  /\ UNCHANGED events

\* A shorter text over that of another goroutine leaves the end of the other.
WriteHistory(g) ==
  /\ recorder[g].pc = "write"
  /\ \/ history' = recorder[g].list /\ Leave(g, TRUE) /\ UNCHANGED faults
     \/ /\ history \notin {Torn, recorder[g].list}
        /\ history' = Torn
        /\ Leave(g, TRUE)
        /\ UNCHANGED faults
     \/ Fault /\ UNCHANGED history /\ Leave(g, FALSE)
  /\ UNCHANGED events

RecordHistory(g) ==
  LoadHistory(g) \/ ClearHistory(g) \/ CreateHistory(g) \/ WriteHistory(g)

-----------------------------------------------------------------------------
(* Engines and monitorTraffic *)

\* The engine of the profile: a session, the bytes it moves, and its end.
EngineRuns ==
  \/ /\ counter = None
     /\ session < MaxSessions
     /\ session' = session + 1
     /\ counter' = 0
     /\ UNCHANGED moved
  \/ /\ counter # None
     /\ counter < MaxBytes
     /\ counter' = counter + 1
     /\ moved' = moved + 1
     /\ UNCHANGED session
  \/ /\ counter # None
     /\ counter' = None
     /\ UNCHANGED <<session, moved>>

\* The counter is read; without an answer the snapshot is dropped.
ReadTraffic ==
  /\ sample = None
  /\ sample' = counter
  /\ snapshot' = IF counter = None THEN None ELSE snapshot

\* saveAnalyticsLocked: forced, or when the last time was 30 seconds ago.
SaveAnalytics(force) ==
  IF force \/ ~fresh THEN saving' = TRUE /\ saved' = Torn ELSE UNCHANGED <<saving, saved>>

\* Mutant: the statistics are used without the file's.
UseAnyway(add) ==
  /\ loaded' = TRUE
  /\ total' = total + add
  /\ UNCHANGED <<lost, faults>>

\* loadAnalyticsLocked, once, and what is added.  A file that cannot be read is
\* taken for an empty one, and so is a torn one.
UseStatistics(add) ==
  /\ loaded' = TRUE
  /\ \/ loaded /\ total' = total + add /\ UNCHANGED <<lost, faults>>
     \/ ~loaded /\ saved # Torn /\ total' = saved + add /\ UNCHANGED <<lost, faults>>
     \/ ~loaded /\ saved = Torn /\ total' = add /\ UNCHANGED <<lost, faults>>
     \/ ~loaded /\ Fault /\ total' = add /\ lost' = TRUE

\* Mutant: the first counter after a start counts in full.
DeltaFromZero(received, previous) ==
  IF previous = None \/ received < previous THEN received ELSE received - previous

\* What updateTrafficSnapshot adds for a counter: nothing for the first one or
\* when it has fallen, since a new session counts from zero.
Delta(received, previous) ==
  IF previous # None /\ received >= previous THEN received - previous ELSE 0

\* recordTrafficAnalytics: what has moved is added and comes to be saved.
RecordTraffic(delta) ==
  IF delta > 0 THEN UseStatistics(delta) /\ SaveAnalytics(FALSE) /\ UNCHANGED <<fresh, kept>>
  ELSE UNCHANGED <<analyticsVars, faults>>

\* Sent bytes take the same way as the received ones; when they have fallen
\* nothing is added either.
UpdateTrafficSnapshot ==
  /\ sample # None
  /\ ~saving
  /\ snapshot' = sample
  /\ sample' = None
  /\ \E delta \in {0, Delta(sample, snapshot)} : RecordTraffic(delta)

MonitorTraffic ==
  /\ \/ ReadTraffic /\ UNCHANGED <<analyticsVars, faults>>
     \/ UpdateTrafficSnapshot
  /\ UNCHANGED <<moved, session, counter>>

-----------------------------------------------------------------------------
(* The statistics *)

\* recordReconnectAnalytics
RecordReconnect ==
  /\ ~saving
  /\ UseStatistics(0)
  /\ SaveAnalytics(TRUE)
  /\ UNCHANGED <<fresh, kept>>

\* monitorAnalyticsFlows, when lsof works.  Flows of a profile are added to its
\* statistics; without any the file is not read, and is written all the same.
MonitorFlows ==
  /\ ~saving
  /\ \/ UseStatistics(0)
     \/ /\ lost' = (lost \/ (~loaded /\ ~fresh))
        /\ UNCHANGED <<loaded, total, faults>>
  /\ SaveAnalytics(FALSE)
  /\ UNCHANGED <<fresh, kept>>

\* handleAnalyticsAPI: asked for the statistics.
ReadAnalytics ==
  /\ ~saving
  /\ UseStatistics(0)
  /\ UNCHANGED <<fresh, saving, saved, kept>>

\* The request to clear them, whatever has been read.
ClearAnalytics ==
  /\ ~saving
  /\ loaded' = TRUE
  /\ total' = 0
  /\ kept' = 0
  /\ lost' = FALSE
  /\ SaveAnalytics(TRUE)
  /\ UNCHANGED <<fresh, faults>>

\* The time of the last save is set whether the write succeeds or not.
FinishSave ==
  /\ saving
  /\ saving' = FALSE
  /\ fresh' = TRUE
  /\ \/ /\ saved' = total
        /\ kept' = IF total > kept THEN total ELSE kept
        /\ UNCHANGED <<lost, faults>>
     \/ Fault /\ lost' = TRUE /\ UNCHANGED <<saved, kept>>
  /\ UNCHANGED <<loaded, total>>

HalfMinutePasses ==
  fresh /\ fresh' = FALSE /\ UNCHANGED <<loaded, total, saving, saved, kept, lost, faults>>
-----------------------------------------------------------------------------
\* The controller dies and is started again, with nothing in memory.  The
\* engines belong to the helper and go on.
Restart ==
  /\ Fault
  /\ configMu' = Nobody
  /\ editor' = [g \in Goroutine |-> Idle]
  /\ recorder' = [g \in Goroutine |-> Idle]
  /\ recorded' = IF Busy = {} THEN recorded ELSE Loaded
  /\ overlap' = FALSE
  /\ sample' = None
  /\ snapshot' = None
  /\ loaded' = FALSE
  /\ total' = 0
  /\ saving' = FALSE
  /\ fresh' = FALSE
  /\ lost' = (lost \/ saving)
  /\ UNCHANGED <<configs, draft, history, events, moved, session, counter, saved,
                 kept, part>>

Profile(g) ==
  part = "profiles" /\ EditProfiles(g) /\ UNCHANGED <<part, historyVars, trafficVars, analyticsVars>>
History(g) ==
  part = "history" /\ RecordHistory(g) /\ UNCHANGED <<part, profileVars, trafficVars, analyticsVars>>
Traffic ==
  /\ part = "analytics"
  /\ UNCHANGED <<part, profileVars, historyVars>>
  /\ \/ EngineRuns /\ UNCHANGED <<sample, snapshot, analyticsVars, faults>>
     \/ MonitorTraffic
Analytics ==
  /\ part = "analytics"
  /\ UNCHANGED <<part, profileVars, historyVars, trafficVars>>
  /\ \/ RecordReconnect \/ MonitorFlows \/ ReadAnalytics \/ ClearAnalytics
     \/ FinishSave \/ HalfMinutePasses

Next ==
  \/ \E g \in Goroutine : Profile(g) \/ History(g)
  \/ Traffic \/ Analytics \/ Restart

Spec == Init /\ [][Next]_vars

-----------------------------------------------------------------------------
(* Properties *)

\* The profile file is at every moment a whole table, and changes by one whole
\* edit of what was there, however saves, deletions, failing writes and crashes
\* of the controller interleave: upsertConfig, deleteConfig and saveConfigs
\* implement ProfileRegister.
ProfilesSpec == Profiles!RegisterSpec

\* Whenever nobody is in recordHistory or a clearing, the file has the events
\* since the last clearing, the last of them in their order.  A write that
\* fails or is cut off, an overlap, or a file that cannot be read may lose what
\* was there before or at that moment, but never a later event: the record goes
\* on from what the file then has.
HistoryComplete ==
  Busy = {} =>
    LET number == IF Len(recorded) < Limit THEN Len(recorded) ELSE Limit
    IN  Loaded = [i \in 1..number |-> recorded[Len(recorded) - number + i]]

\* Neither the statistics nor their file ever claim more bytes than sessions
\* have moved: no byte is counted twice over the ends and starts of sessions,
\* restarts of the controller and saves that fail.
TotalsAreReal ==
  /\ total <= moved
  /\ saved # Torn => saved <= moved

\* What a save has once put into the statistics file is still there, over any
\* number of restarts, sessions and saves: nothing in memory goes to the file
\* without having been added to what it had.  The exceptions: the statistics
\* were cleared, or could not be read, a write has failed or was cut off, or,
\* after a restart, the loop over the flows came first and found none.
StatisticsKept == ~lost /\ ~saving => saved = kept

RecordsInv == TypeOK /\ HistoryComplete /\ TotalsAreReal /\ StatisticsKept
=============================================================================
