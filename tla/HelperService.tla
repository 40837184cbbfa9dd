---------------------------- MODULE HelperService ----------------------------
(***************************************************************************)
(* nativehelper: the sessions of the privileged helper.  Requests (Start,    *)
(* SendOTP, Stop, Reset) run under one mutex; for each session a monitor      *)
(* goroutine watches the engine's log and sets the network up, and with       *)
(* OpenVPN a second goroutine talks to the engine's management socket.  The   *)
(* goroutines take the mutex only for their updates, so requests fall between *)
(* their steps.                                                             *)
(*                                                                         *)
(* Sessions are numbered in the order of Start, and a session's number is     *)
(* also the name of its engine's tunnel interface; 0 stands for no session,   *)
(* no interface and no transaction.  A profile's routes on the host are       *)
(* one row <<profile, interface>>: Activate adds it and Deactivate deletes    *)
(* it.  Their own steps and failures are those of TransactionManager.         *)
(***************************************************************************)
EXTENDS Integers

CONSTANTS Profile,       \* profiles
          OpenVPN,       \* those that use OpenVPN; the others read stdin
          MaxSessions,   \* bound on calls of Start
          MaxMixed,      \* bound on them when one is for an OpenVPN profile
          MaxFaults      \* bound on steps in which calls of the system fail

ASSUME OpenVPNAssumption == OpenVPN \subseteq Profile
ASSUME ProfileAssumption == "none" \notin Profile
ASSUME MaxSessionsAssumption == MaxSessions \in Nat \ {0}
ASSUME MaxMixedAssumption == MaxMixed \in Nat
ASSUME MaxFaultsAssumption == MaxFaults \in Nat

VARIABLES
  sessions,     \* service.sessions: the session of each profile
  profile,      \* request.Profile of each session
  state,        \* state
  tx,           \* transaction: the interface it was activated for
  interface,    \* interfaceName
  management,   \* management # nil
  challenge,    \* challenge
  monitor,      \* where the monitor goroutine stands
  seen,         \* the interface monitor has read from the log
  reader,       \* where manageOpenVPN stands
  engine,       \* the engine process
  up,           \* engines whose tunnel interface exists
  log,          \* the first interface reported in each profile's log file
  journal,      \* transactions on disk: the interface of each session's
  network,      \* rows on the host
  abandoned,    \* history: sessions that have left a record nobody holds, for
                \* a Deactivate or the rollback of an Activate failed
  late,         \* history: sessions put to wait after finish had settled them
  faults        \* failures so far

sessionVars == <<state, tx, interface, management, challenge>>
goroutineVars == <<monitor, seen, reader, late>>
hostVars == <<journal, network, abandoned>>
vars == <<sessions, profile, log, engine, up, sessionVars, goroutineVars,
          hostVars, faults>>

-----------------------------------------------------------------------------
Session == 1..MaxSessions
Session0 == 0..MaxSessions
NoProfile == "none"

Negotiating == {"connecting", "waiting-otp"}
Ended == {"stopped", "failed"}
State == {"new", "connected"} \cup Negotiating \cup Ended
EngineState == {"none", "running", "terminating", "exited"}

MonitorPlace == {"none", "watch", "activate", "record", "connect", "fail", "reap",
                 "done"}
ReaderPlace == {"none", "dial", "store", "read", "need", "need-static", "refused", "fail",
                "done"}

TypeOK ==
  /\ sessions \in [Profile -> Session0]
  /\ profile \in [Session -> Profile \cup {NoProfile}]
  /\ state \in [Session -> State]
  /\ tx \in [Session -> Session0]
  /\ interface \in [Session -> Session0]
  /\ management \in [Session -> BOOLEAN]
  /\ challenge \in [Session -> {"", "static", "dynamic"}]
  /\ monitor \in [Session -> MonitorPlace]
  /\ seen \in [Session -> Session0]
  /\ reader \in [Session -> ReaderPlace]
  /\ engine \in [Session -> EngineState]
  /\ up \in SUBSET Session
  /\ log \in [Profile -> Session0]
  /\ journal \in [Session -> Session0]
  /\ network \in SUBSET (Profile \X Session)
  /\ abandoned \in SUBSET Session
  /\ late \in SUBSET Session
  /\ faults \in 0..MaxFaults

Init ==
  /\ sessions = [p \in Profile |-> 0]
  /\ profile = [s \in Session |-> NoProfile]
  /\ state = [s \in Session |-> "new"]
  /\ tx = [s \in Session |-> 0]
  /\ interface = [s \in Session |-> 0]
  /\ management = [s \in Session |-> FALSE]
  /\ challenge = [s \in Session |-> ""]
  /\ monitor = [s \in Session |-> "none"]
  /\ seen = [s \in Session |-> 0]
  /\ reader = [s \in Session |-> "none"]
  /\ engine = [s \in Session |-> "none"]
  /\ up = {}
  /\ log = [p \in Profile |-> 0]
  /\ journal = [s \in Session |-> 0]
  /\ network = {}
  /\ abandoned = {}
  /\ late = {}
  /\ faults = 0

-----------------------------------------------------------------------------
Fault == faults < MaxFaults /\ faults' = faults + 1

Alive(s) == engine[s] \in {"running", "terminating"}
Reports(s) == log[profile[s]]

\* Mutant: the signal reaches nobody.
TerminateNobody(S) == UNCHANGED engine

Terminate(S) ==
  engine' = [s \in Session |->
               IF s \in S /\ engine[s] = "running" THEN "terminating" ELSE engine[s]]

\* Mutant: the transaction is deactivated only for a connected session, and
\* forgotten for every other.
ReleaseConnected(S) ==
  LET using == {s \in S : tx[s] # 0 /\ interface[s] # 0}
  IN  /\ tx' = [s \in Session |-> IF s \in S THEN 0 ELSE tx[s]]
      /\ interface' = [s \in Session |-> IF s \in S THEN 0 ELSE interface[s]]
      /\ journal' = [s \in Session |-> IF s \in using THEN 0 ELSE journal[s]]
      /\ network' = network \ {<<profile[s], tx[s]>> : s \in using}
      /\ UNCHANGED <<abandoned, faults>>

\* Mutant: the record is dropped and the routes stay.
ReleaseRecord(S) ==
  /\ tx' = [s \in Session |-> IF s \in S THEN 0 ELSE tx[s]]
  /\ interface' = [s \in Session |-> IF s \in S THEN 0 ELSE interface[s]]
  /\ journal' = [s \in Session |-> IF s \in S /\ tx[s] # 0 THEN 0 ELSE journal[s]]
  /\ UNCHANGED <<network, abandoned, faults>>

\* Mutant: the routes are deleted whatever interface they are on.
ReleaseRoutes(S) ==
  /\ tx' = [s \in Session |-> IF s \in S THEN 0 ELSE tx[s]]
  /\ interface' = [s \in Session |-> IF s \in S THEN 0 ELSE interface[s]]
  /\ journal' = [s \in Session |-> IF s \in S /\ tx[s] # 0 THEN 0 ELSE journal[s]]
  /\ network' = {row \in network : \A s \in S : tx[s] = 0 \/ row[1] # profile[s]}
  /\ UNCHANGED <<abandoned, faults>>

\* releaseNetworkLocked, for each session of S.  The transaction is forgotten
\* whether or not Deactivate succeeds; when it fails the record stays, and the
\* routes may.  Without a transaction the routes of the interface are deleted
\* directly.
Release(S) ==
  LET using == {s \in S : tx[s] # 0}
      bare == {s \in S : tx[s] = 0 /\ interface[s] # 0}
      rows(released) == {<<profile[s], tx[s]>> : s \in released}
                          \cup {<<profile[s], interface[s]>> : s \in bare}
  IN  /\ tx' = [s \in Session |-> IF s \in S THEN 0 ELSE tx[s]]
      /\ interface' = [s \in Session |-> IF s \in S THEN 0 ELSE interface[s]]
      /\ \E failed \in SUBSET using :
           /\ Fault \/ (failed = {} /\ UNCHANGED faults)
           /\ journal' = [s \in Session |->
                            IF s \in using \ failed THEN 0 ELSE journal[s]]
           /\ \E gone \in SUBSET failed :
                network' = network \ rows((using \ failed) \cup gone)
           /\ abandoned' = abandoned \cup failed

\* stopLocked, leaving the sessions of S in the given state.
StopLocked(S, outcome) ==
  /\ Release(S)
  /\ management' = [s \in Session |-> management[s] /\ s \notin S]
  /\ Terminate(S)
  /\ state' = [s \in Session |-> IF s \in S THEN outcome ELSE state[s]]
  /\ UNCHANGED <<challenge, sessions, profile, log, up, seen, late>>

Fail(s) == StopLocked({s}, "failed")

-----------------------------------------------------------------------------
(* Requests *)

\* The number of the next session, of profile p.
NextSession(p, s) ==
  /\ profile[s] = NoProfile
  /\ \A r \in 1..(s - 1) : profile[r] # NoProfile
  /\ p \in OpenVPN \/ (\E r \in 1..(s - 1) : profile[r] \in OpenVPN) => s <= MaxMixed

\* A new session of the profile with its engine and its goroutines.  The log
\* file is the profile's and is truncated, whoever still reads or writes it.
\* When the engine does not take its password or the one-time password given
\* with the request, the session stays behind stopped, and no monitor is
\* started for it.  Any error before that leaves the truncated log.
Start(p) ==
  /\ sessions[p] # 0 => state[sessions[p]] \in Ended
  /\ log' = [log EXCEPT ![p] = 0]
  /\ \/ \E s \in Session :
          /\ NextSession(p, s)
          /\ profile' = [profile EXCEPT ![s] = p]
          /\ sessions' = [sessions EXCEPT ![p] = s]
          /\ \/ /\ engine' = [engine EXCEPT ![s] = "running"]
                /\ \E initial \in IF p \in OpenVPN THEN {"connecting"} ELSE Negotiating :
                     state' = [state EXCEPT ![s] = initial]
                /\ monitor' = [monitor EXCEPT ![s] = "watch"]
                /\ reader' = IF p \in OpenVPN
                             THEN [reader EXCEPT ![s] = "dial"] ELSE reader
                /\ UNCHANGED faults
             \/ /\ p \notin OpenVPN
                /\ Fault
                /\ engine' = [engine EXCEPT ![s] = "terminating"]
                /\ state' = [state EXCEPT ![s] = "stopped"]
                /\ UNCHANGED <<monitor, reader>>
     \/ /\ Fault
        /\ UNCHANGED <<profile, sessions, engine, state, monitor, reader>>
  /\ UNCHANGED <<tx, interface, management, challenge, up, seen, late, hostVars>>

\* The user's one-time password goes to the engine, if somebody waits for one.
SendOTP(p) ==
  LET s == sessions[p]
  IN  /\ s # 0
      /\ state[s] \in Negotiating
      /\ p \in OpenVPN => management[s] /\ challenge[s] # ""
      /\ Alive(s)
      /\ state' = [state EXCEPT ![s] = "connecting"]
      /\ challenge' = [challenge EXCEPT ![s] = ""]
      /\ UNCHANGED <<sessions, profile, log, engine, up, tx, interface, management,
                     goroutineVars, hostVars, faults>>

Stop(p) ==
  /\ sessions[p] # 0
  /\ StopLocked({sessions[p]}, "stopped")
  /\ UNCHANGED <<monitor, reader>>

\* Every session that is not stopped is stopped, and all are forgotten.
Reset ==
  LET listed == {sessions[p] : p \in Profile} \ {0}
      S == {s \in listed : state[s] # "stopped"}
  IN  /\ Release(S)
      /\ management' = [s \in Session |-> management[s] /\ s \notin S]
      /\ Terminate(S)
      /\ state' = [s \in Session |-> IF s \in S THEN "stopped" ELSE state[s]]
      /\ sessions' = [p \in Profile |-> 0]
      /\ UNCHANGED <<challenge, profile, log, up, goroutineVars>>

-----------------------------------------------------------------------------
(* The monitor of a session *)

GoMonitor(s, place) == monitor' = [monitor EXCEPT ![s] = place]

\* A tick finds an interface in the profile's log, and it exists.
SeeInterface(s) ==
  /\ monitor[s] = "watch"
  /\ Reports(s) \in up
  /\ seen' = [seen EXCEPT ![s] = Reports(s)]
  /\ GoMonitor(s, "activate")
  /\ UNCHANGED <<sessions, profile, log, engine, up, sessionVars, reader, late,
                 hostVars, faults>>

\* applyNetwork builds the plan and activates it without the mutex.  When that
\* fails and rolling it back fails too, the record stays with nobody to hold
\* it, and of the routes what was there.
Activate(s) ==
  /\ monitor[s] = "activate"
  /\ \/ /\ seen[s] \in up
        /\ journal' = [journal EXCEPT ![s] = seen[s]]
        /\ network' = network \cup {<<profile[s], seen[s]>>}
        /\ GoMonitor(s, "record")
        /\ UNCHANGED <<abandoned, faults>>
     \/ /\ Fault \/ (seen[s] \notin up /\ UNCHANGED faults)
        /\ GoMonitor(s, "fail")
        /\ UNCHANGED <<journal, network, abandoned>>
     \/ /\ Fault
        /\ journal' = [journal EXCEPT ![s] = seen[s]]
        /\ \/ UNCHANGED network
           \/ seen[s] \in up /\ network' = network \cup {<<profile[s], seen[s]>>}
        /\ abandoned' = abandoned \cup {s}
        /\ GoMonitor(s, "fail")
  /\ UNCHANGED <<sessions, profile, log, engine, up, sessionVars, seen, reader, late>>

\* The transaction is entered under the mutex ...
RecordTransaction(s) ==
  /\ monitor[s] = "record"
  /\ tx' = [tx EXCEPT ![s] = journal[s]]
  /\ GoMonitor(s, "connect")
  /\ UNCHANGED <<sessions, profile, log, engine, up, state, interface, management,
                 challenge, seen, reader, late, hostVars, faults>>

\* ... and, the mutex released and taken again, the session is connected.
Connect(s) ==
  /\ monitor[s] = "connect"
  /\ interface' = [interface EXCEPT ![s] = seen[s]]
  /\ state' = [state EXCEPT ![s] = "connected"]
  /\ GoMonitor(s, "reap")
  /\ UNCHANGED <<sessions, profile, log, engine, up, tx, management, challenge, seen,
                 reader, late, hostVars, faults>>

\* No network, or no interface before the deadline: the session fails and its
\* engine is told to end.
SetupFails(s) ==
  /\ monitor[s] = "fail"
  /\ Fail(s)
  /\ GoMonitor(s, "reap")
  /\ UNCHANGED reader

\* Mutant: the deadline only ends the monitor's loop.
TimeoutOnly(s) ==
  /\ monitor[s] = "watch"
  /\ GoMonitor(s, "reap")
  /\ UNCHANGED <<sessions, profile, log, engine, up, sessionVars, seen, reader, late,
                 hostVars, faults>>

Timeout(s) ==
  /\ monitor[s] = "watch"
  /\ Fail(s)
  /\ GoMonitor(s, "reap")
  /\ UNCHANGED reader

\* Mutant: finish cleans up and does not settle the state.
FinishQuietly(s) ==
  /\ monitor[s] \in {"watch", "reap"}
  /\ engine[s] = "exited"
  /\ Release({s})
  /\ management' = [management EXCEPT ![s] = FALSE]
  /\ GoMonitor(s, "done")
  /\ UNCHANGED <<sessions, profile, log, engine, up, state, challenge, seen, reader,
                 late>>

\* Mutant: finish relies on Stop and fail to have released the network.
FinishWithoutRelease(s) ==
  /\ monitor[s] \in {"watch", "reap"}
  /\ engine[s] = "exited"
  /\ management' = [management EXCEPT ![s] = FALSE]
  /\ state' = [state EXCEPT ![s] = IF state[s] = "stopped" THEN "stopped" ELSE "failed"]
  /\ GoMonitor(s, "done")
  /\ UNCHANGED <<sessions, profile, log, engine, up, tx, interface, challenge, seen,
                 reader, late, hostVars, faults>>

\* The engine has exited: finish releases what the session still holds.
Finish(s) ==
  /\ monitor[s] \in {"watch", "reap"}
  /\ engine[s] = "exited"
  /\ Release({s})
  /\ management' = [management EXCEPT ![s] = FALSE]
  /\ state' = [state EXCEPT ![s] = IF state[s] = "stopped" THEN "stopped" ELSE "failed"]
  /\ GoMonitor(s, "done")
  /\ UNCHANGED <<sessions, profile, log, engine, up, challenge, seen, reader, late>>

-----------------------------------------------------------------------------
(* manageOpenVPN *)

GoReader(s, place) == reader' = [reader EXCEPT ![s] = place]

Dial(s) ==
  /\ reader[s] = "dial"
  /\ \/ Alive(s) /\ GoReader(s, "store") /\ UNCHANGED faults
     \/ /\ Fault \/ (~Alive(s) /\ UNCHANGED faults)
        /\ GoReader(s, "fail")
  /\ UNCHANGED <<sessions, profile, log, engine, up, sessionVars, monitor, seen, late,
                 hostVars>>

\* The connection is stored whatever has become of the session meanwhile.
StoreConnection(s) ==
  /\ reader[s] = "store"
  /\ management' = [management EXCEPT ![s] = TRUE]
  /\ GoReader(s, "read")
  /\ UNCHANGED <<sessions, profile, log, engine, up, state, tx, interface, challenge,
                 monitor, seen, late, hostVars, faults>>

\* A line about the password is read, without the mutex: the engine asks for
\* credentials, asks with a static challenge, or has refused what it got.
\* Once the connection is closed the scanner still gives the lines it holds.
ReadLine(s) ==
  /\ reader[s] = "read"
  /\ \E line \in {"need", "need-static", "refused"} : GoReader(s, line)
  /\ UNCHANGED <<sessions, profile, log, engine, up, sessionVars, monitor, seen, late,
                 hostVars, faults>>

\* Under the mutex the reader puts the session to wait for the user's answer,
\* whatever has become of it.
AskUser(s) ==
  /\ \/ /\ reader[s] = "need-static"
        /\ challenge' = [challenge EXCEPT ![s] = "static"]
     \/ /\ reader[s] = "need"
        /\ challenge[s] = "dynamic"
        /\ UNCHANGED challenge
  /\ state' = [state EXCEPT ![s] = "waiting-otp"]
  /\ late' = IF monitor[s] = "done" THEN late \cup {s} ELSE late
  /\ GoReader(s, "read")
  /\ UNCHANGED <<sessions, profile, log, engine, up, tx, interface, management,
                 monitor, seen, hostVars, faults>>

\* The stored credentials answer; that fails on a closed connection.
AnswerCredentials(s) ==
  /\ reader[s] = "need"
  /\ challenge[s] # "dynamic"
  /\ \/ Alive(s) /\ management[s] /\ GoReader(s, "read")
     \/ ~(Alive(s) /\ management[s]) /\ GoReader(s, "fail")
  /\ UNCHANGED <<sessions, profile, log, engine, up, sessionVars, monitor, seen, late,
                 hostVars, faults>>

\* A dynamic challenge, or a second factor to append, is kept for the next
\* prompt; a refusal without either changes nothing.
NoteRefusal(s) ==
  /\ reader[s] = "refused"
  /\ challenge' \in {challenge, [challenge EXCEPT ![s] = "dynamic"]}
  /\ GoReader(s, "read")
  /\ UNCHANGED <<sessions, profile, log, engine, up, state, tx, interface,
                 management, monitor, seen, late, hostVars, faults>>

ReaderFails(s) ==
  /\ reader[s] = "fail"
  /\ Fail(s)
  /\ GoReader(s, "done")
  /\ UNCHANGED monitor

\* Mutant: only the engine's end of the connection is looked at.
ReaderEndsIfTold(s) ==
  /\ reader[s] = "read"
  /\ Alive(s)
  /\ ~management[s]
  /\ GoReader(s, "done")
  /\ UNCHANGED <<sessions, profile, log, engine, up, sessionVars, monitor, seen, late,
                 hostVars, faults>>

\* The connection was closed by either side.
ReaderEnds(s) ==
  /\ reader[s] = "read"
  /\ ~Alive(s) \/ ~management[s]
  /\ GoReader(s, "done")
  /\ UNCHANGED <<sessions, profile, log, engine, up, sessionVars, monitor, seen, late,
                 hostVars, faults>>

-----------------------------------------------------------------------------
(* The engines *)

\* The engine creates its interface and says so in the log.  The first report
\* in the file counts; an engine that outlives the truncation goes on writing
\* at its old offset, so that its report may stand before or after the new
\* engine's.
EngineUp(s) ==
  /\ Alive(s)
  /\ s \notin up
  /\ up' = up \cup {s}
  /\ \E first \in {s, Reports(s)} \ {0} :
       log' = [log EXCEPT ![profile[s]] = first]
  /\ UNCHANGED <<sessions, profile, engine, sessionVars, goroutineVars, hostVars,
                 faults>>

\* It exits, told to or not, and the rows of its interface go with it.
EngineExit(s) ==
  /\ Alive(s)
  /\ engine' = [engine EXCEPT ![s] = "exited"]
  /\ up' = up \ {s}
  /\ network' = {row \in network : row[2] # s}
  /\ UNCHANGED <<sessions, profile, log, sessionVars, goroutineVars, journal,
                 abandoned, faults>>

-----------------------------------------------------------------------------
Request(p) == Start(p) \/ SendOTP(p) \/ Stop(p)

Monitor(s) ==
  \/ Activate(s) \/ RecordTransaction(s) \/ Connect(s) \/ SetupFails(s)
  \/ Timeout(s) \/ Finish(s)

Reader(s) ==
  \/ Dial(s) \/ StoreConnection(s) \/ ReadLine(s) \/ AskUser(s) \/ AnswerCredentials(s)
  \/ NoteRefusal(s) \/ ReaderFails(s) \/ ReaderEnds(s)

Next ==
  \/ \E p \in Profile : Request(p)
  \/ Reset
  \/ \E s \in Session :
       SeeInterface(s) \/ Monitor(s) \/ Reader(s) \/ EngineUp(s) \/ EngineExit(s)

Spec == Init /\ [][Next]_vars

\* The goroutines run, the deadline passes, an engine that was told to
\* terminate does, and a closed connection has only so many lines left.
Fairness ==
  \A s \in Session :
    /\ WF_vars(Monitor(s))
    /\ WF_vars(Reader(s))
    /\ SF_vars(ReaderEnds(s))
    /\ WF_vars(engine[s] = "terminating" /\ EngineExit(s))

FairSpec == Spec /\ Fairness

-----------------------------------------------------------------------------
(* Properties *)

\* However often a profile is started, stopped, failed and reset, at most one
\* of its engines has not been told to end.
SingleEngine ==
  \A r, s \in Session :
    /\ r # s
    /\ engine[r] = "running"
    /\ engine[s] = "running"
    => profile[r] # profile[s]

\* No transaction is lost: the record of an activation stays in the hands of
\* a goroutine that will release it when the engine ends, whichever requests
\* came in between, unless releasing it has failed.
RecordIsOwned ==
  \A s \in Session :
    journal[s] # 0 =>
      \/ s \in abandoned
      \/ monitor[s] = "record"
      \/ monitor[s] \in {"connect", "reap"} /\ tx[s] = journal[s]

\* Every row on the host belongs to a transaction on disk, also while several
\* sessions of one profile release and activate the same rows.
NetworkIsJournaled ==
  \A row \in network :
    \E s \in Session : profile[s] = row[1] /\ journal[s] = row[2]

\* A connected session has its routes on the host, whatever older sessions of
\* its profile still release, as long as its engine runs and has not been told
\* to end; unless one of them has read the interface from the log they share
\* and taken it for its own.
ConnectedHasRoutes ==
  \A s \in Session :
    /\ state[s] = "connected" /\ interface[s] = s
    /\ engine[s] = "running"
    /\ \A r \in Session \ {s} : seen[r] # s
    => <<profile[s], s>> \in network

\* A session that looks alive, so that Start refuses the profile, has a
\* monitor that will notice the end of its engine, unless a prompt was handled
\* after its end had been.
LiveIsWatched ==
  \A s \in Session :
    state[s] \in Negotiating \cup {"connected"} =>
      monitor[s] \notin {"none", "done"} \/ s \in late

\* A stopped session has no transaction left, unless releasing it failed.
StoppedHasNoRecord ==
  \A s \in Session :
    state[s] = "stopped" => journal[s] = 0 \/ s \in abandoned

\* The interface a session reports is its own engine's.
ConnectsOnOwnInterface == \A s \in Session : interface[s] \in {0, s}

\* A negotiation comes to an end: connected, failed or stopped.  Of OpenVPN that
\* is so until the monitor has ended its watch; an engine that asks again later
\* has no deadline.
NegotiationEnds ==
  \A s \in Session :
    state[s] \in Negotiating ~>
      \/ state[s] \notin Negotiating
      \/ profile[s] \in OpenVPN /\ monitor[s] \in {"reap", "done"}

\* The management goroutine does not outlive the engine.
ReaderLeaves ==
  \A s \in Session : engine[s] = "terminating" ~> reader[s] \in {"none", "done"}

\* Once a session is stopped its network is released for good, if not by Stop
\* itself then when the engine has gone; unless releasing it fails.
Released(s) == journal[s] = 0 /\ <<profile[s], s>> \notin network
StopReleases ==
  \A s \in Session : state[s] = "stopped" ~> [](s \in abandoned \/ Released(s))

-----------------------------------------------------------------------------
(* The inductive invariant behind the invariants *)

\* A number that has not been given out stands for nothing.
UnusedIsBlank(s) ==
  profile[s] = NoProfile =>
    monitor[s] = "none" /\ engine[s] = "none"

\* The table has a profile's session, and an engine nobody has told to end is
\* that of a listed session which Start would not replace.
ListedIsOwn == \A p \in Profile : sessions[p] # 0 => profile[sessions[p]] = p
RunningIsListed(s) ==
  engine[s] = "running" =>
    /\ profile[s] \in Profile
    /\ sessions[profile[s]] = s
    /\ state[s] \notin Ended

\* A session activates once: before that it has neither a record nor a
\* transaction, but for a record that its failed activation has left; and the
\* transaction it has is the one on disk.
BlankBeforeActivate(s) ==
  monitor[s] \in {"none", "watch", "activate", "fail"} =>
    /\ tx[s] = 0
    /\ journal[s] = 0 \/ (monitor[s] = "fail" /\ s \in abandoned)
UnrecordedBeforeEntry(s) == monitor[s] = "record" => tx[s] = 0
TransactionIsOnDisk(s) == tx[s] # 0 => journal[s] = tx[s]

\* A session has to do with one interface only, the one its monitor has read,
\* and reports it when its set-up is over.  Until its engine ends or is told
\* to, the routes it has set up stand.
HasItsInterface(s) ==
  /\ monitor[s] \in {"none", "watch"} => seen[s] = 0
  /\ {tx[s], interface[s], journal[s]} \subseteq {0, seen[s]}
  /\ interface[s] # 0 => monitor[s] \in {"reap", "done"}
  /\ monitor[s] = "done" => engine[s] = "exited"
  /\ seen[s] = s /\ engine[s] = "running" => s \in up
HasSetUp(s) ==
  /\ monitor[s] \in {"record", "connect", "reap"}
  /\ seen[s] = s
  /\ \A r \in Session \ {s} : seen[r] # s
  /\ engine[s] = "running"
RoutesStand(s) == HasSetUp(s) => <<profile[s], s>> \in network

\* The reader comes with the monitor.
ReaderHasMonitor(s) == reader[s] # "none" => monitor[s] # "none"

SessionInv(s) ==
  /\ UnusedIsBlank(s)
  /\ RunningIsListed(s)
  /\ BlankBeforeActivate(s)
  /\ UnrecordedBeforeEntry(s)
  /\ TransactionIsOnDisk(s)
  /\ HasItsInterface(s)
  /\ RoutesStand(s)
  /\ ReaderHasMonitor(s)

ServiceInv ==
  /\ TypeOK
  /\ ListedIsOwn
  /\ \A s \in Session : SessionInv(s)
  /\ RecordIsOwned
  /\ NetworkIsJournaled
  /\ LiveIsWatched
=============================================================================
