----------------------------- MODULE IpsecDaemon -----------------------------
(***************************************************************************)
(* nativehelper/ipsec.go: the IPsec sessions of the helper.  They share one   *)
(* charon daemon, which is started for the first of them and stopped when     *)
(* none is connected, and one FIFO through which a one-time password reaches  *)
(* the exchange that asks for it.  Each session has a goroutine that waits    *)
(* for "swanctl --initiate", each daemon one that waits for its end.          *)
(*                                                                         *)
(* Requests and goroutines take the mutex of the service.  Start holds it     *)
(* while it waits for the daemon, SendOTP while it waits for somebody to open *)
(* the FIFO: `mutex` says who has it between two steps.  Sessions and daemons *)
(* are numbered in the order of their starts; 0 stands for none.  The FIFO is *)
(* named by the session whose Start made it.  The exchanges inside charon     *)
(* are external; how they read the FIFO is in                                *)
(* scripts/macos/xauth-generic-otp.patch.                                    *)
(***************************************************************************)
EXTENDS Naturals, FiniteSets

CONSTANTS Profile,       \* IPsec profiles
          TwoFactor,     \* those with a second factor
          MaxSessions,   \* bound on sessions
          MaxDaemons,    \* bound on daemons
          MaxFaults      \* bound on failing calls and on crashes of the helper

ASSUME TwoFactorAssumption == TwoFactor \subseteq Profile
ASSUME IpsecProfileAssumption == "none" \notin Profile
ASSUME IpsecBoundAssumption ==
  MaxSessions \in Nat /\ MaxDaemons \in Nat /\ MaxFaults \in Nat

VARIABLES
  sessions,   \* service.sessions: the session of each profile
  owner,      \* request.Profile of each session
  state,      \* state
  otpPath,    \* otpPath # ""
  initiate,   \* the goroutine of startIPSecLocked, with the result it has got
  born,       \* the daemon a session was loaded into
  command,    \* service.ipsecCommand
  process,    \* the daemon processes
  waiting,    \* daemons with a waitForIPSecDaemon
  mutex,      \* who holds service.mu between two steps
  fifo,       \* the FIFO at RuntimeDirectory/ipsec-otp
  config,     \* the configuration file of each profile, by its writer
  asks,       \* the FIFO the exchange of a session has open, to read
  late,       \* history: sessions that succeeded when their daemon was dropped
  crossed,    \* history: sessions whose FIFO another profile has taken away
  leftover,   \* history: files without a session, after a failure or crash
  strays,     \* history: daemons that the clean-up has missed
  faults      \* failures so far

sessionVars == <<sessions, owner, state, otpPath, initiate, born>>
daemonVars == <<command, process, waiting, strays>>
fileVars == <<fifo, config, crossed, leftover>>
vars == <<sessionVars, daemonVars, fileVars, mutex, asks, late, faults>>

-----------------------------------------------------------------------------
Session == 1..MaxSessions
Session0 == 0..MaxSessions
Daemon == 1..MaxDaemons
Daemon0 == 0..MaxDaemons
NoProfile == "none"

Negotiating == {"connecting", "waiting-otp"}
Ended == {"stopped", "failed"}

Free == [by |-> "nobody"]
Spawning(p) == [by |-> "spawn", profile |-> p]
Loading(p) == [by |-> "load", profile |-> p]
Sending(s) == [by |-> "otp", session |-> s, fifo |-> fifo]
Mutex == {Free} \cup [by : {"spawn", "load"}, profile : Profile]
           \cup [by : {"otp"}, session : Session, fifo : Session]

TypeOK ==
  /\ sessions \in [Profile -> Session0]
  /\ owner \in [Session -> Profile \cup {NoProfile}]
  /\ state \in [Session -> {"new", "connected"} \cup Negotiating \cup Ended]
  /\ otpPath \in [Session -> BOOLEAN]
  /\ initiate \in [Session -> {"none", "running", "ok", "error", "done"}]
  /\ born \in [Session -> Daemon0]
  /\ command \in Daemon0
  /\ process \in [Daemon -> {"none", "running", "terminating", "exited"}]
  /\ waiting \in SUBSET Daemon
  /\ mutex \in Mutex
  /\ fifo \in Session0
  /\ config \in [Profile -> Session0]
  /\ asks \in [Session -> Session0]
  /\ late \in SUBSET Session
  /\ crossed \in SUBSET Session
  /\ leftover \in SUBSET Profile
  /\ strays \in SUBSET Daemon
  /\ faults \in 0..MaxFaults

Init ==
  /\ sessions = [p \in Profile |-> 0]
  /\ owner = [s \in Session |-> NoProfile]
  /\ state = [s \in Session |-> "new"]
  /\ otpPath = [s \in Session |-> FALSE]
  /\ initiate = [s \in Session |-> "none"]
  /\ born = [s \in Session |-> 0]
  /\ command = 0
  /\ process = [d \in Daemon |-> "none"]
  /\ waiting = {}
  /\ mutex = Free
  /\ fifo = 0
  /\ config = [p \in Profile |-> 0]
  /\ asks = [s \in Session |-> 0]
  /\ late = {}
  /\ crossed = {}
  /\ leftover = {}
  /\ strays = {}
  /\ faults = 0

-----------------------------------------------------------------------------
Fault == faults < MaxFaults /\ faults' = faults + 1

\* Sessions and daemons are numbered by their starts.
NextSession(s) == owner[s] = NoProfile /\ \A r \in 1..(s - 1) : owner[r] # NoProfile
NextDaemon(d) == process[d] = "none" /\ \A e \in 1..(d - 1) : process[e] # "none"

Running == {d \in Daemon : process[d] = "running"}
Terminated(D) ==
  [d \in Daemon |-> IF d \in D /\ process[d] = "running"
                    THEN "terminating" ELSE process[d]]

\* Mutant: whether a session is connected is not looked at.
StopDaemonAnyway(list, st) ==
  /\ command' = 0
  /\ process' = Terminated({command})
  /\ UNCHANGED <<waiting, strays>>

\* stopIPSecDaemonIfIdleLocked, for the table and the states it finds: only
\* connected sessions count, not those that negotiate.
StopDaemonIfIdle(list, st) ==
  /\ IF \E p \in Profile : list[p] # 0 /\ st[list[p]] = "connected"
     THEN UNCHANGED <<command, process>>
     ELSE /\ command' = 0
          /\ process' = Terminated({command})
  /\ UNCHANGED <<waiting, strays>>

\* Sessions other than those of profile p whose FIFO is at the path.
Others(p) == {s \in Session : fifo = s /\ owner[s] # p /\ state[s] \in Negotiating}

\* os.Remove of a session's otpPath, which is the same path for all.
RemoveChannel(p) == fifo' = 0 /\ crossed' = crossed \cup Others(p)
KeepChannel == UNCHANGED <<fifo, crossed>>

-----------------------------------------------------------------------------
(* Start *)

\* Mutant: daemons of an earlier helper are left alone.
SkipOrphans == UNCHANGED <<process, strays, faults>>

\* cleanupOrphanedIPSecDaemonLocked: every daemon of this install tree is
\* killed, whoever started it; when pgrep fails they stay.
CleanupOrphans ==
  \/ process' = Terminated(Daemon) /\ UNCHANGED <<strays, faults>>
  \/ /\ Running # {}
     /\ Fault
     /\ strays' = strays \cup Running
     /\ UNCHANGED process

\* A new Start of a profile: ensureIPSecDaemonLocked is content with the daemon
\* of this helper, or makes place for another.
Ensure(p) ==
  /\ mutex = Free
  /\ sessions[p] # 0 => state[sessions[p]] \in Ended
  /\ \E s \in Session : NextSession(s)
  /\ \/ /\ command # 0
        /\ mutex' = Loading(p)
        /\ UNCHANGED <<daemonVars, faults>>
     \/ /\ command = 0
        /\ \E d \in Daemon : NextDaemon(d)
        /\ CleanupOrphans
        /\ mutex' = Spawning(p)
        /\ UNCHANGED <<command, waiting>>
  /\ UNCHANGED <<sessionVars, fileVars, asks, late>>

\* The daemon is started and answers on its socket; or it does not within eight
\* seconds and is told to end; or it does not start at all.
Spawn(p) ==
  /\ mutex = Spawning(p)
  /\ \/ \E d \in Daemon :
          /\ NextDaemon(d)
          /\ \/ /\ process' = [process EXCEPT ![d] = "running"]
                /\ command' = d
                /\ waiting' = waiting \cup {d}
                /\ mutex' = Loading(p)
                /\ UNCHANGED faults
             \/ /\ Fault
                /\ process' = [process EXCEPT ![d] = "terminating"]
                /\ mutex' = Free
                /\ UNCHANGED <<command, waiting>>
     \/ /\ Fault
        /\ mutex' = Free
        /\ UNCHANGED <<command, process, waiting>>
  /\ UNCHANGED <<sessionVars, fileVars, strays, asks, late>>

\* The configuration cannot be written: what has been written stays, if it came
\* to that.  The log cannot be opened: the configuration is removed.
WriteFails(p) ==
  /\ Fault
  /\ \/ \E s \in Session :
          /\ NextSession(s)
          /\ config' = [config EXCEPT ![p] = s]
          /\ leftover' = leftover \cup {p}
     \/ config' = [config EXCEPT ![p] = 0] /\ leftover' = leftover \ {p}
     \/ UNCHANGED <<config, leftover>>
  /\ KeepChannel
  /\ UNCHANGED <<sessionVars, daemonVars>>

\* The FIFO cannot be made, or the daemon does not take the configuration.
LoadFails(p) ==
  /\ Fault
  /\ config' = [config EXCEPT ![p] = 0]
  /\ leftover' = leftover \ {p}
  /\ IF p \in TwoFactor THEN RemoveChannel(p) ELSE KeepChannel
  /\ StopDaemonIfIdle(sessions, state)
  /\ UNCHANGED sessionVars

\* Loaded: a session that connects, or waits for the password first, and the
\* goroutine that waits for the outcome.
Loads(p) ==
  /\ \E s \in Session :
       /\ NextSession(s)
       /\ owner' = [owner EXCEPT ![s] = p]
       /\ sessions' = [sessions EXCEPT ![p] = s]
       /\ state' = [state EXCEPT ![s] = IF p \in TwoFactor
                                        THEN "waiting-otp" ELSE "connecting"]
       /\ otpPath' = [otpPath EXCEPT ![s] = p \in TwoFactor]
       /\ initiate' = [initiate EXCEPT ![s] = "running"]
       /\ born' = [born EXCEPT ![s] = command]
       /\ config' = [config EXCEPT ![p] = s]
       /\ IF p \in TwoFactor
          THEN fifo' = s /\ crossed' = crossed \cup Others(p)
          ELSE KeepChannel
  /\ leftover' = leftover \ {p}
  /\ UNCHANGED <<daemonVars, faults>>

Load(p) ==
  /\ mutex = Loading(p)
  /\ mutex' = Free
  /\ WriteFails(p) \/ LoadFails(p) \/ Loads(p)
  /\ UNCHANGED <<asks, late>>

-----------------------------------------------------------------------------
(* The goroutine of a session *)

\* swanctl returns: the child is up, or it is not, for whatever reason; it
\* gives up by itself after negotiationTimeout.
InitiateReturns(s) ==
  /\ initiate[s] = "running"
  /\ \/ /\ process[born[s]] = "running"
        /\ asks[s] = 0
        /\ initiate' = [initiate EXCEPT ![s] = "ok"]
     \/ initiate' = [initiate EXCEPT ![s] = "error"]
  /\ UNCHANGED <<sessions, owner, state, otpPath, born, daemonVars, fileVars, mutex,
                 asks, late, faults>>

Outcome(s) ==
  \/ /\ initiate[s] = "ok"
     /\ state' = [state EXCEPT ![s] = "connected"]
     /\ late' = IF command = born[s] THEN late ELSE late \cup {s}
     /\ UNCHANGED <<daemonVars, fileVars>>
  \/ /\ initiate[s] = "error"
     /\ state' = [state EXCEPT ![s] = "failed"]
     /\ IF otpPath[s] THEN RemoveChannel(owner[s]) ELSE KeepChannel
     /\ config' = [config EXCEPT ![owner[s]] = 0]
     /\ leftover' = leftover \ {owner[s]}
     /\ StopDaemonIfIdle(sessions, [state EXCEPT ![s] = "failed"])
     /\ UNCHANGED late

Settle(s) ==
  /\ mutex = Free
  /\ initiate[s] \in {"ok", "error"}
  /\ initiate' = [initiate EXCEPT ![s] = "done"]

\* Mutant: the goroutine clears the FIFO away at its end, as a deferred removal
\* would, whatever has become of its session.
SettleAndClear(s) ==
  /\ Settle(s)
  /\ \/ /\ state[s] \in Ended
        /\ RemoveChannel(owner[s])
        /\ UNCHANGED <<state, daemonVars, config, leftover, late>>
     \/ state[s] \notin Ended /\ Outcome(s)
  /\ UNCHANGED <<sessions, owner, otpPath, born, mutex, asks, faults>>

\* Mutant: a session that waits for its password is left to the user.
SettleUnlessWaiting(s) ==
  /\ Settle(s)
  /\ \/ /\ state[s] \in Ended \cup {"waiting-otp"}
        /\ UNCHANGED <<state, daemonVars, fileVars, late>>
     \/ /\ state[s] \notin Ended \cup {"waiting-otp"}
        /\ Outcome(s)
  /\ UNCHANGED <<sessions, owner, otpPath, born, mutex, asks, faults>>

\* Then, under the mutex, the session is settled, unless it has been already.
InitiateDone(s) ==
  /\ Settle(s)
  /\ \/ state[s] \in Ended /\ UNCHANGED <<state, daemonVars, fileVars, late>>
     \/ state[s] \notin Ended /\ Outcome(s)
  /\ UNCHANGED <<sessions, owner, otpPath, born, mutex, asks, faults>>

-----------------------------------------------------------------------------
(* One-time passwords *)

\* SendOTP opens the FIFO for writing, which blocks until somebody reads.
SendOTP(p) ==
  LET s == sessions[p]
  IN  /\ mutex = Free
      /\ s # 0
      /\ state[s] \in Negotiating
      /\ otpPath[s]
      /\ fifo # 0
      /\ mutex' = Sending(s)
      /\ UNCHANGED <<sessionVars, daemonVars, fileVars, asks, late, faults>>

\* The gateway asks for the passcode, and the exchange opens the FIFO it finds.
Ask(s) ==
  /\ initiate[s] = "running"
  /\ process[born[s]] = "running"
  /\ asks[s] = 0
  /\ fifo # 0
  /\ asks' = [asks EXCEPT ![s] = fifo]
  /\ UNCHANGED <<sessionVars, daemonVars, fileVars, mutex, late, faults>>

\* Writer and reader of one FIFO meet; the reader may still die before it reads.
Deliver(s) ==
  /\ mutex.by = "otp"
  /\ asks[s] = mutex.fifo
  /\ asks' = [asks EXCEPT ![s] = 0]
  /\ \/ state' = [state EXCEPT ![mutex.session] = "connecting"] /\ UNCHANGED faults
     \/ Fault /\ UNCHANGED state
  /\ mutex' = Free
  /\ UNCHANGED <<sessions, owner, otpPath, initiate, born, daemonVars, fileVars, late>>

-----------------------------------------------------------------------------
(* Stop and Reset *)

\* Mutant: the configuration with its secrets is kept for the next start.
StopKeepsFile(p) ==
  LET s == sessions[p]
  IN  /\ mutex = Free
      /\ s # 0
      /\ state' = [state EXCEPT ![s] = "stopped"]
      /\ otpPath' = [otpPath EXCEPT ![s] = FALSE]
      /\ IF otpPath[s] THEN RemoveChannel(p) ELSE KeepChannel
      /\ StopDaemonIfIdle(sessions, [state EXCEPT ![s] = "stopped"])
      /\ UNCHANGED <<sessions, owner, initiate, born, config, leftover, mutex, asks,
                     late, faults>>

\* Stop with stopIPSecLocked, also for a session that has ended.
Stop(p) ==
  LET s == sessions[p]
  IN  /\ mutex = Free
      /\ s # 0
      /\ state' = [state EXCEPT ![s] = "stopped"]
      /\ otpPath' = [otpPath EXCEPT ![s] = FALSE]
      /\ config' = [config EXCEPT ![p] = IF state[s] = "stopped" THEN @ ELSE 0]
      /\ leftover' = IF state[s] = "stopped" THEN leftover ELSE leftover \ {p}
      /\ IF otpPath[s] THEN RemoveChannel(p) ELSE KeepChannel
      /\ StopDaemonIfIdle(sessions, [state EXCEPT ![s] = "stopped"])
      /\ UNCHANGED <<sessions, owner, initiate, born, mutex, asks, late, faults>>

\* Every session that is not stopped is stopped, one after the other; all are
\* forgotten, and with them goes the daemon.
Reset ==
  LET listed == {sessions[p] : p \in Profile} \ {0}
      S == {s \in listed : state[s] # "stopped"}
  IN  /\ mutex = Free
      /\ state' = [s \in Session |-> IF s \in S THEN "stopped" ELSE state[s]]
      /\ otpPath' = [s \in Session |-> otpPath[s] /\ s \notin S]
      /\ config' = [p \in Profile |-> IF sessions[p] \in S THEN 0 ELSE config[p]]
      /\ leftover' = {p \in leftover : sessions[p] \notin S}
      /\ fifo' = IF \E s \in S : otpPath[s] THEN 0 ELSE fifo
      /\ sessions' = [p \in Profile |-> 0]
      /\ StopDaemonIfIdle(sessions', state')
      /\ UNCHANGED <<owner, initiate, born, crossed, mutex, asks, late, faults>>

-----------------------------------------------------------------------------
(* The daemon *)

\* It exits, told to or not; the exchanges in it go with it.
DaemonExits(d) ==
  /\ process[d] \in {"running", "terminating"}
  /\ process' = [process EXCEPT ![d] = "exited"]
  /\ asks' = [s \in Session |-> IF born[s] = d THEN 0 ELSE asks[s]]
  /\ UNCHANGED <<sessionVars, command, waiting, strays, fileVars, mutex, late, faults>>

\* waitForIPSecDaemon: if the service has not dropped the daemon itself, its
\* connected sessions fail.
DaemonEnded(d) ==
  /\ mutex = Free
  /\ d \in waiting
  /\ process[d] = "exited"
  /\ waiting' = waiting \ {d}
  /\ IF command # d
     THEN UNCHANGED <<command, state>>
     ELSE /\ command' = 0
          /\ state' = [s \in Session |->
                         IF state[s] = "connected" /\ sessions[owner[s]] = s
                         THEN "failed" ELSE state[s]]
  /\ UNCHANGED <<sessions, owner, otpPath, initiate, born, process, strays, fileVars,
                 mutex, asks, late, faults>>

\* The helper dies, wherever it stands, and is started again.  Daemons are in
\* process groups of their own, and files stay.
Crash ==
  /\ Fault
  /\ sessions' = [p \in Profile |-> 0]
  /\ state' = [s \in Session |-> IF state[s] = "new" THEN "new" ELSE "stopped"]
  /\ otpPath' = [s \in Session |-> FALSE]
  /\ initiate' = [s \in Session |-> IF initiate[s] = "none" THEN "none" ELSE "done"]
  /\ command' = 0
  /\ waiting' = {}
  /\ mutex' = Free
  /\ leftover' = {p \in Profile : config[p] # 0}
  /\ UNCHANGED <<owner, born, process, strays, fifo, config, crossed, asks, late>>

-----------------------------------------------------------------------------
Request(p) == Ensure(p) \/ SendOTP(p) \/ Stop(p)

Next ==
  \/ \E p \in Profile : Request(p) \/ Spawn(p) \/ Load(p)
  \/ Reset \/ Crash
  \/ \E s \in Session : InitiateReturns(s) \/ InitiateDone(s) \/ Ask(s) \/ Deliver(s)
  \/ \E d \in Daemon : DaemonExits(d) \/ DaemonEnded(d)

Spec == Init /\ [][Next]_vars

\* The code under the mutex runs on, swanctl gives up at its timeout, and a
\* goroutine that waits for the mutex gets it in the end (Go's mutex hands
\* itself to a waiter of more than a millisecond).
Fairness ==
  /\ \A p \in Profile : WF_vars(Spawn(p)) /\ WF_vars(Load(p))
  /\ WF_vars(\E s \in Session : Deliver(s))
  /\ \A s \in Session : WF_vars(InitiateReturns(s)) /\ SF_vars(InitiateDone(s))

FairSpec == Spec /\ Fairness

-----------------------------------------------------------------------------
(* Properties *)

\* A connected session is served: the daemon it was loaded into is the one the
\* service holds, whatever other profiles start, stop and fail, so that the
\* session is failed when that daemon ends.  The exception is a success that
\* arrives when the service has dropped the daemon meanwhile.
ConnectedIsServed ==
  \A s \in Session : state[s] = "connected" => command = born[s] \/ s \in late

\* Across failures and restarts of the helper there is never a second daemon
\* that nobody has told to end, unless pgrep has failed to find the first.
SingleDaemon == Cardinality(Running \ strays) <= 1

\* The FIFO at the path is that of the session that waits for its password:
\* neither the goroutine of an earlier session of the profile nor a failed
\* start takes it away; only another profile can.
ChannelStays ==
  \A s \in Session :
    /\ state[s] \in Negotiating
    /\ otpPath[s]
    /\ s \notin crossed
    => fifo = s

\* The file with a profile's secrets is on disk only for a listed session that
\* has written it and was not stopped, but for a write or a helper that was
\* interrupted.
SecretsHaveSession ==
  \A p \in Profile :
    config[p] # 0 =>
      \/ p \in leftover
      \/ /\ config[p] = sessions[p]
         /\ state[sessions[p]] # "stopped"

\* Every negotiation ends.  Only one thing can prevent that: a one-time
\* password was sent into a FIFO that nobody reads, with the mutex held.
Hangs == mutex.by = "otp" /\ \A s \in Session : asks[s] # mutex.fifo
NegotiationEnds ==
  \A s \in Session : state[s] \in Negotiating ~> state[s] \notin Negotiating \/ []Hangs

\* Several profiles at the same time: what happens to one profile does not take
\* the daemon from another that is still negotiating.
StopSparesOthers ==
  [][\A s \in Session :
       /\ state[s] \in Negotiating
       /\ state'[s] = state[s]
       /\ command = born[s]
       /\ process[command] = "running"
       => command' = command]_vars

-----------------------------------------------------------------------------
(* The inductive invariant behind the first four *)

\* A number that has not been given out stands for nothing; what negotiates or
\* is connected is listed and has a daemon.
UnusedIsNew(s) ==
  /\ owner[s] = NoProfile => initiate[s] = "none"
  /\ owner[s] = NoProfile <=> state[s] = "new"
LiveIsListed(s) ==
  state[s] \in Negotiating \cup {"connected"} =>
    /\ sessions[owner[s]] = s
    /\ born[s] # 0
ListedIsOwn == \A p \in Profile : sessions[p] # 0 => owner[sessions[p]] = p

\* While the service holds a daemon no other runs, while it makes place for one
\* none runs, and a daemon is loaded only while it is held.
HeldRunsAlone ==
  /\ command # 0 => Running \ strays \subseteq {command}
  /\ mutex.by = "spawn" => command = 0 /\ Running \subseteq strays
  /\ mutex.by = "load" => command # 0
\* A starting profile has no live session, and a sending one is listed.
StartingHasEnded ==
  mutex.by \in {"spawn", "load"} /\ sessions[mutex.profile] # 0 =>
    state[sessions[mutex.profile]] \in Ended
SendingIsLive ==
  mutex.by = "otp" => state[mutex.session] \in Negotiating

IpsecInv ==
  /\ TypeOK
  /\ \A s \in Session : UnusedIsNew(s) /\ LiveIsListed(s)
  /\ ListedIsOwn
  /\ HeldRunsAlone
  /\ StartingHasEnded
  /\ SendingIsLive
  /\ ConnectedIsServed
  /\ SingleDaemon
  /\ ChannelStays
  /\ SecretsHaveSession
=============================================================================
