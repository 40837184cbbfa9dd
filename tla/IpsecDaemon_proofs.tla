------------------------- MODULE IpsecDaemon_proofs -------------------------
(***************************************************************************)
(* Proofs about the IPsec sessions of the helper, for any profiles and any     *)
(* number of sessions, daemons and failures: one inductive invariant, and from *)
(* it the daemon behind a connected session, the single daemon, the password  *)
(* channel of a waiting session and the files with secrets.                  *)
(***************************************************************************)
EXTENDS IpsecDaemon, FiniteSetTheorems, TLAPS

-----------------------------------------------------------------------------
(* Numbers and daemons *)

LEMMA Numbers ==
  /\ 0 \notin Session /\ 0 \in Session0 /\ Session \subseteq Session0
  /\ 0 \notin Daemon /\ 0 \in Daemon0 /\ Daemon \subseteq Daemon0
  /\ \A x \in Session0 : x # 0 => x \in Session
  /\ \A x \in Daemon0 : x # 0 => x \in Daemon
  /\ 0 \in 0..MaxFaults
BY IpsecBoundAssumption DEF Session, Session0, Daemon, Daemon0

LEMMA FaultCounts ==
  ASSUME TypeOK, Fault \/ UNCHANGED faults
  PROVE  faults' \in 0..MaxFaults
<1>1. faults \in 0..MaxFaults
  BY DEF TypeOK
<1>2. (faults < MaxFaults /\ faults' = faults + 1) \/ faults' = faults
  BY DEF Fault
<1> QED
  BY <1>1, <1>2, IpsecBoundAssumption

\* The types of the two variables that daemons come and go in.
ProcessType == process \in [Daemon -> {"none", "running", "terminating", "exited"}]

\* No daemon has begun to run, and none is forgiven any more.
NoneStarted ==
  /\ \A d \in Daemon : process'[d] = "running" => process[d] = "running"
  /\ strays \subseteq strays'

LEMMA TerminatedType ==
  ASSUME TypeOK, NEW D
  PROVE  /\ Terminated(D) \in [Daemon -> {"none", "running", "terminating", "exited"}]
         /\ \A d \in Daemon : Terminated(D)[d] = "running" =>
                                process[d] = "running" /\ d \notin D
BY DEF TypeOK, Terminated

\* What stopIPSecDaemonIfIdleLocked does.
LEMMA StopDaemonEffect ==
  ASSUME TypeOK, NEW list, NEW st, StopDaemonIfIdle(list, st)
  PROVE  /\ ProcessType' /\ command' \in Daemon0
         /\ NoneStarted
         /\ command' = 0 \/ (command' = command /\ process' = process)
         /\ (\E p \in Profile : list[p] # 0 /\ st[list[p]] = "connected")
              => command' = command
         /\ UNCHANGED <<waiting, strays>>
<1>1. CASE UNCHANGED <<command, process>>
  BY <1>1 DEF StopDaemonIfIdle, TypeOK, ProcessType, NoneStarted
<1>2. CASE command' = 0 /\ process' = Terminated({command})
  BY <1>2, TerminatedType, Numbers DEF StopDaemonIfIdle, ProcessType, NoneStarted
<1> QED
  BY <1>1, <1>2 DEF StopDaemonIfIdle

LEMMA DaemonsFinite == IsFiniteSet(Running \ strays)
<1>1. IsFiniteSet(Daemon)
  BY IpsecBoundAssumption, FS_Interval DEF Daemon
<1> QED
  BY <1>1, FS_Subset DEF Running

LEMMA SingleStays ==
  ASSUME SingleDaemon, NoneStarted
  PROVE  SingleDaemon'
<1>1. (Running \ strays)' \subseteq Running \ strays
  BY DEF NoneStarted, Running
<1>2. /\ Cardinality((Running \ strays)') <= Cardinality(Running \ strays)
      /\ Cardinality((Running \ strays)') \in Nat
      /\ Cardinality(Running \ strays) \in Nat
  BY <1>1, DaemonsFinite, FS_Subset, FS_CardinalityType
<1> QED
  BY <1>2 DEF SingleDaemon

LEMMA SingleOf ==
  ASSUME NEW d, (Running \ strays)' \subseteq {d}
  PROVE  SingleDaemon'
<1>1. IsFiniteSet({d}) /\ Cardinality({d}) = 1
  BY FS_Singleton
<1>2. /\ Cardinality((Running \ strays)') <= 1
      /\ Cardinality((Running \ strays)') \in Nat
  BY <1>1, FS_Subset, FS_CardinalityType
<1> QED
  BY <1>2 DEF SingleDaemon

-----------------------------------------------------------------------------
(* Type correctness *)

LEMMA TypeInit == Init => TypeOK
<1> SUFFICES ASSUME Init PROVE TypeOK
  OBVIOUS
<1>1. /\ sessions \in [Profile -> Session0]
      /\ config \in [Profile -> Session0]
      /\ asks \in [Session -> Session0]
      /\ born \in [Session -> Daemon0]
      /\ command \in Daemon0
      /\ fifo \in Session0
      /\ faults \in 0..MaxFaults
  BY Numbers DEF Init
<1>2. /\ owner \in [Session -> Profile \cup {NoProfile}]
      /\ state \in [Session -> {"new", "connected"} \cup Negotiating \cup Ended]
      /\ initiate \in [Session -> {"none", "running", "ok", "error", "done"}]
      /\ process \in [Daemon -> {"none", "running", "terminating", "exited"}]
  BY DEF Init
<1>3. otpPath \in [Session -> BOOLEAN]
  BY DEF Init
<1>4. /\ waiting \in SUBSET Daemon /\ late \in SUBSET Session
      /\ crossed \in SUBSET Session /\ leftover \in SUBSET Profile
      /\ strays \in SUBSET Daemon /\ mutex \in Mutex
  BY DEF Init, Mutex
<1> QED
  BY <1>1, <1>2, <1>3, <1>4 DEF TypeOK

LEMMA ChannelTypes ==
  ASSUME TypeOK, NEW p, RemoveChannel(p) \/ KeepChannel
  PROVE  fifo' \in Session0 /\ crossed' \in SUBSET Session
BY Numbers DEF TypeOK, RemoveChannel, KeepChannel, Others

LEMMA TypeEnsure ==
  ASSUME TypeOK, NEW p \in Profile, Ensure(p)
  PROVE  TypeOK'
<1>1. mutex' \in Mutex
  BY DEF Ensure, Mutex, Loading, Spawning
<1>2. CASE UNCHANGED <<daemonVars, faults>>
  BY <1>1, <1>2 DEF Ensure, TypeOK, sessionVars, fileVars, daemonVars
<1>3. CASE CleanupOrphans /\ UNCHANGED <<command, waiting>>
  <2>1. process' \in [Daemon -> {"none", "running", "terminating", "exited"}]
    BY <1>3, TerminatedType DEF CleanupOrphans, TypeOK
  <2>2. strays' \in SUBSET Daemon
    BY <1>3 DEF CleanupOrphans, TypeOK, Running
  <2>3. faults' \in 0..MaxFaults
    BY <1>3, FaultCounts DEF CleanupOrphans
  <2> QED
    BY <1>1, <1>3, <2>1, <2>2, <2>3 DEF Ensure, TypeOK, sessionVars, fileVars
<1> QED
  BY <1>2, <1>3 DEF Ensure

LEMMA TypeSpawn ==
  ASSUME TypeOK, NEW p \in Profile, Spawn(p)
  PROVE  TypeOK'
<1>1. mutex' \in Mutex
  BY DEF Spawn, Mutex, Loading
<1>2. process' \in [Daemon -> {"none", "running", "terminating", "exited"}]
  BY DEF Spawn, TypeOK
<1>3. command' \in Daemon0 /\ waiting' \in SUBSET Daemon
  BY Numbers DEF Spawn, TypeOK
<1>4. faults' \in 0..MaxFaults
  <2>1. Fault \/ UNCHANGED faults
    BY DEF Spawn
  <2> QED
    BY <2>1, FaultCounts
<1> QED
  BY <1>1, <1>2, <1>3, <1>4 DEF Spawn, TypeOK, sessionVars, fileVars

LEMMA TypeLoad ==
  ASSUME TypeOK, NEW p \in Profile, Load(p)
  PROVE  TypeOK'
<1>1. mutex' \in Mutex /\ UNCHANGED <<asks, late>>
  BY DEF Load, Mutex
<1>2. config' \in [Profile -> Session0] /\ leftover' \in SUBSET Profile
  <2>1. config \in [Profile -> Session0] /\ leftover \in SUBSET Profile
    BY DEF TypeOK
  <2> QED
    BY <2>1, Numbers DEF Load, WriteFails, LoadFails, Loads
<1>3. CASE WriteFails(p)
  <2>1. fifo' \in Session0 /\ crossed' \in SUBSET Session
    BY <1>3, ChannelTypes DEF WriteFails
  <2>2. faults' \in 0..MaxFaults
    BY <1>3, FaultCounts DEF WriteFails
  <2> QED
    BY <1>1, <1>2, <1>3, <2>1, <2>2 DEF WriteFails, TypeOK, sessionVars, daemonVars
<1>4. CASE LoadFails(p)
  <2>1. fifo' \in Session0 /\ crossed' \in SUBSET Session
    BY <1>4, ChannelTypes DEF LoadFails
  <2>2. faults' \in 0..MaxFaults
    BY <1>4, FaultCounts DEF LoadFails
  <2>3. /\ ProcessType' /\ command' \in Daemon0
        /\ UNCHANGED <<waiting, strays>>
    BY <1>4, StopDaemonEffect DEF LoadFails
  <2> QED
    BY <1>1, <1>2, <1>4, <2>1, <2>2, <2>3
    DEF LoadFails, TypeOK, sessionVars, ProcessType
<1>5. CASE Loads(p)
  <2>1. PICK s \in Session :
          /\ owner' = [owner EXCEPT ![s] = p]
          /\ sessions' = [sessions EXCEPT ![p] = s]
          /\ state' = [state EXCEPT ![s] = IF p \in TwoFactor
                                           THEN "waiting-otp" ELSE "connecting"]
          /\ otpPath' = [otpPath EXCEPT ![s] = p \in TwoFactor]
          /\ initiate' = [initiate EXCEPT ![s] = "running"]
          /\ born' = [born EXCEPT ![s] = command]
          /\ \/ fifo' = s /\ crossed' = crossed \cup Others(p)
             \/ KeepChannel
    BY <1>5 DEF Loads
  <2>2. owner' \in [Session -> Profile \cup {NoProfile}]
    BY <2>1 DEF TypeOK
  <2>3. sessions' \in [Profile -> Session0]
    BY <2>1, Numbers DEF TypeOK
  <2>4. state' \in [Session -> {"new", "connected"} \cup Negotiating \cup Ended]
    BY <2>1 DEF TypeOK, Negotiating
  <2>5. otpPath' \in [Session -> BOOLEAN]
    <3>1. otpPath \in [Session -> BOOLEAN]
      BY DEF TypeOK
    <3>2. PICK b \in BOOLEAN : b <=> p \in TwoFactor
      OBVIOUS
    <3>3. otpPath' = [otpPath EXCEPT ![s] = b]
      <4>1. b = (p \in TwoFactor)
        BY <3>2
      <4> QED
        BY <2>1, <4>1
    <3> QED
      BY <3>1, <3>3, Zenon
  <2>6. /\ initiate' \in [Session -> {"none", "running", "ok", "error", "done"}]
        /\ born' \in [Session -> Daemon0]
    BY <2>1 DEF TypeOK
  <2>7. fifo' \in Session0 /\ crossed' \in SUBSET Session
    BY <2>1, Numbers DEF TypeOK, KeepChannel, Others
  <2> QED
    BY <1>1, <1>2, <1>5, <2>2, <2>3, <2>4, <2>5, <2>6, <2>7 DEF Loads, TypeOK, daemonVars
<1> QED
  BY <1>3, <1>4, <1>5 DEF Load

LEMMA TypeInitiateDone ==
  ASSUME TypeOK, NEW s \in Session, InitiateDone(s)
  PROVE  TypeOK'
<1>1. /\ initiate' \in [Session -> {"none", "running", "ok", "error", "done"}]
      /\ UNCHANGED <<sessions, owner, otpPath, born, mutex, asks, faults>>
  BY DEF InitiateDone, Settle, TypeOK
<1>2. CASE UNCHANGED <<state, daemonVars, fileVars, late>>
  BY <1>1, <1>2 DEF TypeOK, daemonVars, fileVars
<1>3. CASE /\ state' = [state EXCEPT ![s] = "connected"]
           /\ late' = IF command = born[s] THEN late ELSE late \cup {s}
           /\ UNCHANGED <<daemonVars, fileVars>>
  <2>1. late' \in SUBSET Session
    BY <1>3 DEF TypeOK
  <2>2. state' \in [Session -> {"new", "connected"} \cup Negotiating \cup Ended]
    BY <1>3 DEF TypeOK
  <2> QED
    BY <1>1, <1>3, <2>1, <2>2 DEF TypeOK, daemonVars, fileVars
<1>4. CASE /\ state' = [state EXCEPT ![s] = "failed"]
           /\ IF otpPath[s] THEN RemoveChannel(owner[s]) ELSE KeepChannel
           /\ config' = [config EXCEPT ![owner[s]] = 0]
           /\ leftover' = leftover \ {owner[s]}
           /\ StopDaemonIfIdle(sessions, [state EXCEPT ![s] = "failed"])
           /\ UNCHANGED late
  <2>1. fifo' \in Session0 /\ crossed' \in SUBSET Session
    BY <1>4, ChannelTypes
  <2>2. state' \in [Session -> {"new", "connected"} \cup Negotiating \cup Ended]
    BY <1>4 DEF TypeOK, Ended
  <2>3. config' \in [Profile -> Session0] /\ leftover' \in SUBSET Profile
    BY <1>4, Numbers DEF TypeOK
  <2>4. /\ ProcessType' /\ command' \in Daemon0
        /\ UNCHANGED <<waiting, strays>>
    BY <1>4, StopDaemonEffect
  <2> QED
    BY <1>1, <1>4, <2>1, <2>2, <2>3, <2>4 DEF TypeOK, ProcessType
<1> QED
  BY <1>2, <1>3, <1>4 DEF InitiateDone, Outcome

LEMMA TypeExchange ==
  ASSUME TypeOK, NEW s \in Session, InitiateReturns(s) \/ Ask(s) \/ Deliver(s)
  PROVE  TypeOK'
<1>1. CASE InitiateReturns(s)
  <2>1. initiate' \in [Session -> {"none", "running", "ok", "error", "done"}]
    BY <1>1 DEF InitiateReturns, TypeOK
  <2> QED
    BY <1>1, <2>1 DEF InitiateReturns, TypeOK, daemonVars, fileVars
<1>2. CASE Ask(s)
  BY <1>2 DEF Ask, TypeOK, sessionVars, daemonVars, fileVars
<1>3. CASE Deliver(s)
  <2>1. faults' \in 0..MaxFaults
    BY <1>3, FaultCounts DEF Deliver
  <2>2. asks' \in [Session -> Session0] /\ mutex' \in Mutex
    BY <1>3, Numbers DEF Deliver, TypeOK, Mutex
  <2>3. state' \in [Session -> {"new", "connected"} \cup Negotiating \cup Ended]
    BY <1>3 DEF Deliver, TypeOK, Negotiating
  <2> QED
    BY <1>3, <2>1, <2>2, <2>3 DEF Deliver, TypeOK, daemonVars, fileVars
<1> QED
  BY <1>1, <1>2, <1>3

LEMMA TypeSendOTP ==
  ASSUME TypeOK, NEW p \in Profile, SendOTP(p)
  PROVE  TypeOK' /\ sessions[p] \in Session /\ mutex' = Sending(sessions[p])
<1>1. sessions[p] \in Session /\ fifo \in Session
  BY Numbers DEF SendOTP, TypeOK
<1>2. mutex' = Sending(sessions[p])
  BY DEF SendOTP
<1>3. mutex' \in Mutex
  BY <1>1, <1>2 DEF Sending, Mutex
<1> QED
  BY <1>1, <1>2, <1>3 DEF SendOTP, TypeOK, sessionVars, daemonVars, fileVars

LEMMA TypeStop ==
  ASSUME TypeOK, NEW p \in Profile, Stop(p)
  PROVE  TypeOK' /\ sessions[p] \in Session
<1>1. sessions[p] \in Session
  BY Numbers DEF Stop, TypeOK
<1>2. state' \in [Session -> {"new", "connected"} \cup Negotiating \cup Ended]
  BY <1>1 DEF Stop, TypeOK, Ended
<1>3. otpPath' \in [Session -> BOOLEAN]
  <2>1. otpPath \in [Session -> BOOLEAN] /\ otpPath' = [otpPath EXCEPT ![sessions[p]] = FALSE]
    BY DEF Stop, TypeOK
  <2> QED
    BY <2>1, Zenon
<1>4. config' \in [Profile -> Session0] /\ leftover' \in SUBSET Profile
  BY Numbers DEF Stop, TypeOK
<1>5. fifo' \in Session0 /\ crossed' \in SUBSET Session
  BY ChannelTypes DEF Stop
<1>6. /\ ProcessType' /\ command' \in Daemon0
      /\ UNCHANGED <<waiting, strays>>
  BY StopDaemonEffect DEF Stop
<1> QED
  BY <1>1, <1>2, <1>3, <1>4, <1>5, <1>6 DEF Stop, TypeOK, ProcessType

LEMMA TypeReset ==
  ASSUME TypeOK, Reset
  PROVE  TypeOK'
<1>1. sessions' \in [Profile -> Session0]
  BY Numbers DEF Reset
<1>2. state' \in [Session -> {"new", "connected"} \cup Negotiating \cup Ended]
  BY DEF Reset, TypeOK, Ended
<1>3. otpPath' \in [Session -> BOOLEAN]
  BY Zenon DEF Reset
<1>4. config' \in [Profile -> Session0] /\ leftover' \in SUBSET Profile
  BY Numbers DEF Reset, TypeOK
<1>5. fifo' \in Session0
  BY Numbers DEF Reset, TypeOK
<1>6. /\ ProcessType' /\ command' \in Daemon0
      /\ UNCHANGED <<waiting, strays>>
  BY StopDaemonEffect DEF Reset
<1> QED
  BY <1>1, <1>2, <1>3, <1>4, <1>5, <1>6 DEF Reset, TypeOK, ProcessType

LEMMA TypeDaemon ==
  ASSUME TypeOK, NEW d \in Daemon, DaemonExits(d) \/ DaemonEnded(d)
  PROVE  TypeOK'
<1>1. CASE DaemonExits(d)
  <2>1. process' \in [Daemon -> {"none", "running", "terminating", "exited"}]
    BY <1>1 DEF DaemonExits, TypeOK
  <2>2. asks' \in [Session -> Session0]
    BY <1>1, Numbers DEF DaemonExits, TypeOK
  <2> QED
    BY <1>1, <2>1, <2>2 DEF DaemonExits, TypeOK, sessionVars, fileVars
<1>2. CASE DaemonEnded(d)
  <2>1. state' \in [Session -> {"new", "connected"} \cup Negotiating \cup Ended]
    BY <1>2 DEF DaemonEnded, TypeOK, Ended
  <2>2. command' \in Daemon0 /\ waiting' \in SUBSET Daemon
    BY <1>2, Numbers DEF DaemonEnded, TypeOK
  <2> QED
    BY <1>2, <2>1, <2>2 DEF DaemonEnded, TypeOK, fileVars
<1> QED
  BY <1>1, <1>2

LEMMA TypeCrash ==
  ASSUME TypeOK, Crash
  PROVE  TypeOK'
<1>1. /\ sessions' \in [Profile -> Session0]
      /\ command' \in Daemon0
  BY Numbers DEF Crash
<1>2. state' \in [Session -> {"new", "connected"} \cup Negotiating \cup Ended]
  BY DEF Crash, Ended
<1>3. otpPath' \in [Session -> BOOLEAN]
  BY DEF Crash
<1>4. initiate' \in [Session -> {"none", "running", "ok", "error", "done"}]
  BY DEF Crash
<1>5. faults' \in 0..MaxFaults
  BY FaultCounts DEF Crash
<1>6. mutex' \in Mutex /\ waiting' \in SUBSET Daemon /\ leftover' \in SUBSET Profile
  BY DEF Crash, Mutex
<1> QED
  BY <1>1, <1>2, <1>3, <1>4, <1>5, <1>6 DEF Crash, TypeOK

LEMMA TypeNext == TypeOK /\ [Next]_vars => TypeOK'
<1> SUFFICES ASSUME TypeOK, [Next]_vars PROVE TypeOK'
  OBVIOUS
<1>1. CASE UNCHANGED vars
  BY <1>1 DEF vars, sessionVars, daemonVars, fileVars, TypeOK
<1> QED
  BY <1>1, TypeEnsure, TypeSendOTP, TypeStop, TypeSpawn, TypeLoad, TypeReset, TypeCrash,
     TypeInitiateDone, TypeExchange, TypeDaemon DEF Next, Request

\* Every variable keeps its type.
THEOREM IpsecTypeCorrect == Spec => []TypeOK
BY TypeInit, TypeNext, PTL DEF Spec

-----------------------------------------------------------------------------
(* The invariant *)

AllBooked == \A s \in Session : UnusedIsNew(s) /\ LiveIsListed(s)

\* Leaves the parts about daemons alone.
LEMMA DaemonsFrame ==
  ASSUME HeldRunsAlone, SingleDaemon, UNCHANGED <<command, mutex>>, NoneStarted
  PROVE  HeldRunsAlone' /\ SingleDaemon'
BY SingleStays DEF HeldRunsAlone, NoneStarted, Running

\* The same when the mutex is let go and the daemon kept or dropped.
LEMMA DaemonsDropped ==
  ASSUME HeldRunsAlone, SingleDaemon, mutex' = Free, NoneStarted,
         command' = 0 \/ UNCHANGED command
  PROVE  HeldRunsAlone' /\ SingleDaemon'
BY SingleStays DEF HeldRunsAlone, NoneStarted, Running, Free

\* Who is live has one profile, and a profile has one live session.
LEMMA LiveIsOnly ==
  ASSUME TypeOK, AllBooked, NEW r \in Session, NEW s \in Session,
         state[r] \in Negotiating \cup {"connected"}, owner[s] = owner[r], sessions[owner[s]] = s
  PROVE  r = s
BY DEF AllBooked, LiveIsListed

LEMMA LiveHasOwner ==
  ASSUME TypeOK, AllBooked, NEW s \in Session, state[s] # "new"
  PROVE  owner[s] \in Profile
BY DEF AllBooked, UnusedIsNew, TypeOK

LEMMA InitInv == Init => IpsecInv
<1> SUFFICES ASSUME Init PROVE IpsecInv
  OBVIOUS
<1>1. TypeOK
  BY TypeInit
<1>2. \A s \in Session : UnusedIsNew(s) /\ LiveIsListed(s)
  BY DEF Init, UnusedIsNew, LiveIsListed, Negotiating
<1>3. ListedIsOwn /\ StartingHasEnded /\ SendingIsLive /\ HeldRunsAlone
  BY DEF Init, ListedIsOwn, StartingHasEnded, SendingIsLive, HeldRunsAlone, Free
<1>4. ConnectedIsServed /\ ChannelStays /\ SecretsHaveSession
  BY DEF Init, ConnectedIsServed, ChannelStays, SecretsHaveSession, Negotiating
<1>5. SingleDaemon
  <2>1. Running \ strays = {}
    BY DEF Init, Running
  <2> QED
    BY <2>1, FS_EmptySet DEF SingleDaemon
<1> QED
  BY <1>1, <1>2, <1>3, <1>4, <1>5 DEF IpsecInv

\* Steps that leave sessions and files alone.
LEMMA SessionsFrame ==
  ASSUME IpsecInv, UNCHANGED <<sessions, owner, state, otpPath, born>>,
         \A s \in Session : initiate'[s] = "none" <=> initiate[s] = "none",
         UNCHANGED <<fileVars, late>>
  PROVE  /\ AllBooked' /\ ListedIsOwn' /\ ChannelStays' /\ SecretsHaveSession'
         /\ UNCHANGED command => ConnectedIsServed'
<1>1. AllBooked'
  BY DEF IpsecInv, AllBooked, UnusedIsNew, LiveIsListed
<1>2. ListedIsOwn'
  BY DEF IpsecInv, ListedIsOwn
<1>3. ChannelStays'
  BY DEF IpsecInv, ChannelStays, fileVars
<1>4. SecretsHaveSession'
  BY DEF IpsecInv, SecretsHaveSession, fileVars
<1>5. UNCHANGED command => ConnectedIsServed'
  BY DEF IpsecInv, ConnectedIsServed
<1> QED
  BY <1>1, <1>2, <1>3, <1>4, <1>5

LEMMA EnsureInv ==
  ASSUME IpsecInv, NEW p \in Profile, Ensure(p)
  PROVE  IpsecInv'
<1>1. TypeOK'
  BY TypeEnsure DEF IpsecInv
<1>2. /\ AllBooked' /\ ListedIsOwn' /\ ChannelStays' /\ SecretsHaveSession'
      /\ ConnectedIsServed'
  BY SessionsFrame DEF Ensure, sessionVars, daemonVars
<1>3. StartingHasEnded'
  BY DEF Ensure, sessionVars, StartingHasEnded, Loading, Spawning
<1>4. SendingIsLive'
  BY DEF Ensure, SendingIsLive, Loading, Spawning
<1>5. CASE command # 0
  <2>1. mutex' = Loading(p) /\ UNCHANGED daemonVars
    BY <1>5 DEF Ensure
  <2> QED
    BY <1>1, <1>2, <1>3, <1>4, <1>5, <2>1
    DEF IpsecInv, AllBooked, HeldRunsAlone, SingleDaemon, daemonVars, Running, Loading
<1>6. CASE command = 0
  <2>1. /\ mutex' = Spawning(p) /\ CleanupOrphans /\ command' = 0
    BY <1>6 DEF Ensure
  <2>2. Running' \subseteq strays' /\ NoneStarted
    <3>1. CASE process' = Terminated(Daemon) /\ UNCHANGED strays
      <4>1. TypeOK
        BY DEF IpsecInv
      <4>2. \A d \in Daemon : process'[d] # "running"
        BY <3>1, <4>1, TerminatedType
      <4> QED
        BY <3>1, <4>2 DEF Running, NoneStarted
    <3>2. CASE strays' = strays \cup Running /\ UNCHANGED process
      BY <3>2 DEF Running, NoneStarted
    <3> QED
      BY <2>1, <3>1, <3>2 DEF CleanupOrphans
  <2>3. SingleDaemon'
    BY <2>2, SingleStays DEF IpsecInv
  <2>4. HeldRunsAlone'
    BY <2>1, <2>2 DEF HeldRunsAlone, Spawning
  <2> QED
    BY <1>1, <1>2, <1>3, <1>4, <2>3, <2>4 DEF IpsecInv, AllBooked
<1> QED
  BY <1>5, <1>6

LEMMA SpawnInv ==
  ASSUME IpsecInv, NEW p \in Profile, Spawn(p)
  PROVE  IpsecInv'
<1>1. TypeOK'
  BY TypeSpawn DEF IpsecInv
<1>2. mutex = Spawning(p) /\ command = 0 /\ Running \subseteq strays
  BY DEF IpsecInv, HeldRunsAlone, Spawn, Spawning
<1>3. /\ AllBooked' /\ ListedIsOwn' /\ ChannelStays' /\ SecretsHaveSession'
      /\ UNCHANGED command => ConnectedIsServed'
  BY SessionsFrame DEF Spawn, sessionVars
<1>4. UNCHANGED <<sessions, state, born, late, strays>>
  BY DEF Spawn, sessionVars
<1>5. SendingIsLive'
  BY DEF Spawn, SendingIsLive, Loading, Free
<1>6. StartingHasEnded'
  <2>1. sessions[p] # 0 => state[sessions[p]] \in Ended
    BY <1>2 DEF IpsecInv, StartingHasEnded, Spawning
  <2>2. mutex' = Loading(p) \/ mutex' = Free
    BY DEF Spawn
  <2> QED
    BY <1>4, <2>1, <2>2 DEF StartingHasEnded, Loading, Free
<1>7. CASE mutex' = Free
  <2>1. UNCHANGED command /\ NoneStarted
    BY <1>7 DEF Spawn, NoneStarted, IpsecInv, TypeOK, Free, Loading
  <2> QED
    BY <1>1, <1>3, <1>5, <1>6, <1>7, <2>1, DaemonsDropped DEF IpsecInv, AllBooked
<1>8. CASE mutex' # Free
  <2>1. PICK d \in Daemon :
          /\ process' = [process EXCEPT ![d] = "running"]
          /\ command' = d
          /\ mutex' = Loading(p)
    BY <1>8 DEF Spawn
  <2>2. (Running \ strays)' \subseteq {d}
    BY <1>2, <1>4, <2>1 DEF Running, IpsecInv, TypeOK
  <2>3. SingleDaemon'
    BY <2>2, SingleOf
  <2>4. HeldRunsAlone'
    BY <2>1, <2>2, Numbers DEF HeldRunsAlone, Loading
  <2>5. ConnectedIsServed'
    <3>1. \A s \in Session : state[s] = "connected" => born[s] # 0
      BY DEF IpsecInv, LiveIsListed
    <3> QED
      BY <1>2, <1>4, <3>1 DEF IpsecInv, ConnectedIsServed
  <2> QED
    BY <1>1, <1>3, <1>5, <1>6, <2>3, <2>4, <2>5 DEF IpsecInv, AllBooked
<1> QED
  BY <1>7, <1>8

\* The path of a profile that starts is not that of one of its own live sessions.
LEMMA ChannelTaken ==
  ASSUME TypeOK, AllBooked, ChannelStays, NEW p \in Profile,
         crossed' = crossed \cup Others(p),
         NEW s \in Session, state[s] \in Negotiating, otpPath[s], s \notin crossed'
  PROVE  owner[s] = p
BY DEF ChannelStays, Others

LEMMA StartingIsAlone ==
  ASSUME IpsecInv, NEW p \in Profile, mutex = Loading(p)
  PROVE  /\ \A s \in Session : state[s] \in Negotiating \cup {"connected"} => owner[s] # p
         /\ command # 0
<1>1. sessions[p] # 0 => state[sessions[p]] \in Ended
  BY DEF IpsecInv, StartingHasEnded, Loading
<1>2. command # 0
  BY DEF IpsecInv, HeldRunsAlone, Loading
<1>3. ASSUME NEW s \in Session, state[s] \in Negotiating \cup {"connected"}, owner[s] = p
      PROVE  FALSE
  <2>1. sessions[p] = s
    BY <1>3 DEF IpsecInv, LiveIsListed
  <2> QED
    BY <1>1, <1>3, <2>1, Numbers DEF Negotiating, Ended
<1> QED
  BY <1>2, <1>3

LEMMA LoadInv ==
  ASSUME IpsecInv, NEW p \in Profile, Load(p)
  PROVE  IpsecInv'
<1>1. TypeOK /\ TypeOK'
  BY TypeLoad DEF IpsecInv
<1>2. /\ mutex = Loading(p) /\ mutex' = Free
      /\ UNCHANGED <<asks, late>>
  BY DEF Load
<1>3. /\ \A s \in Session : state[s] \in Negotiating \cup {"connected"} => owner[s] # p
      /\ command # 0
  BY <1>2, StartingIsAlone
<1>4. StartingHasEnded' /\ SendingIsLive'
  BY <1>2 DEF StartingHasEnded, SendingIsLive, Free
<1>5. CASE WriteFails(p)
  <2>1. /\ UNCHANGED <<sessionVars, daemonVars, fifo, crossed>>
    BY <1>5 DEF WriteFails, KeepChannel
  <2>2. \A q \in Profile \ {p} : config'[q] = config[q] /\ (q \in leftover => q \in leftover')
    BY <1>1, <1>5 DEF WriteFails, TypeOK
  <2>3. config'[p] = 0 \/ p \in leftover' \/ (config'[p] = config[p] /\ UNCHANGED leftover)
    BY <1>1, <1>5 DEF WriteFails, TypeOK
  <2>4. SecretsHaveSession'
    BY <2>1, <2>2, <2>3 DEF IpsecInv, SecretsHaveSession, sessionVars
  <2>5. AllBooked' /\ ListedIsOwn' /\ ChannelStays' /\ ConnectedIsServed'
    BY <1>2, <2>1 DEF IpsecInv, AllBooked, UnusedIsNew, LiveIsListed, ListedIsOwn, ChannelStays,
       ConnectedIsServed, sessionVars, daemonVars
  <2>6. HeldRunsAlone' /\ SingleDaemon'
    BY <1>2, <2>1, DaemonsDropped DEF IpsecInv, NoneStarted, daemonVars
  <2> QED
    BY <1>1, <1>4, <2>4, <2>5, <2>6 DEF IpsecInv, AllBooked
<1>6. CASE LoadFails(p)
  <2>1. /\ UNCHANGED sessionVars
        /\ StopDaemonIfIdle(sessions, state)
        /\ config' = [config EXCEPT ![p] = 0]
        /\ leftover' = leftover \ {p}
        /\ RemoveChannel(p) \/ KeepChannel
    BY <1>6 DEF LoadFails
  <2>2. SecretsHaveSession'
    BY <1>1, <2>1 DEF IpsecInv, SecretsHaveSession, sessionVars, TypeOK
  <2>3. AllBooked' /\ ListedIsOwn'
    BY <2>1 DEF IpsecInv, AllBooked, UnusedIsNew, LiveIsListed, ListedIsOwn, sessionVars
  <2>4. ChannelStays'
    <3>1. CASE KeepChannel
      BY <2>1, <3>1 DEF KeepChannel, IpsecInv, ChannelStays, sessionVars
    <3>2. CASE RemoveChannel(p)
      <4>1. ASSUME NEW s \in Session, state[s] \in Negotiating, otpPath[s], s \notin crossed'
            PROVE  FALSE
        BY <1>1, <1>3, <3>2, <4>1, ChannelTaken DEF RemoveChannel, IpsecInv, AllBooked
      <4> QED
        BY <2>1, <4>1 DEF ChannelStays, sessionVars
    <3> QED
      BY <2>1, <3>1, <3>2
  <2>5. /\ NoneStarted
        /\ command' = 0 \/ UNCHANGED command
        /\ (\E q \in Profile : sessions[q] # 0 /\ state[sessions[q]] = "connected")
              => command' = command
    BY <1>1, <2>1, StopDaemonEffect
  <2>6. HeldRunsAlone' /\ SingleDaemon'
    BY <1>2, <2>5, DaemonsDropped DEF IpsecInv
  <2>7. ConnectedIsServed'
    <3>1. ASSUME NEW s \in Session, state[s] = "connected" PROVE UNCHANGED command
      <4>1. owner[s] \in Profile /\ sessions[owner[s]] = s
        BY <1>1, <3>1, LiveHasOwner DEF IpsecInv, AllBooked, LiveIsListed
      <4> QED
        BY <2>5, <3>1, <4>1, Numbers
    <3> QED
      BY <1>2, <2>1, <3>1 DEF IpsecInv, ConnectedIsServed, sessionVars
  <2> QED
    BY <1>1, <1>4, <2>2, <2>3, <2>4, <2>6, <2>7 DEF IpsecInv, AllBooked
<1>7. CASE Loads(p)
  <2>1. PICK s \in Session :
          /\ owner[s] = NoProfile
          /\ owner' = [owner EXCEPT ![s] = p]
          /\ sessions' = [sessions EXCEPT ![p] = s]
          /\ state' = [state EXCEPT ![s] = IF p \in TwoFactor
                                           THEN "waiting-otp" ELSE "connecting"]
          /\ otpPath' = [otpPath EXCEPT ![s] = p \in TwoFactor]
          /\ initiate' = [initiate EXCEPT ![s] = "running"]
          /\ born' = [born EXCEPT ![s] = command]
          /\ config' = [config EXCEPT ![p] = s]
          /\ IF p \in TwoFactor
             THEN fifo' = s /\ crossed' = crossed \cup Others(p)
             ELSE KeepChannel
    BY <1>7 DEF Loads, NextSession
  <2>2. leftover' = leftover \ {p} /\ UNCHANGED daemonVars
    BY <1>7 DEF Loads
  <2>3. /\ owner'[s] = p /\ sessions'[p] = s /\ state'[s] \in Negotiating
        /\ otpPath'[s] <=> p \in TwoFactor
        /\ initiate'[s] = "running" /\ born'[s] = command /\ config'[p] = s
    BY <1>1, <2>1 DEF TypeOK, Negotiating
  <2>4. \A r \in Session \ {s} :
          /\ owner'[r] = owner[r] /\ state'[r] = state[r] /\ otpPath'[r] = otpPath[r]
          /\ initiate'[r] = initiate[r] /\ born'[r] = born[r]
    BY <1>1, <2>1 DEF TypeOK
  <2>5. \A q \in Profile \ {p} : sessions'[q] = sessions[q] /\ config'[q] = config[q]
    BY <1>1, <2>1 DEF TypeOK
  <2>6. p # NoProfile /\ s # 0
    BY IpsecProfileAssumption, Numbers DEF NoProfile
  <2>7. AllBooked'
    <3>1. UnusedIsNew(s)' /\ LiveIsListed(s)'
      BY <1>3, <2>3, <2>6 DEF UnusedIsNew, LiveIsListed, Negotiating
    <3>2. ASSUME NEW r \in Session \ {s} PROVE UnusedIsNew(r)' /\ LiveIsListed(r)'
      <4>1. UnusedIsNew(r) /\ LiveIsListed(r)
        BY DEF IpsecInv
      <4>2. state[r] \in Negotiating \cup {"connected"} => owner[r] \in Profile \ {p}
        BY <1>1, <1>3, LiveHasOwner DEF IpsecInv, AllBooked, Negotiating
      <4> QED
        BY <2>4, <2>5, <4>1, <4>2 DEF UnusedIsNew, LiveIsListed
    <3> QED
      BY <3>1, <3>2 DEF AllBooked
  <2>8. \A q \in Profile \ {p} : sessions[q] # 0 => sessions[q] \in Session \ {s}
    <3>1. \A q \in Profile : sessions[q] # 0 => owner[sessions[q]] = q
      BY DEF IpsecInv, ListedIsOwn
    <3>2. \A q \in Profile : q # NoProfile
      BY IpsecProfileAssumption DEF NoProfile
    <3> QED
      BY <1>1, <2>1, <3>1, <3>2, Numbers DEF TypeOK
  <2>9. ListedIsOwn'
    BY <2>3, <2>4, <2>5, <2>8 DEF IpsecInv, ListedIsOwn
  <2>10. SecretsHaveSession'
    <3>1. state'[s] # "stopped"
      BY <2>3 DEF Negotiating
    <3>2. \A q \in Profile \ {p} : q \in leftover => q \in leftover'
      BY <2>2
    <3> QED
      BY <2>3, <2>4, <2>5, <2>8, <3>1, <3>2 DEF IpsecInv, SecretsHaveSession
  <2>11. ChannelStays'
    <3>1. otpPath'[s] => fifo' = s
      BY <2>1, <2>3
    <3>2. ASSUME NEW r \in Session \ {s}, state'[r] \in Negotiating, otpPath'[r],
                 r \notin crossed'
          PROVE  fifo' = r
      <4>1. state[r] \in Negotiating /\ otpPath[r]
        BY <2>4, <3>2
      <4>2. CASE crossed' = crossed \cup Others(p)
        BY <1>1, <1>3, <3>2, <4>1, <4>2, ChannelTaken DEF IpsecInv, AllBooked
      <4>3. CASE KeepChannel
        BY <3>2, <4>1, <4>3 DEF KeepChannel, IpsecInv, ChannelStays
      <4> QED
        BY <2>1, <4>2, <4>3
    <3> QED
      BY <3>1, <3>2 DEF ChannelStays
  <2>12. HeldRunsAlone' /\ SingleDaemon'
    BY <1>2, <2>2, DaemonsDropped DEF IpsecInv, NoneStarted, daemonVars
  <2>13. ConnectedIsServed'
    BY <1>2, <2>2, <2>3, <2>4 DEF IpsecInv, ConnectedIsServed, daemonVars
  <2> QED
    BY <1>1, <1>4, <2>7, <2>9, <2>10, <2>11, <2>12, <2>13 DEF IpsecInv, AllBooked
<1> QED
  BY <1>5, <1>6, <1>7 DEF Load

\* A swanctl that returns, an exchange that opens the FIFO, a password on its way.
LEMMA ExchangeInv ==
  ASSUME IpsecInv, NEW s \in Session, InitiateReturns(s) \/ Ask(s)
  PROVE  IpsecInv'
<1>1. TypeOK /\ TypeOK'
  BY TypeExchange DEF IpsecInv
<1>2. /\ UNCHANGED <<sessions, owner, state, otpPath, born, daemonVars, fileVars, mutex, late>>
  BY DEF InitiateReturns, Ask, sessionVars
<1>3. \A r \in Session : initiate'[r] = "none" <=> initiate[r] = "none"
  BY <1>1 DEF InitiateReturns, Ask, sessionVars, TypeOK
<1>4. /\ AllBooked' /\ ListedIsOwn' /\ ChannelStays' /\ SecretsHaveSession'
      /\ ConnectedIsServed'
  BY <1>2, <1>3, SessionsFrame DEF daemonVars
<1>5. HeldRunsAlone' /\ SingleDaemon'
  BY <1>2, DaemonsFrame DEF IpsecInv, NoneStarted, daemonVars
<1>6. StartingHasEnded' /\ SendingIsLive'
  BY <1>2 DEF IpsecInv, StartingHasEnded, SendingIsLive
<1> QED
  BY <1>1, <1>4, <1>5, <1>6 DEF IpsecInv, AllBooked

LEMMA SendInv ==
  ASSUME IpsecInv, NEW p \in Profile, SendOTP(p)
  PROVE  IpsecInv'
<1>1. TypeOK' /\ sessions[p] \in Session /\ mutex' = Sending(sessions[p])
  BY TypeSendOTP DEF IpsecInv
<1>2. /\ UNCHANGED <<sessions, owner, state, otpPath, born, initiate, daemonVars, fileVars, late>>
      /\ state[sessions[p]] \in Negotiating
  BY DEF SendOTP, sessionVars
<1>3. /\ AllBooked' /\ ListedIsOwn' /\ ChannelStays' /\ SecretsHaveSession'
      /\ ConnectedIsServed'
  BY <1>2, SessionsFrame DEF daemonVars
<1>4. SingleDaemon'
  BY <1>2, SingleStays DEF IpsecInv, NoneStarted, daemonVars
<1>5. HeldRunsAlone'
  BY <1>1, <1>2 DEF IpsecInv, HeldRunsAlone, Sending, daemonVars, Running
<1>6. StartingHasEnded' /\ SendingIsLive'
  BY <1>1, <1>2 DEF StartingHasEnded, SendingIsLive, Sending
<1> QED
  BY <1>1, <1>3, <1>4, <1>5, <1>6 DEF IpsecInv, AllBooked

LEMMA DeliverInv ==
  ASSUME IpsecInv, NEW s \in Session, Deliver(s)
  PROVE  IpsecInv'
<1>1. TypeOK /\ TypeOK'
  BY TypeExchange DEF IpsecInv
<1>2. /\ mutex.by = "otp" /\ mutex' = Free
      /\ UNCHANGED <<sessions, owner, otpPath, initiate, born, daemonVars, fileVars, late>>
  BY DEF Deliver
<1>3. PICK w \in Session : w = mutex.session /\ state[w] \in Negotiating
  <2>1. mutex \in [by : {"otp"}, session : Session, fifo : Session]
    BY <1>1, <1>2 DEF TypeOK, Mutex, Free
  <2> QED
    BY <1>2, <2>1 DEF IpsecInv, SendingIsLive
<1>4. \A r \in Session :
        \/ state'[r] = state[r]
        \/ state[r] \in Negotiating /\ state'[r] = "connecting"
  <2>1. UNCHANGED state \/ state' = [state EXCEPT ![w] = "connecting"]
    BY <1>3 DEF Deliver
  <2> QED
    BY <1>1, <1>3, <2>1 DEF TypeOK
<1>5. AllBooked'
  BY <1>2, <1>4 DEF IpsecInv, AllBooked, UnusedIsNew, LiveIsListed, Negotiating
<1>6. ListedIsOwn'
  BY <1>2 DEF IpsecInv, ListedIsOwn
<1>7. ChannelStays'
  BY <1>2, <1>4 DEF IpsecInv, ChannelStays, Negotiating, fileVars
<1>8. SecretsHaveSession'
  <2>1. \A p \in Profile : config[p] # 0 /\ config[p] = sessions[p] => sessions[p] \in Session
    BY <1>1, Numbers DEF TypeOK
  <2> QED
    BY <1>2, <1>4, <2>1 DEF IpsecInv, SecretsHaveSession, fileVars
<1>9. ConnectedIsServed'
  BY <1>2, <1>4 DEF IpsecInv, ConnectedIsServed, daemonVars
<1>10. HeldRunsAlone' /\ SingleDaemon'
  BY <1>2, DaemonsDropped DEF IpsecInv, NoneStarted, daemonVars
<1>11. StartingHasEnded' /\ SendingIsLive'
  BY <1>2 DEF StartingHasEnded, SendingIsLive, Free
<1> QED
  BY <1>1, <1>5, <1>6, <1>7, <1>8, <1>9, <1>10, <1>11 DEF IpsecInv, AllBooked

-----------------------------------------------------------------------------
(* Sessions that end *)

\* A session that ends, on its own, by a Stop or by a failure, takes its file
\* and its path away and gives the daemon up if nobody else is connected.
Ends(s, outcome) ==
  /\ mutex = Free /\ mutex' = Free
  /\ owner[s] \in Profile
  /\ sessions[owner[s]] = s
  /\ state' = [state EXCEPT ![s] = outcome]
  /\ otpPath' = otpPath \/ otpPath' = [otpPath EXCEPT ![s] = FALSE]
  /\ \/ config' = [config EXCEPT ![owner[s]] = 0] /\ leftover' = leftover \ {owner[s]}
     \/ state[s] = "stopped" /\ UNCHANGED <<config, leftover>>
  /\ IF otpPath[s] THEN RemoveChannel(owner[s]) ELSE KeepChannel
  /\ StopDaemonIfIdle(sessions, [state EXCEPT ![s] = outcome])
  /\ \A r \in Session : initiate'[r] = "none" <=> initiate[r] = "none"
  /\ UNCHANGED <<sessions, owner, born, late>>

LEMMA EndsInv ==
  ASSUME IpsecInv, TypeOK', NEW s \in Session, NEW outcome \in Ended, Ends(s, outcome)
  PROVE  IpsecInv'
<1>1. TypeOK
  BY DEF IpsecInv
<1>2. /\ state'[s] = outcome
      /\ \A r \in Session \ {s} : state'[r] = state[r] /\ (otpPath'[r] => otpPath[r])
      /\ owner[s] \in Profile /\ owner[s] # NoProfile
  <2>1. owner[s] # NoProfile
    BY IpsecProfileAssumption DEF Ends, NoProfile
  <2>2. \A r \in Session \ {s} : otpPath'[r] => otpPath[r]
    BY <1>1 DEF Ends, TypeOK
  <2> QED
    BY <1>1, <2>1, <2>2 DEF Ends, TypeOK
<1>3. UNCHANGED <<sessions, owner, born, late>> /\ mutex' = Free
  BY DEF Ends
<1>4. \A r \in Session \ {s} :
        state[r] \in Negotiating \cup {"connected"} => owner[r] # owner[s]
  BY <1>1, LiveIsOnly DEF IpsecInv, AllBooked, Ends
<1>5. AllBooked'
  <2>1. UnusedIsNew(s)' /\ LiveIsListed(s)'
    BY <1>2, <1>3 DEF UnusedIsNew, LiveIsListed, Negotiating, Ended
  <2>2. \A r \in Session \ {s} : UnusedIsNew(r)' /\ LiveIsListed(r)'
    BY <1>2, <1>3 DEF Ends, IpsecInv, UnusedIsNew, LiveIsListed
  <2> QED
    BY <2>1, <2>2 DEF AllBooked
<1>6. ListedIsOwn'
  BY <1>3 DEF IpsecInv, ListedIsOwn
<1>7. ChannelStays'
  <2>1. ASSUME NEW r \in Session, state'[r] \in Negotiating, otpPath'[r], r \notin crossed'
        PROVE  fifo' = r
    <3>1. r # s
      BY <1>2, <2>1 DEF Negotiating, Ended
    <3>2. state[r] \in Negotiating /\ otpPath[r]
      BY <1>2, <2>1, <3>1
    <3>3. CASE KeepChannel
      BY <2>1, <3>2, <3>3 DEF KeepChannel, IpsecInv, ChannelStays
    <3>4. CASE RemoveChannel(owner[s])
      <4>1. owner[r] = owner[s]
        BY <1>1, <1>2, <2>1, <3>2, <3>4, ChannelTaken DEF RemoveChannel, IpsecInv, AllBooked
      <4> QED
        BY <1>4, <3>1, <3>2, <4>1
    <3> QED
      BY <3>3, <3>4 DEF Ends
  <2> QED
    BY <2>1 DEF ChannelStays
<1>8. SecretsHaveSession'
  <2> DEFINE p == owner[s]
  <2>1. \A q \in Profile \ {p} :
          /\ config'[q] = config[q] /\ (q \in leftover => q \in leftover')
    BY <1>1 DEF Ends, TypeOK
  <2>2. config'[p] = 0 \/ (config'[p] = config[p] /\ UNCHANGED leftover /\ state[s] = "stopped")
    BY <1>1, <1>2 DEF Ends, TypeOK
  <2>3. sessions[p] = s
    BY DEF Ends
  <2>4. \A q \in Profile \ {p} : sessions[q] # 0 => sessions[q] \in Session \ {s}
    BY <1>1, Numbers DEF IpsecInv, ListedIsOwn, TypeOK
  <2>5. config'[p] # 0 => p \in leftover'
    BY <1>2, <2>2, <2>3 DEF IpsecInv, SecretsHaveSession
  <2>6. ASSUME NEW q \in Profile \ {p}, config'[q] # 0
        PROVE  \/ q \in leftover'
               \/ config'[q] = sessions'[q] /\ state'[sessions'[q]] # "stopped"
    BY <1>2, <1>3, <2>1, <2>4, <2>6 DEF IpsecInv, SecretsHaveSession
  <2> QED
    BY <2>5, <2>6 DEF SecretsHaveSession
<1>9. /\ NoneStarted
      /\ command' = 0 \/ UNCHANGED command
      /\ (\E q \in Profile : sessions[q] # 0 /\ state'[sessions[q]] = "connected")
              => command' = command
  <2>1. PICK st : st = [state EXCEPT ![s] = outcome]
    OBVIOUS
  <2>2. StopDaemonIfIdle(sessions, st) /\ state' = st
    BY <2>1 DEF Ends
  <2> QED
    BY <1>1, <2>2, StopDaemonEffect
<1>10. HeldRunsAlone' /\ SingleDaemon'
  BY <1>3, <1>9, DaemonsDropped DEF IpsecInv
<1>11. ConnectedIsServed'
  <2>1. ASSUME NEW r \in Session, state'[r] = "connected"
        PROVE  state[r] = "connected" /\ UNCHANGED command
    <3>1. r # s /\ state[r] = "connected"
      BY <1>2, <2>1 DEF Ended
    <3>2. owner[r] \in Profile /\ sessions[owner[r]] = r
      BY <1>1, <3>1, LiveHasOwner DEF IpsecInv, AllBooked, LiveIsListed
    <3> QED
      BY <1>9, <2>1, <3>1, <3>2, Numbers
  <2> QED
    BY <1>3, <2>1 DEF IpsecInv, ConnectedIsServed
<1>12. StartingHasEnded' /\ SendingIsLive'
  BY <1>3 DEF StartingHasEnded, SendingIsLive, Free
<1> QED
  BY <1>5, <1>6, <1>7, <1>8, <1>10, <1>11, <1>12 DEF IpsecInv, AllBooked

LEMMA StopInv ==
  ASSUME IpsecInv, NEW p \in Profile, Stop(p)
  PROVE  IpsecInv'
<1>1. TypeOK' /\ sessions[p] \in Session
  BY TypeStop DEF IpsecInv
<1>2. PICK s \in Session : s = sessions[p]
  BY <1>1
<1>3. owner[s] = p
  BY <1>2, Numbers DEF IpsecInv, ListedIsOwn
<1>4. \/ config' = [config EXCEPT ![p] = 0] /\ leftover' = leftover \ {p}
      \/ state[s] = "stopped" /\ UNCHANGED <<config, leftover>>
  <2>1. CASE state[s] = "stopped"
    <3>1. config' = [config EXCEPT ![p] = config[p]] /\ UNCHANGED leftover
      BY <1>2, <2>1 DEF Stop
    <3>2. UNCHANGED config
      BY <3>1 DEF IpsecInv, TypeOK
    <3> QED
      BY <2>1, <3>1, <3>2
  <2>2. CASE state[s] # "stopped"
    BY <1>2, <2>2 DEF Stop
  <2> QED
    BY <2>1, <2>2
<1>5. /\ state' = [state EXCEPT ![s] = "stopped"]
      /\ otpPath' = [otpPath EXCEPT ![s] = FALSE]
      /\ IF otpPath[s] THEN RemoveChannel(p) ELSE KeepChannel
      /\ StopDaemonIfIdle(sessions, [state EXCEPT ![s] = "stopped"])
      /\ mutex = Free
      /\ UNCHANGED <<sessions, owner, initiate, born, mutex, late>>
  BY <1>2 DEF Stop
<1>6. Ends(s, "stopped")
  BY <1>2, <1>3, <1>4, <1>5 DEF Ends
<1> QED
  BY <1>1, <1>6, EndsInv DEF Ended

LEMMA InitiateDoneInv ==
  ASSUME IpsecInv, NEW s \in Session, InitiateDone(s)
  PROVE  IpsecInv'
<1>1. TypeOK /\ TypeOK'
  BY TypeInitiateDone DEF IpsecInv
<1>2. /\ mutex = Free /\ mutex' = Free
      /\ UNCHANGED <<sessions, owner, otpPath, born>>
      /\ \A r \in Session : initiate'[r] = "none" <=> initiate[r] = "none"
      /\ initiate[s] # "none"
  BY <1>1 DEF InitiateDone, Settle, TypeOK
<1>3. StartingHasEnded' /\ SendingIsLive'
  BY <1>2 DEF StartingHasEnded, SendingIsLive, Free
<1>4. CASE state[s] \in Ended
  <2>1. UNCHANGED <<state, daemonVars, fileVars, late>>
    BY <1>4 DEF InitiateDone
  <2>2. /\ AllBooked' /\ ListedIsOwn' /\ ChannelStays' /\ SecretsHaveSession'
        /\ ConnectedIsServed'
    BY <1>2, <2>1, SessionsFrame DEF daemonVars
  <2>3. HeldRunsAlone' /\ SingleDaemon'
    BY <1>2, <2>1, DaemonsFrame DEF IpsecInv, NoneStarted, daemonVars
  <2> QED
    BY <1>1, <1>3, <2>2, <2>3 DEF IpsecInv, AllBooked
<1>5. CASE state[s] \notin Ended
  <2>1. state[s] \in Negotiating \cup {"connected"}
    <3>1. state[s] # "new"
      BY <1>2 DEF IpsecInv, UnusedIsNew
    <3> QED
      BY <1>1, <1>5, <3>1 DEF TypeOK
  <2>2. owner[s] \in Profile /\ sessions[owner[s]] = s /\ born[s] # 0
    BY <1>1, <2>1, LiveHasOwner DEF IpsecInv, AllBooked, LiveIsListed, Negotiating
  <2>3. CASE /\ state' = [state EXCEPT ![s] = "connected"]
             /\ late' = IF command = born[s] THEN late ELSE late \cup {s}
             /\ UNCHANGED <<daemonVars, fileVars>>
    <3>1. /\ state'[s] = "connected"
          /\ \A r \in Session \ {s} : state'[r] = state[r]
          /\ owner[s] # NoProfile
      BY <1>1, <2>2, <2>3, IpsecProfileAssumption DEF TypeOK, NoProfile
    <3>2. AllBooked'
      <4>1. UnusedIsNew(s)' /\ LiveIsListed(s)'
        BY <1>2, <2>2, <3>1 DEF UnusedIsNew, LiveIsListed
      <4>2. \A r \in Session \ {s} : UnusedIsNew(r)' /\ LiveIsListed(r)'
        BY <1>2, <3>1 DEF IpsecInv, UnusedIsNew, LiveIsListed
      <4> QED
        BY <4>1, <4>2 DEF AllBooked
    <3>3. ListedIsOwn'
      BY <1>2 DEF IpsecInv, ListedIsOwn
    <3>4. ChannelStays'
      BY <1>2, <2>3, <3>1 DEF IpsecInv, ChannelStays, fileVars, Negotiating
    <3>5. SecretsHaveSession'
      <4>1. \A p \in Profile : config[p] # 0 /\ config[p] = sessions[p] =>
                                 sessions[p] \in Session
        BY <1>1, Numbers DEF TypeOK
      <4> QED
        BY <1>2, <2>3, <3>1, <4>1 DEF IpsecInv, SecretsHaveSession, fileVars
    <3>6. ConnectedIsServed'
      BY <1>2, <2>3, <3>1 DEF IpsecInv, ConnectedIsServed, daemonVars
    <3>7. HeldRunsAlone' /\ SingleDaemon'
      BY <1>2, <2>3, DaemonsFrame DEF IpsecInv, NoneStarted, daemonVars
    <3> QED
      BY <1>1, <1>3, <3>2, <3>3, <3>4, <3>5, <3>6, <3>7 DEF IpsecInv, AllBooked
  <2>4. CASE /\ state' = [state EXCEPT ![s] = "failed"]
             /\ IF otpPath[s] THEN RemoveChannel(owner[s]) ELSE KeepChannel
             /\ config' = [config EXCEPT ![owner[s]] = 0]
             /\ leftover' = leftover \ {owner[s]}
             /\ StopDaemonIfIdle(sessions, [state EXCEPT ![s] = "failed"])
             /\ UNCHANGED late
    <3>1. Ends(s, "failed")
      BY <1>2, <2>2, <2>4 DEF Ends
    <3> QED
      BY <1>1, <3>1, EndsInv DEF Ended
  <2> QED
    BY <1>5, <2>3, <2>4 DEF InitiateDone, Outcome
<1> QED
  BY <1>4, <1>5

LEMMA ResetInv ==
  ASSUME IpsecInv, Reset
  PROVE  IpsecInv'
<1>1. TypeOK /\ TypeOK'
  BY TypeReset DEF IpsecInv
<1> DEFINE S == {s \in {sessions[p] : p \in Profile} \ {0} : state[s] # "stopped"}
<1>2. /\ mutex = Free /\ mutex' = Free
      /\ state' = [s \in Session |-> IF s \in S THEN "stopped" ELSE state[s]]
      /\ config' = [p \in Profile |-> IF sessions[p] \in S THEN 0 ELSE config[p]]
      /\ leftover' = {p \in leftover : sessions[p] \notin S}
      /\ sessions' = [p \in Profile |-> 0]
      /\ StopDaemonIfIdle(sessions', state')
      /\ UNCHANGED <<owner, initiate, born, crossed, late>>
  BY DEF Reset
<1>3. \A s \in Session : state'[s] \notin Negotiating \cup {"connected"}
  <2>1. ASSUME NEW s \in Session, state[s] \in Negotiating \cup {"connected"}
        PROVE  s \in S
    <3>1. owner[s] \in Profile /\ sessions[owner[s]] = s
      BY <1>1, <2>1, LiveHasOwner DEF IpsecInv, AllBooked, LiveIsListed, Negotiating
    <3> QED
      BY <2>1, <3>1, Numbers DEF Negotiating
  <2> HIDE DEF S
  <2> QED
    BY <1>2, <2>1 DEF Negotiating
<1>4. AllBooked'
  <2>1. \A s \in S : state[s] # "stopped" /\ owner[s] # NoProfile
    <3>1. \A p \in Profile : sessions[p] # 0 => owner[sessions[p]] = p
      BY DEF IpsecInv, ListedIsOwn
    <3> QED
      BY <3>1, IpsecProfileAssumption DEF NoProfile
  <2> HIDE DEF S
  <2>2. \A s \in Session : UnusedIsNew(s)'
    BY <1>2, <2>1 DEF IpsecInv, UnusedIsNew
  <2> QED
    BY <1>3, <2>2 DEF AllBooked, LiveIsListed
<1>5. ListedIsOwn' /\ ChannelStays' /\ ConnectedIsServed'
  BY <1>2, <1>3 DEF ListedIsOwn, ChannelStays, ConnectedIsServed
<1>6. SecretsHaveSession'
  <2>1. ASSUME NEW p \in Profile, config'[p] # 0 PROVE p \in leftover'
    <3>1. sessions[p] \notin S /\ config[p] # 0
      BY <1>2, <2>1
    <3>2. sessions[p] = 0 \/ state[sessions[p]] = "stopped"
      BY <3>1
    <3> HIDE DEF S
    <3> QED
      BY <1>2, <3>1, <3>2 DEF IpsecInv, SecretsHaveSession
  <2> QED
    BY <2>1 DEF SecretsHaveSession
<1>7. HeldRunsAlone' /\ SingleDaemon'
  BY <1>1, <1>2, StopDaemonEffect, DaemonsDropped DEF IpsecInv
<1>8. StartingHasEnded' /\ SendingIsLive'
  BY <1>2 DEF StartingHasEnded, SendingIsLive, Free
<1> QED
  BY <1>1, <1>4, <1>5, <1>6, <1>7, <1>8 DEF IpsecInv, AllBooked

-----------------------------------------------------------------------------
(* Daemons that end, and the helper *)

LEMMA DaemonExitsInv ==
  ASSUME IpsecInv, NEW d \in Daemon, DaemonExits(d)
  PROVE  IpsecInv'
<1>1. TypeOK /\ TypeOK'
  BY TypeDaemon DEF IpsecInv
<1>2. UNCHANGED <<sessionVars, command, waiting, strays, fileVars, mutex, late, faults>>
  BY DEF DaemonExits
<1>3. NoneStarted
  BY <1>1, <1>2 DEF DaemonExits, NoneStarted, TypeOK
<1>4. /\ AllBooked' /\ ListedIsOwn' /\ ChannelStays' /\ SecretsHaveSession'
      /\ ConnectedIsServed'
  BY <1>2, SessionsFrame DEF sessionVars
<1>5. HeldRunsAlone' /\ SingleDaemon'
  BY <1>2, <1>3, DaemonsFrame DEF IpsecInv
<1>6. StartingHasEnded' /\ SendingIsLive'
  BY <1>2 DEF IpsecInv, StartingHasEnded, SendingIsLive, sessionVars
<1> QED
  BY <1>1, <1>4, <1>5, <1>6 DEF IpsecInv, AllBooked

LEMMA DaemonEndedInv ==
  ASSUME IpsecInv, NEW d \in Daemon, DaemonEnded(d)
  PROVE  IpsecInv'
<1>1. TypeOK /\ TypeOK'
  BY TypeDaemon DEF IpsecInv
<1>2. /\ mutex = Free /\ mutex' = Free
      /\ UNCHANGED <<sessions, owner, otpPath, initiate, born, process, strays, fileVars, late>>
  BY DEF DaemonEnded
<1>3. StartingHasEnded' /\ SendingIsLive'
  BY <1>2 DEF StartingHasEnded, SendingIsLive, Free
<1>4. command' = 0 \/ UNCHANGED command
  BY DEF DaemonEnded
<1>5. HeldRunsAlone' /\ SingleDaemon'
  BY <1>2, <1>4, DaemonsDropped DEF IpsecInv, NoneStarted
<1>6. \A s \in Session :
        state'[s] = state[s] \/ (state[s] = "connected" /\ state'[s] = "failed")
  BY <1>1 DEF DaemonEnded
<1>7. \A s \in Session : state'[s] = "connected" => UNCHANGED command
  <2>1. CASE command # d
    BY <2>1 DEF DaemonEnded
  <2>2. CASE command = d
    <3>1. state' = [s \in Session |->
                      IF state[s] = "connected" /\ sessions[owner[s]] = s
                      THEN "failed" ELSE state[s]]
      BY <2>2 DEF DaemonEnded
    <3>2. \A s \in Session : state[s] = "connected" => sessions[owner[s]] = s
      BY DEF IpsecInv, LiveIsListed
    <3> QED
      BY <3>1, <3>2
  <2> QED
    BY <2>1, <2>2
<1>8. AllBooked'
  BY <1>2, <1>6 DEF IpsecInv, AllBooked, UnusedIsNew, LiveIsListed, Negotiating
<1>9. ListedIsOwn'
  BY <1>2 DEF IpsecInv, ListedIsOwn
<1>10. ChannelStays'
  BY <1>2, <1>6 DEF IpsecInv, ChannelStays, Negotiating, fileVars
<1>11. SecretsHaveSession'
  <2>1. \A p \in Profile : config[p] # 0 /\ config[p] = sessions[p] => sessions[p] \in Session
    BY <1>1, Numbers DEF TypeOK
  <2> QED
    BY <1>2, <1>6, <2>1 DEF IpsecInv, SecretsHaveSession, fileVars
<1>12. ConnectedIsServed'
  BY <1>2, <1>6, <1>7 DEF IpsecInv, ConnectedIsServed
<1> QED
  BY <1>1, <1>3, <1>5, <1>8, <1>9, <1>10, <1>11, <1>12 DEF IpsecInv, AllBooked

LEMMA CrashInv ==
  ASSUME IpsecInv, Crash
  PROVE  IpsecInv'
<1>1. TypeOK /\ TypeOK'
  BY TypeCrash DEF IpsecInv
<1>2. /\ command' = 0 /\ mutex' = Free
      /\ UNCHANGED <<owner, born, process, strays, config>>
  BY DEF Crash
<1>3. \A s \in Session : state'[s] \in {"new", "stopped"}
  BY DEF Crash
<1>4. AllBooked'
  <2>1. \A s \in Session : UnusedIsNew(s)'
    BY DEF Crash, IpsecInv, UnusedIsNew
  <2> QED
    BY <1>3, <2>1 DEF AllBooked, LiveIsListed, Negotiating
<1>5. ListedIsOwn' /\ ChannelStays' /\ ConnectedIsServed' /\ SecretsHaveSession'
  BY <1>3 DEF Crash, ListedIsOwn, ChannelStays, ConnectedIsServed, SecretsHaveSession,
     Negotiating
<1>6. HeldRunsAlone' /\ SingleDaemon'
  BY <1>2, DaemonsDropped DEF IpsecInv, NoneStarted
<1>7. StartingHasEnded' /\ SendingIsLive'
  BY <1>2 DEF StartingHasEnded, SendingIsLive, Free
<1> QED
  BY <1>1, <1>4, <1>5, <1>6, <1>7 DEF IpsecInv, AllBooked

LEMMA StepInv == IpsecInv /\ [Next]_vars => IpsecInv'
<1> SUFFICES ASSUME IpsecInv, [Next]_vars PROVE IpsecInv'
  OBVIOUS
<1>1. CASE UNCHANGED vars
  <2>1. TypeOK'
    BY <1>1, TypeNext DEF IpsecInv
  <2>2. UNCHANGED <<sessions, owner, state, otpPath, initiate, born, command, process, strays,
                    mutex, late, fileVars>>
    BY <1>1 DEF vars, sessionVars, daemonVars
  <2>3. /\ AllBooked' /\ ListedIsOwn' /\ ChannelStays' /\ SecretsHaveSession'
        /\ ConnectedIsServed'
    BY <2>2, SessionsFrame
  <2>4. HeldRunsAlone' /\ SingleDaemon'
    BY <2>2, DaemonsFrame DEF IpsecInv, NoneStarted
  <2>5. StartingHasEnded' /\ SendingIsLive'
    BY <2>2 DEF IpsecInv, StartingHasEnded, SendingIsLive
  <2> QED
    BY <2>1, <2>3, <2>4, <2>5 DEF IpsecInv, AllBooked
<1> QED
  BY <1>1, EnsureInv, SendInv, StopInv, SpawnInv, LoadInv, ResetInv, CrashInv,
     ExchangeInv, DeliverInv, InitiateDoneInv, DaemonExitsInv, DaemonEndedInv DEF Next, Request

\* The invariant that makes the four properties below inductive.
THEOREM IpsecInvariant == Spec => []IpsecInv
BY InitInv, StepInv, PTL DEF Spec

\* Whatever other profiles start, stop and fail, a connected session has the
\* daemon the service holds, but for a success that comes too late.
THEOREM ConnectedServed == Spec => []ConnectedIsServed
<1>1. IpsecInv => ConnectedIsServed
  BY DEF IpsecInv
<1> QED
  BY <1>1, IpsecInvariant, PTL

\* There is never a second daemon that nobody has told to end, over any number
\* of crashes of the helper, while pgrep finds the first.
THEOREM OneDaemon == Spec => []SingleDaemon
<1>1. IpsecInv => SingleDaemon
  BY DEF IpsecInv
<1> QED
  BY <1>1, IpsecInvariant, PTL

\* Only another profile takes away the FIFO of a session that waits for its
\* one-time password.
THEOREM ChannelKept == Spec => []ChannelStays
<1>1. IpsecInv => ChannelStays
  BY DEF IpsecInv
<1> QED
  BY <1>1, IpsecInvariant, PTL

\* A file with secrets has its session, or a failed write or a crash has left it.
THEOREM SecretsOwned == Spec => []SecretsHaveSession
<1>1. IpsecInv => SecretsHaveSession
  BY DEF IpsecInv
<1> QED
  BY <1>1, IpsecInvariant, PTL
=============================================================================
