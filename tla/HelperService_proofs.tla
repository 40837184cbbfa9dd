------------------------ MODULE HelperService_proofs ------------------------
(***************************************************************************)
(* Proofs about the sessions of the helper, for any profiles, engines, number *)
(* of sessions and number of failures: type correctness, one engine for each  *)
(* profile, no transaction lost, no row without a record, routes for every    *)
(* connected session and a monitor for every live one, from one inductive     *)
(* invariant.                                                               *)
(***************************************************************************)
EXTENDS HelperService, TLAPS

-----------------------------------------------------------------------------
(* Release *)

LEMMA SessionNumbers ==
  /\ 0 \notin Session
  /\ 0 \in Session0
  /\ Session \subseteq Session0
  /\ \A x \in Session0 : x # 0 => x \in Session
BY MaxSessionsAssumption DEF Session, Session0

LEMMA FaultCounts ==
  ASSUME TypeOK, Fault
  PROVE  faults' \in 0..MaxFaults
<1>1. faults \in 0..MaxFaults
  BY DEF TypeOK
<1>2. faults < MaxFaults /\ faults' = faults + 1
  BY DEF Fault
<1> QED
  BY <1>1, <1>2, MaxFaultsAssumption

\* What releaseNetworkLocked does to the sessions it is called for: the
\* transaction is forgotten; its record and its row go together, or the
\* session is noted as abandoned.
LEMMA ReleaseEffect ==
  ASSUME TypeOK, NEW S \in SUBSET Session, Release(S)
  PROVE  /\ tx' = [s \in Session |-> IF s \in S THEN 0 ELSE tx[s]]
         /\ interface' = [s \in Session |-> IF s \in S THEN 0 ELSE interface[s]]
         /\ journal' \in [Session -> Session0]
         /\ network' \subseteq network
         /\ abandoned \subseteq abandoned' /\ abandoned' \in SUBSET Session
         /\ faults' \in 0..MaxFaults
         /\ \A s \in Session : s \notin S \/ tx[s] = 0 => journal'[s] = journal[s]
         /\ \A s \in S : tx[s] # 0 =>
              \/ journal'[s] = 0 /\ <<profile[s], tx[s]>> \notin network'
              \/ journal'[s] = journal[s] /\ s \in abandoned'
<1> DEFINE using == {s \in S : tx[s] # 0}
           bare == {s \in S : tx[s] = 0 /\ interface[s] # 0}
           rows(released) == {<<profile[s], tx[s]>> : s \in released}
                               \cup {<<profile[s], interface[s]>> : s \in bare}
<1>1. /\ tx' = [s \in Session |-> IF s \in S THEN 0 ELSE tx[s]]
      /\ interface' = [s \in Session |-> IF s \in S THEN 0 ELSE interface[s]]
  BY DEF Release
<1>2. PICK failed \in SUBSET using :
        /\ Fault \/ UNCHANGED faults
        /\ journal' = [s \in Session |-> IF s \in using \ failed THEN 0 ELSE journal[s]]
        /\ \E gone \in SUBSET failed :
             network' = network \ rows((using \ failed) \cup gone)
        /\ abandoned' = abandoned \cup failed
  <2> HIDE DEF rows, bare
  <2> QED
    BY DEF Release, rows, bare
<1>3. PICK gone \in SUBSET failed :
        network' = network \ rows((using \ failed) \cup gone)
  BY <1>2
<1>4. network' \subseteq network
  BY <1>3
<1>5. faults' \in 0..MaxFaults
  BY <1>2, FaultCounts DEF TypeOK
<1>6. journal' \in [Session -> Session0] /\ abandoned' \in SUBSET Session
  <2>1. journal \in [Session -> Session0] /\ abandoned \in SUBSET Session
    BY DEF TypeOK
  <2> QED
    BY <1>2, <2>1, SessionNumbers
<1>7. ASSUME NEW s \in S, tx[s] # 0
      PROVE  \/ journal'[s] = 0 /\ <<profile[s], tx[s]>> \notin network'
             \/ journal'[s] = journal[s] /\ s \in abandoned'
  <2>1. CASE s \in failed
    BY <1>2, <2>1
  <2>2. CASE s \notin failed
    <3>1. <<profile[s], tx[s]>> \in rows((using \ failed) \cup gone)
      BY <1>7, <2>2
    <3>2. journal'[s] = 0
      BY <1>2, <1>7, <2>2
    <3> QED
      BY <1>3, <3>1, <3>2
  <2> QED
    BY <2>1, <2>2
<1>8. \A s \in Session : s \notin S \/ tx[s] = 0 => journal'[s] = journal[s]
  BY <1>2
<1> QED
  BY <1>1, <1>2, <1>4, <1>5, <1>6, <1>7, <1>8

-----------------------------------------------------------------------------
(* Type correctness *)

LEMMA TypeInit == Init => TypeOK
<1> SUFFICES ASSUME Init PROVE TypeOK
  OBVIOUS
<1>1. /\ sessions \in [Profile -> Session0]
      /\ log \in [Profile -> Session0]
      /\ tx \in [Session -> Session0]
      /\ interface \in [Session -> Session0]
      /\ seen \in [Session -> Session0]
      /\ journal \in [Session -> Session0]
  BY SessionNumbers DEF Init
<1>2. profile \in [Session -> Profile \cup {NoProfile}] /\ state \in [Session -> State]
  BY DEF Init, State
<1>3. management \in [Session -> BOOLEAN]
  BY DEF Init
<1>4. faults \in 0..MaxFaults
  <2>1. faults = 0
    BY DEF Init
  <2> QED
    BY <2>1, MaxFaultsAssumption
<1>5. challenge \in [Session -> {"", "static", "dynamic"}]
      /\ engine \in [Session -> EngineState]
  BY DEF Init, EngineState
<1>6. monitor \in [Session -> MonitorPlace]
  BY DEF Init, MonitorPlace
<1>7. reader \in [Session -> ReaderPlace]
  BY DEF Init, ReaderPlace
<1>8. up \in SUBSET Session /\ abandoned \in SUBSET Session /\ late \in SUBSET Session
      /\ network \in SUBSET (Profile \X Session)
  BY DEF Init
<1> QED
  BY <1>1, <1>2, <1>3, <1>4, <1>5, <1>6, <1>7, <1>8 DEF TypeOK

\* The parts of the type invariant that Release is responsible for.
ReleasedTypes ==
  /\ tx \in [Session -> Session0]
  /\ interface \in [Session -> Session0]
  /\ journal \in [Session -> Session0]
  /\ network \in SUBSET (Profile \X Session)
  /\ abandoned \in SUBSET Session
  /\ faults \in 0..MaxFaults

LEMMA ReleaseTypes ==
  ASSUME TypeOK, NEW S \in SUBSET Session, Release(S)
  PROVE  ReleasedTypes'
<1>1. tx \in [Session -> Session0] /\ interface \in [Session -> Session0]
  BY DEF TypeOK
<1>2. tx' \in [Session -> Session0] /\ interface' \in [Session -> Session0]
  BY <1>1, ReleaseEffect, SessionNumbers
<1>3. network' \in SUBSET (Profile \X Session)
  <2>1. network \in SUBSET (Profile \X Session)
    BY DEF TypeOK
  <2>2. network' \subseteq network
    BY ReleaseEffect
  <2> QED
    BY <2>1, <2>2
<1> QED
  BY <1>2, <1>3, ReleaseEffect DEF ReleasedTypes

LEMMA TerminateTypes ==
  ASSUME TypeOK, NEW S \in SUBSET Session, Terminate(S)
  PROVE  engine' \in [Session -> EngineState]
<1>1. engine \in [Session -> EngineState]
  BY DEF TypeOK
<1> QED
  BY <1>1 DEF Terminate, EngineState

LEMMA TypeStopLocked ==
  ASSUME TypeOK, NEW S \in SUBSET Session, NEW outcome \in Ended, StopLocked(S, outcome),
         monitor' \in [Session -> MonitorPlace],
         reader' \in [Session -> ReaderPlace]
  PROVE  TypeOK'
<1>1. ReleasedTypes'
  BY ReleaseTypes DEF StopLocked
<1>2. management' \in [Session -> BOOLEAN]
  BY Zenon DEF StopLocked
<1>3. engine' \in [Session -> EngineState]
  BY TerminateTypes DEF StopLocked
<1>4. state' \in [Session -> State]
  <2>1. outcome \in State /\ state \in [Session -> State]
    BY DEF TypeOK, State
  <2> QED
    BY <2>1 DEF StopLocked
<1> QED
  BY <1>1, <1>2, <1>3, <1>4 DEF StopLocked, TypeOK, ReleasedTypes

\* The two ways in which Start adds a session: with its goroutines, or with an
\* engine that did not take its credentials.
StartSession(p, s) ==
  /\ NextSession(p, s)
  /\ profile' = [profile EXCEPT ![s] = p]
  /\ sessions' = [sessions EXCEPT ![p] = s]
  /\ \/ /\ engine' = [engine EXCEPT ![s] = "running"]
        /\ \E initial \in Negotiating : state' = [state EXCEPT ![s] = initial]
        /\ monitor' = [monitor EXCEPT ![s] = "watch"]
        /\ reader' = IF p \in OpenVPN THEN [reader EXCEPT ![s] = "dial"] ELSE reader
     \/ /\ engine' = [engine EXCEPT ![s] = "terminating"]
        /\ state' = [state EXCEPT ![s] = "stopped"]
        /\ UNCHANGED <<monitor, reader>>

LEMMA StartCases ==
  ASSUME NEW p \in Profile, Start(p)
  PROVE  \/ \E s \in Session : StartSession(p, s)
         \/ UNCHANGED <<profile, sessions, engine, state, monitor, reader>>
BY DEF Start, StartSession, Negotiating

LEMMA TypeRequest ==
  ASSUME TypeOK, NEW p \in Profile, Request(p)
  PROVE  TypeOK'
<1>1. CASE Start(p)
  <2>1. UNCHANGED <<tx, interface, management, challenge, up, seen, late, journal,
                    network, abandoned>>
    BY <1>1 DEF Start, hostVars
  <2>2. log' \in [Profile -> Session0]
    <3>1. log' = [log EXCEPT ![p] = 0] /\ log \in [Profile -> Session0]
      BY <1>1 DEF Start, TypeOK
    <3> QED
      BY <3>1, SessionNumbers
  <2>3. faults' \in 0..MaxFaults
    <3>1. Fault \/ UNCHANGED faults
      BY <1>1 DEF Start
    <3> QED
      BY <3>1, FaultCounts DEF TypeOK
  <2>4. CASE UNCHANGED <<profile, sessions, engine, state, monitor, reader>>
    BY <2>1, <2>2, <2>3, <2>4 DEF TypeOK
  <2>5. ASSUME NEW s \in Session, StartSession(p, s) PROVE TypeOK'
    <3>1. profile' \in [Session -> Profile \cup {NoProfile}]
      BY <2>5 DEF StartSession, TypeOK
    <3>2. sessions' \in [Profile -> Session0]
      BY <2>5, SessionNumbers DEF StartSession, TypeOK
    <3>3. state' \in [Session -> State]
      BY <2>5 DEF StartSession, TypeOK, State, Negotiating, Ended
    <3>4. engine' \in [Session -> EngineState]
      BY <2>5 DEF StartSession, TypeOK, EngineState
    <3>5. monitor' \in [Session -> MonitorPlace]
      BY <2>5 DEF StartSession, TypeOK, MonitorPlace
    <3>6. reader' \in [Session -> ReaderPlace]
      <4>1. reader' = [reader EXCEPT ![s] = "dial"] \/ UNCHANGED reader
        BY <2>5 DEF StartSession
      <4> QED
        BY <4>1 DEF TypeOK, ReaderPlace
    <3> QED
      BY <2>1, <2>2, <2>3, <3>1, <3>2, <3>3, <3>4, <3>5, <3>6 DEF TypeOK
  <2> QED
    BY <1>1, <2>4, <2>5, StartCases
<1>2. CASE SendOTP(p)
  BY <1>2 DEF SendOTP, TypeOK, State, Negotiating, goroutineVars, hostVars
<1>3. CASE Stop(p)
  <2>1. sessions[p] \in Session
    BY <1>3, SessionNumbers DEF Stop, TypeOK
  <2> QED
    BY <1>3, <2>1, TypeStopLocked DEF Stop, TypeOK, Ended
<1> QED
  BY <1>1, <1>2, <1>3 DEF Request

\* The sessions a reset stops, and what it does to them.
Resets ==
  {s \in {sessions[p] : p \in Profile} \ {0} : state[s] # "stopped"}

LEMMA ResetStops ==
  ASSUME TypeOK, Reset
  PROVE  /\ Resets \in SUBSET Session
         /\ Release(Resets)
         /\ Terminate(Resets)
         /\ management' = [s \in Session |-> management[s] /\ s \notin Resets]
         /\ state' = [s \in Session |-> IF s \in Resets THEN "stopped" ELSE state[s]]
         /\ sessions' = [p \in Profile |-> 0]
         /\ UNCHANGED <<challenge, profile, log, up, goroutineVars>>
<1>1. Resets \in SUBSET Session
  <2>1. sessions \in [Profile -> Session0]
    BY DEF TypeOK
  <2>2. \A p \in Profile : sessions[p] # 0 => sessions[p] \in Session
    BY <2>1, SessionNumbers
  <2> QED
    BY <2>2 DEF Resets
<1> QED
  BY <1>1 DEF Reset, Resets

LEMMA TypeReset ==
  ASSUME TypeOK, Reset
  PROVE  TypeOK'
<1>1. ReleasedTypes'
  BY ReleaseTypes, ResetStops
<1>2. management' \in [Session -> BOOLEAN]
  BY ResetStops, Zenon
<1>3. engine' \in [Session -> EngineState]
  BY ResetStops, TerminateTypes
<1>4. state' \in [Session -> State]
  <2>1. "stopped" \in State /\ state \in [Session -> State]
    BY DEF TypeOK, State, Ended
  <2> QED
    BY <2>1, ResetStops
<1>5. sessions' \in [Profile -> Session0]
  BY ResetStops, SessionNumbers
<1> QED
  BY <1>1, <1>2, <1>3, <1>4, <1>5, ResetStops DEF TypeOK, ReleasedTypes, goroutineVars

\* Moving a goroutine.
LEMMA MonitorMoves ==
  ASSUME TypeOK, NEW s \in Session, NEW place \in MonitorPlace, GoMonitor(s, place)
  PROVE  monitor' \in [Session -> MonitorPlace]
BY DEF TypeOK, GoMonitor

LEMMA ReaderMoves ==
  ASSUME TypeOK, NEW s \in Session, NEW place \in ReaderPlace, GoReader(s, place)
  PROVE  reader' \in [Session -> ReaderPlace]
BY DEF TypeOK, GoReader

LEMMA TypeMonitor ==
  ASSUME TypeOK, NEW s \in Session, UnusedIsBlank(s), SeeInterface(s) \/ Monitor(s)
  PROVE  TypeOK'
<1> USE DEF MonitorPlace
<1>1. CASE SeeInterface(s)
  <2>1. seen' \in [Session -> Session0]
    BY <1>1, SessionNumbers DEF SeeInterface, TypeOK
  <2>2. monitor' \in [Session -> MonitorPlace]
    BY <1>1, MonitorMoves DEF SeeInterface
  <2> QED
    BY <1>1, <2>1, <2>2 DEF SeeInterface, TypeOK, sessionVars, hostVars
<1>2. CASE Activate(s)
  <2>1. monitor' \in [Session -> MonitorPlace]
    BY <1>2, MonitorMoves DEF Activate
  <2>2. journal' \in [Session -> Session0]
    BY <1>2 DEF Activate, TypeOK
  <2>3. network' \in SUBSET (Profile \X Session)
    <3>1. CASE UNCHANGED network
      BY <3>1 DEF TypeOK
    <3>2. CASE seen[s] \in up /\ network' = network \cup {<<profile[s], seen[s]>>}
      <4>1. profile[s] \in Profile
        BY <1>2 DEF Activate, UnusedIsBlank, TypeOK
      <4>2. seen[s] \in Session
        BY <3>2 DEF TypeOK
      <4> QED
        <5>1. network \in SUBSET (Profile \X Session)
          BY DEF TypeOK
        <5>2. <<profile[s], seen[s]>> \in Profile \X Session
          BY <4>1, <4>2
        <5> QED
          BY <3>2, <5>1, <5>2
    <3> QED
      BY <1>2, <3>1, <3>2 DEF Activate
  <2>4. faults' \in 0..MaxFaults
    <3>1. Fault \/ UNCHANGED faults
      BY <1>2 DEF Activate
    <3> QED
      BY <3>1, FaultCounts DEF TypeOK
  <2> QED
    BY <1>2, <2>1, <2>2, <2>3, <2>4 DEF Activate, TypeOK, sessionVars
<1>3. CASE RecordTransaction(s)
  <2>1. monitor' \in [Session -> MonitorPlace]
    BY <1>3, MonitorMoves DEF RecordTransaction
  <2>2. tx' \in [Session -> Session0]
    BY <1>3 DEF RecordTransaction, TypeOK
  <2> QED
    BY <1>3, <2>1, <2>2 DEF RecordTransaction, TypeOK, hostVars
<1>4. CASE Connect(s)
  <2>1. monitor' \in [Session -> MonitorPlace]
    BY <1>4, MonitorMoves DEF Connect
  <2>2. interface' \in [Session -> Session0] /\ state' \in [Session -> State]
    BY <1>4 DEF Connect, TypeOK, State
  <2> QED
    BY <1>4, <2>1, <2>2 DEF Connect, TypeOK, hostVars
<1>5. CASE SetupFails(s) \/ Timeout(s)
  <2>1. StopLocked({s}, "failed") /\ GoMonitor(s, "reap") /\ UNCHANGED reader
    BY <1>5 DEF SetupFails, Timeout, Fail
  <2>2. monitor' \in [Session -> MonitorPlace] /\ reader' \in [Session -> ReaderPlace]
    BY <2>1, MonitorMoves DEF TypeOK
  <2>3. {s} \in SUBSET Session /\ "failed" \in Ended
    BY DEF Ended
  <2> QED
    BY <2>1, <2>2, <2>3, TypeStopLocked
<1>6. CASE Finish(s)
  <2>1. ReleasedTypes'
    <3>1. {s} \in SUBSET Session
      OBVIOUS
    <3> QED
      BY <1>6, <3>1, ReleaseTypes DEF Finish
  <2>2. monitor' \in [Session -> MonitorPlace]
    BY <1>6, MonitorMoves DEF Finish
  <2>3. management' \in [Session -> BOOLEAN] /\ state' \in [Session -> State]
    BY <1>6 DEF Finish, TypeOK, State, Ended
  <2> QED
    BY <1>6, <2>1, <2>2, <2>3 DEF Finish, TypeOK, ReleasedTypes
<1> QED
  BY <1>1, <1>2, <1>3, <1>4, <1>5, <1>6 DEF Monitor

LEMMA TypeReader ==
  ASSUME TypeOK, NEW s \in Session, Reader(s)
  PROVE  TypeOK'
<1> USE DEF ReaderPlace
<1>1. CASE Dial(s)
  <2>1. reader' \in [Session -> ReaderPlace]
    BY <1>1, ReaderMoves DEF Dial
  <2>2. faults' \in 0..MaxFaults
    <3>1. Fault \/ UNCHANGED faults
      BY <1>1 DEF Dial
    <3> QED
      BY <3>1, FaultCounts DEF TypeOK
  <2> QED
    BY <1>1, <2>1, <2>2 DEF Dial, TypeOK, sessionVars, hostVars
<1>6. CASE StoreConnection(s)
  <2>1. reader' \in [Session -> ReaderPlace]
    BY <1>6, ReaderMoves DEF StoreConnection
  <2>2. management' \in [Session -> BOOLEAN]
    BY <1>6 DEF StoreConnection, TypeOK
  <2> QED
    BY <1>6, <2>1, <2>2 DEF StoreConnection, TypeOK, hostVars
<1>2. CASE ReadLine(s) \/ AnswerCredentials(s) \/ ReaderEnds(s)
  <2>1. reader' \in [Session -> ReaderPlace]
    BY <1>2, ReaderMoves DEF ReadLine, AnswerCredentials, ReaderEnds
  <2> QED
    BY <1>2, <2>1 DEF ReadLine, AnswerCredentials, ReaderEnds, TypeOK, sessionVars, hostVars
<1>3. CASE AskUser(s)
  <2>1. reader' \in [Session -> ReaderPlace]
    BY <1>3, ReaderMoves DEF AskUser
  <2>2. challenge' \in [Session -> {"", "static", "dynamic"}]
    BY <1>3 DEF AskUser, TypeOK
  <2>3. state' \in [Session -> State]
    BY <1>3 DEF AskUser, TypeOK, State, Negotiating
  <2> QED
    BY <1>3, <2>1, <2>2, <2>3 DEF AskUser, TypeOK, hostVars
<1>4. CASE NoteRefusal(s)
  <2>1. reader' \in [Session -> ReaderPlace]
    BY <1>4, ReaderMoves DEF NoteRefusal
  <2>2. challenge' \in [Session -> {"", "static", "dynamic"}]
    BY <1>4 DEF NoteRefusal, TypeOK
  <2> QED
    BY <1>4, <2>1, <2>2 DEF NoteRefusal, TypeOK, hostVars
<1>5. CASE ReaderFails(s)
  <2>1. StopLocked({s}, "failed") /\ GoReader(s, "done") /\ UNCHANGED monitor
    BY <1>5 DEF ReaderFails, Fail
  <2>2. reader' \in [Session -> ReaderPlace] /\ monitor' \in [Session -> MonitorPlace]
    BY <2>1, ReaderMoves DEF TypeOK
  <2>3. {s} \in SUBSET Session /\ "failed" \in Ended
    BY DEF Ended
  <2> QED
    BY <2>1, <2>2, <2>3, TypeStopLocked
<1> QED
  BY <1>1, <1>2, <1>3, <1>4, <1>5, <1>6 DEF Reader

LEMMA TypeEngine ==
  ASSUME TypeOK, NEW s \in Session, EngineUp(s) \/ EngineExit(s)
  PROVE  TypeOK'
<1>1. CASE EngineUp(s)
  <2>1. log' \in [Profile -> Session0]
    <3>1. PICK first \in {s, Reports(s)} \ {0} : log' = [log EXCEPT ![profile[s]] = first]
      BY <1>1 DEF EngineUp
    <3>2. log \in [Profile -> Session0] /\ s \in Session0
      BY SessionNumbers DEF TypeOK
    <3>3. profile[s] \in Profile => first \in Session0
      BY <3>1, <3>2 DEF Reports
    <3> QED
      BY <3>1, <3>2, <3>3
  <2> QED
    BY <1>1, <2>1 DEF EngineUp, TypeOK, sessionVars, goroutineVars, hostVars
<1>2. CASE EngineExit(s)
  <2>1. engine' \in [Session -> EngineState]
    BY <1>2 DEF EngineExit, TypeOK, EngineState
  <2> QED
    BY <1>2, <2>1 DEF EngineExit, TypeOK, sessionVars, goroutineVars
<1> QED
  BY <1>1, <1>2

Blank == \A s \in Session : UnusedIsBlank(s)

LEMMA TypeStep ==
  ASSUME TypeOK, Blank, [Next]_vars
  PROVE  TypeOK'
<1>1. CASE UNCHANGED vars
  BY <1>1 DEF TypeOK, vars, sessionVars, goroutineVars, hostVars
<1> QED
  BY <1>1, TypeRequest, TypeReset, TypeMonitor, TypeReader, TypeEngine DEF Next, Blank

-----------------------------------------------------------------------------
(* Running engines are those of the listed sessions *)

Listed == ListedIsOwn /\ \A s \in Session : UnusedIsBlank(s) /\ RunningIsListed(s)

\* Steps that leave the table alone, start no engine, and end no session whose
\* engine they leave running.
LEMMA ListedFrame ==
  ASSUME TypeOK, Listed, UNCHANGED <<sessions, profile>>,
         \A s \in Session :
           engine'[s] = "running" =>
             engine[s] = "running" /\ (state'[s] \notin Ended \/ state'[s] = state[s]),
         \A s \in Session :
           profile[s] = NoProfile => monitor'[s] = monitor[s] /\ engine'[s] = engine[s]
  PROVE  Listed'
BY DEF Listed, ListedIsOwn, UnusedIsBlank, RunningIsListed

LEMMA ListedStop ==
  ASSUME TypeOK, Listed, NEW s \in Session, NEW outcome, StopLocked({s}, outcome),
         \/ UNCHANGED monitor
         \/ profile[s] # NoProfile /\ \E place : GoMonitor(s, place)
  PROVE  Listed'
<1>1. \A r \in Session :
        engine'[r] = "running" => engine[r] = "running" /\ state'[r] = state[r]
  BY DEF StopLocked, Terminate, TypeOK
<1>2. \A r \in Session :
        profile[r] = NoProfile => monitor'[r] = monitor[r] /\ engine'[r] = engine[r]
  BY DEF StopLocked, Terminate, TypeOK, GoMonitor, Listed, UnusedIsBlank
<1> QED
  BY <1>1, <1>2, ListedFrame DEF StopLocked

\* Start replaces a session that has ended, and so has told its engine to.
LEMMA ListedStart ==
  ASSUME TypeOK, Listed, NEW p \in Profile, Start(p)
  PROVE  Listed'
<1>1. CASE UNCHANGED <<profile, sessions, engine, state, monitor, reader>>
  BY <1>1, ListedFrame
<1>2. ASSUME NEW s \in Session, StartSession(p, s) PROVE Listed'
  <2>1. sessions[p] # 0 => state[sessions[p]] \in Ended
    BY DEF Start
  <2>2. profile[s] = NoProfile /\ p # NoProfile
    BY <1>2, ProfileAssumption DEF StartSession, NextSession, NoProfile
  <2>3. sessions' = [sessions EXCEPT ![p] = s] /\ profile' = [profile EXCEPT ![s] = p]
    BY <1>2 DEF StartSession
  <2>4. \A r \in Session \ {s} :
          engine'[r] = engine[r] /\ state'[r] = state[r] /\ monitor'[r] = monitor[r]
    BY <1>2 DEF StartSession, TypeOK
  <2>5. state'[s] \in Negotiating \/ engine'[s] # "running"
    BY <1>2 DEF StartSession, TypeOK
  <2>6. \A q \in Profile : sessions[q] # s
    BY <2>2, SessionNumbers, ProfileAssumption DEF Listed, ListedIsOwn, NoProfile
  <2>7. ListedIsOwn'
    <3>1. \A q \in Profile \ {p} : sessions'[q] = sessions[q]
      BY <2>3 DEF TypeOK
    <3>2. sessions'[p] = s /\ profile'[s] = p
      BY <2>3 DEF TypeOK
    <3>3. \A q \in Profile \ {p} : sessions[q] # 0 => profile'[sessions[q]] = profile[sessions[q]]
      BY <2>3, <2>6, SessionNumbers DEF TypeOK
    <3> QED
      BY <3>1, <3>2, <3>3 DEF Listed, ListedIsOwn
  <2>8. \A r \in Session : UnusedIsBlank(r)'
    BY <2>2, <2>3, <2>4 DEF Listed, UnusedIsBlank, TypeOK
  <2>9. ASSUME NEW r \in Session PROVE RunningIsListed(r)'
    <3>1. CASE r = s
      <4>1. profile'[s] = p /\ sessions'[p] = s
        BY <2>3 DEF TypeOK
      <4> QED
        BY <3>1, <4>1, <2>5 DEF RunningIsListed, Negotiating, Ended
    <3>2. CASE r # s
      <4>1. profile'[r] = profile[r]
        BY <2>3, <3>2 DEF TypeOK
      <4>2. engine[r] = "running" =>
              profile[r] \in Profile /\ sessions[profile[r]] = r /\ state[r] \notin Ended
        BY DEF Listed, RunningIsListed
      <4>3. engine[r] = "running" => profile[r] # p
        BY <4>2, <2>1, SessionNumbers
      <4>4. engine[r] = "running" => sessions'[profile[r]] = r
        BY <4>2, <4>3, <2>3 DEF TypeOK
      <4> QED
        BY <2>4, <3>2, <4>1, <4>2, <4>4 DEF RunningIsListed
    <3> QED
      BY <3>1, <3>2
  <2> QED
    BY <2>7, <2>8, <2>9 DEF Listed
<1> QED
  BY <1>1, <1>2, StartCases

\* A reset forgets every session and leaves no engine running.
LEMMA ListedReset ==
  ASSUME TypeOK, Listed, Reset
  PROVE  Listed'
<1>1. \A s \in Session : engine[s] = "running" => s \in Resets
  BY SessionNumbers DEF Listed, RunningIsListed, Resets, Ended
<1>2. \A s \in Session : engine'[s] # "running"
  BY <1>1, ResetStops DEF Terminate
<1>3. \A s \in Session : profile[s] = NoProfile => engine'[s] = engine[s]
  BY ResetStops DEF Terminate, Listed, UnusedIsBlank
<1>4. ListedIsOwn'
  BY ResetStops DEF ListedIsOwn
<1>5. \A s \in Session : UnusedIsBlank(s)'
  BY <1>3, ResetStops DEF Listed, UnusedIsBlank, goroutineVars
<1> QED
  BY <1>2, <1>4, <1>5 DEF Listed, RunningIsListed

LEMMA ListedStep ==
  ASSUME TypeOK, Listed, [Next]_vars
  PROVE  Listed'
<1>1. ASSUME UNCHANGED <<sessions, profile, engine, state, monitor>> PROVE Listed'
  BY <1>1, ListedFrame
<1>2. ASSUME NEW s \in Session, SeeInterface(s) \/ Monitor(s) PROVE Listed'
  <2>1. profile[s] # NoProfile
    <3>1. monitor[s] # "none"
      BY <1>2 DEF SeeInterface, Monitor, Activate, RecordTransaction, Connect, SetupFails,
         Timeout, Finish
    <3> QED
      BY <3>1 DEF Listed, UnusedIsBlank
  <2>2. CASE SetupFails(s) \/ Timeout(s)
    BY <2>1, <2>2, ListedStop DEF SetupFails, Timeout, Fail
  <2>3. CASE SeeInterface(s) \/ Activate(s) \/ RecordTransaction(s)
    <3>1. UNCHANGED <<sessions, profile, engine, state>>
          /\ \E place : GoMonitor(s, place)
      BY <2>3 DEF SeeInterface, Activate, RecordTransaction, sessionVars
    <3>2. \A r \in Session : profile[r] = NoProfile => monitor'[r] = monitor[r]
      BY <2>1, <3>1 DEF GoMonitor, TypeOK
    <3> QED
      BY <3>1, <3>2, ListedFrame
  <2>4. CASE Connect(s)
    <3>1. \A r \in Session : profile[r] = NoProfile => monitor'[r] = monitor[r]
      BY <2>1, <2>4 DEF Connect, GoMonitor, TypeOK
    <3>2. \A r \in Session : state'[r] \notin Ended \/ state'[r] = state[r]
      BY <2>4 DEF Connect, TypeOK, Ended
    <3> QED
      BY <2>4, <3>1, <3>2, ListedFrame DEF Connect
  <2>5. CASE Finish(s)
    <3>1. \A r \in Session : profile[r] = NoProfile => monitor'[r] = monitor[r]
      BY <2>1, <2>5 DEF Finish, GoMonitor, TypeOK
    <3>2. \A r \in Session : engine[r] = "running" => state'[r] = state[r]
      BY <2>5 DEF Finish, TypeOK
    <3> QED
      BY <2>5, <3>1, <3>2, ListedFrame DEF Finish
  <2> QED
    BY <1>2, <2>2, <2>3, <2>4, <2>5 DEF Monitor
<1>3. ASSUME NEW s \in Session, Reader(s) PROVE Listed'
  <2>1. CASE AskUser(s)
    <3>1. \A r \in Session : state'[r] \notin Ended \/ state'[r] = state[r]
      BY <2>1 DEF AskUser, TypeOK, Ended
    <3> QED
      BY <2>1, <3>1, ListedFrame DEF AskUser
  <2>2. CASE ReaderFails(s)
    BY <2>2, ListedStop DEF ReaderFails, Fail
  <2> QED
    BY <1>3, <2>1, <2>2, <1>1
    DEF Reader, Dial, StoreConnection, ReadLine, AnswerCredentials, NoteRefusal,
        ReaderEnds, sessionVars
<1>4. ASSUME NEW p \in Profile, Request(p) PROVE Listed'
  <2>1. CASE SendOTP(p)
    <3>1. \A r \in Session : state'[r] \notin Ended \/ state'[r] = state[r]
      BY <2>1 DEF SendOTP, TypeOK, Ended
    <3> QED
      BY <2>1, <3>1, ListedFrame DEF SendOTP, goroutineVars
  <2>2. CASE Stop(p)
    <3>1. sessions[p] \in Session
      BY <2>2, SessionNumbers DEF Stop, TypeOK
    <3> QED
      BY <2>2, <3>1, ListedStop DEF Stop
  <2> QED
    BY <1>4, <2>1, <2>2, ListedStart DEF Request
<1>5. ASSUME NEW s \in Session, EngineUp(s) \/ EngineExit(s) PROVE Listed'
  <2>1. CASE EngineUp(s)
    BY <2>1, <1>1 DEF EngineUp, sessionVars, goroutineVars
  <2>2. CASE EngineExit(s)
    <3>1. profile[s] # NoProfile
      BY <2>2 DEF EngineExit, Alive, Listed, UnusedIsBlank
    <3>2. \A r \in Session : engine'[r] = engine[r] \/ (r = s /\ engine'[r] = "exited")
      BY <2>2 DEF EngineExit, TypeOK
    <3> QED
      BY <2>2, <3>1, <3>2, ListedFrame DEF EngineExit, sessionVars, goroutineVars
  <2> QED
    BY <1>5, <2>1, <2>2
<1>6. CASE UNCHANGED vars
  BY <1>6, <1>1 DEF vars, sessionVars, goroutineVars
<1> QED
  BY <1>2, <1>3, <1>4, <1>5, <1>6, ListedReset DEF Next

-----------------------------------------------------------------------------
(* Records, their owners and the rows on the host *)

\* The part of the invariant about one session's transaction.
Owned(s) ==
  journal[s] # 0 =>
    \/ s \in abandoned
    \/ monitor[s] = "record"
    \/ monitor[s] \in {"connect", "reap"} /\ tx[s] = journal[s]
Kept(s) ==
  /\ BlankBeforeActivate(s)
  /\ UnrecordedBeforeEntry(s)
  /\ TransactionIsOnDisk(s)
  /\ Owned(s)
Records == (\A s \in Session : Kept(s)) /\ NetworkIsJournaled

\* Steps that take rows away at most, and leave records and transactions.
LEMMA RecordsFrame ==
  ASSUME TypeOK, Records, UNCHANGED <<profile, journal, tx, abandoned>>,
         network' \subseteq network,
         \A s \in Session :
           monitor'[s] = monitor[s] \/ (monitor[s] = "watch" /\ monitor'[s] = "activate")
             \/ (monitor[s] = "activate" /\ monitor'[s] = "fail")
             \/ (monitor[s] = "connect" /\ monitor'[s] = "reap")
  PROVE  Records'
<1>1. NetworkIsJournaled'
  BY DEF Records, NetworkIsJournaled
<1>2. ASSUME NEW s \in Session PROVE Kept(s)'
  <2>1. Kept(s)
    BY DEF Records
  <2> QED
    BY <2>1
    DEF Kept, BlankBeforeActivate, UnrecordedBeforeEntry, TransactionIsOnDisk, Owned
<1> QED
  BY <1>1, <1>2 DEF Records

\* A release: the record goes with the row, or is abandoned; and a monitor
\* that stops watching, setting up or reaping has nothing left to own.
LEMMA RecordsRelease ==
  ASSUME TypeOK, Records, NEW S \in SUBSET Session, Release(S), UNCHANGED profile,
         \A s \in Session :
           \/ monitor'[s] = monitor[s]
           \/ s \in S /\ monitor[s] \in {"watch", "fail"} /\ monitor'[s] = "reap"
           \/ s \in S /\ monitor[s] \in {"watch", "reap"} /\ monitor'[s] = "done"
  PROVE  Records'
<1>1. ASSUME NEW s \in Session PROVE Kept(s)'
  <2>1. Kept(s)
    BY DEF Records
  <2>2. abandoned \subseteq abandoned'
    BY ReleaseEffect
  <2>3. CASE s \notin S \/ tx[s] = 0
    <3>1. tx'[s] = tx[s] /\ journal'[s] = journal[s]
      BY <2>3, ReleaseEffect
    <3> QED
      BY <2>1, <2>2, <2>3, <3>1
      DEF Kept, BlankBeforeActivate, UnrecordedBeforeEntry, TransactionIsOnDisk, Owned
  <2>4. CASE s \in S /\ tx[s] # 0
    <3>1. tx'[s] = 0 /\ (journal'[s] = 0 \/ s \in abandoned')
      BY <2>4, ReleaseEffect
    <3>2. monitor'[s] \notin {"none", "watch", "activate", "fail"}
      BY <2>1, <2>4 DEF Kept, BlankBeforeActivate
    <3> QED
      BY <3>1, <3>2
      DEF Kept, BlankBeforeActivate, UnrecordedBeforeEntry, TransactionIsOnDisk, Owned
  <2> QED
    BY <2>3, <2>4
<1>2. NetworkIsJournaled'
  <2> SUFFICES ASSUME NEW row \in network'
               PROVE  \E s \in Session : profile[s] = row[1] /\ journal'[s] = row[2]
    BY DEF NetworkIsJournaled
  <2>1. row \in network /\ row \in Profile \X Session
    BY ReleaseEffect DEF TypeOK
  <2>2. PICK s \in Session : profile[s] = row[1] /\ journal[s] = row[2]
    BY <2>1 DEF Records, NetworkIsJournaled
  <2>3. CASE s \notin S \/ tx[s] = 0
    BY <2>2, <2>3, ReleaseEffect
  <2>4. CASE s \in S /\ tx[s] # 0
    <3>1. tx[s] = journal[s]
      BY <2>4 DEF Records, Kept, TransactionIsOnDisk
    <3>2. row = <<profile[s], tx[s]>>
      BY <2>1, <2>2, <3>1
    <3> QED
      BY <2>2, <2>4, <3>2, ReleaseEffect
  <2> QED
    BY <2>3, <2>4
<1> QED
  BY <1>1, <1>2 DEF Records

LEMMA RecordsStart ==
  ASSUME TypeOK, Blank, Records, NEW p \in Profile, Start(p)
  PROVE  Records'
<1>1. UNCHANGED <<tx, journal, abandoned, network>>
  BY DEF Start, hostVars
<1>2. CASE UNCHANGED <<profile, sessions, engine, state, monitor, reader>>
  BY <1>1, <1>2, RecordsFrame
<1>3. ASSUME NEW s \in Session, StartSession(p, s) PROVE Records'
  <2>1. monitor[s] = "none"
    BY <1>3 DEF StartSession, NextSession, Blank, UnusedIsBlank
  <2>2. journal[s] = 0 /\ tx[s] = 0
    BY <2>1 DEF Records, Kept, BlankBeforeActivate
  <2>3. \A r \in Session \ {s} : monitor'[r] = monitor[r] /\ profile'[r] = profile[r]
    BY <1>3 DEF StartSession, TypeOK
  <2>4. ASSUME NEW r \in Session PROVE Kept(r)'
    <3>1. CASE r = s
      BY <1>1, <2>2, <3>1
      DEF Kept, BlankBeforeActivate, UnrecordedBeforeEntry, TransactionIsOnDisk, Owned
    <3>2. CASE r # s
      BY <1>1, <2>3, <3>2
      DEF Records, Kept, BlankBeforeActivate, UnrecordedBeforeEntry, TransactionIsOnDisk,
          Owned
    <3> QED
      BY <3>1, <3>2
  <2>5. NetworkIsJournaled'
    <3> SUFFICES ASSUME NEW row \in network
                 PROVE  \E r \in Session : profile'[r] = row[1] /\ journal[r] = row[2]
      BY <1>1 DEF NetworkIsJournaled
    <3>1. PICK r \in Session : profile[r] = row[1] /\ journal[r] = row[2]
      BY DEF Records, NetworkIsJournaled
    <3>2. row[2] # 0
      BY SessionNumbers DEF TypeOK
    <3> QED
      BY <2>2, <2>3, <3>1, <3>2
  <2> QED
    BY <2>4, <2>5 DEF Records
<1> QED
  BY <1>2, <1>3, StartCases

\* Activate writes the only record its session will have, and either goes on
\* with it or leaves it behind.
LEMMA RecordsActivate ==
  ASSUME TypeOK, Blank, Records, NEW s \in Session, Activate(s)
  PROVE  Records'
<1>1. UNCHANGED <<profile, tx>> /\ monitor[s] = "activate"
  BY DEF Activate, sessionVars
<1>2. journal[s] = 0 /\ tx[s] = 0
  BY <1>1 DEF Records, Kept, BlankBeforeActivate
<1>3. CASE GoMonitor(s, "fail") /\ UNCHANGED <<journal, network, abandoned>>
  <2>1. \A r \in Session : monitor'[r] = monitor[r] \/ (r = s /\ monitor'[r] = "fail")
    BY <1>3 DEF GoMonitor, TypeOK
  <2> QED
    BY <1>1, <1>3, <2>1, RecordsFrame
<1>4. CASE /\ journal' = [journal EXCEPT ![s] = seen[s]]
           /\ network' \subseteq network \cup {<<profile[s], seen[s]>>}
           /\ \/ GoMonitor(s, "record") /\ UNCHANGED abandoned
              \/ GoMonitor(s, "fail") /\ abandoned' = abandoned \cup {s}
  <2>1. /\ monitor'[s] = "record" \/ (monitor'[s] = "fail" /\ s \in abandoned')
        /\ journal'[s] = seen[s]
        /\ abandoned \subseteq abandoned'
        /\ \A r \in Session \ {s} : monitor'[r] = monitor[r] /\ journal'[r] = journal[r]
    BY <1>4 DEF GoMonitor, TypeOK
  <2>2. ASSUME NEW r \in Session PROVE Kept(r)'
    <3>1. CASE r = s
      BY <1>1, <1>2, <2>1, <3>1
      DEF Kept, BlankBeforeActivate, UnrecordedBeforeEntry, TransactionIsOnDisk, Owned
    <3>2. CASE r # s
      BY <1>1, <2>1, <3>2
      DEF Records, Kept, BlankBeforeActivate, UnrecordedBeforeEntry, TransactionIsOnDisk,
          Owned
    <3> QED
      BY <3>1, <3>2
  <2>3. NetworkIsJournaled'
    <3> SUFFICES ASSUME NEW row \in network'
                 PROVE  \E r \in Session : profile[r] = row[1] /\ journal'[r] = row[2]
      BY <1>1 DEF NetworkIsJournaled
    <3>1. CASE row = <<profile[s], seen[s]>>
      BY <2>1, <3>1
    <3>2. CASE row \in network
      <4>1. PICK r \in Session : profile[r] = row[1] /\ journal[r] = row[2]
        BY <3>2 DEF Records, NetworkIsJournaled
      <4>2. row[2] # 0
        BY <3>2, SessionNumbers DEF TypeOK
      <4> QED
        BY <1>2, <2>1, <4>1, <4>2
    <3> QED
      BY <1>4, <3>1, <3>2
  <2> QED
    BY <2>2, <2>3 DEF Records
<1> QED
  BY <1>3, <1>4 DEF Activate

LEMMA RecordsEntry ==
  ASSUME TypeOK, Records, NEW s \in Session, RecordTransaction(s)
  PROVE  Records'
<1>1. UNCHANGED <<profile, journal, network, abandoned>>
  BY DEF RecordTransaction, hostVars
<1>2. /\ tx'[s] = journal[s] /\ monitor'[s] = "connect"
      /\ \A r \in Session \ {s} : tx'[r] = tx[r] /\ monitor'[r] = monitor[r]
  BY DEF RecordTransaction, GoMonitor, TypeOK
<1>3. ASSUME NEW r \in Session PROVE Kept(r)'
  <2>1. CASE r = s
    BY <1>1, <1>2, <2>1
    DEF Kept, BlankBeforeActivate, UnrecordedBeforeEntry, TransactionIsOnDisk, Owned
  <2>2. CASE r # s
    BY <1>1, <1>2, <2>2
    DEF Records, Kept, BlankBeforeActivate, UnrecordedBeforeEntry, TransactionIsOnDisk, Owned
  <2> QED
    BY <2>1, <2>2
<1> QED
  BY <1>1, <1>3 DEF Records, NetworkIsJournaled

LEMMA RecordsStep ==
  ASSUME TypeOK, Blank, Records, [Next]_vars
  PROVE  Records'
<1>1. ASSUME UNCHANGED <<profile, journal, tx, abandoned, monitor>>, network' \subseteq network
      PROVE Records'
  BY <1>1, RecordsFrame
<1>2. ASSUME NEW s \in Session, NEW outcome, StopLocked({s}, outcome), UNCHANGED monitor
      PROVE Records'
  BY <1>2, RecordsRelease DEF StopLocked
<1>3. ASSUME NEW s \in Session, SeeInterface(s) \/ Monitor(s) PROVE Records'
  <2>1. CASE SeeInterface(s)
    <3>1. \A r \in Session :
            monitor'[r] = monitor[r] \/ (monitor[r] = "watch" /\ monitor'[r] = "activate")
      BY <2>1 DEF SeeInterface, GoMonitor, TypeOK
    <3> QED
      BY <2>1, <3>1, RecordsFrame DEF SeeInterface, sessionVars, hostVars
  <2>2. CASE Connect(s)
    <3>1. \A r \in Session :
            monitor'[r] = monitor[r] \/ (monitor[r] = "connect" /\ monitor'[r] = "reap")
      BY <2>2 DEF Connect, GoMonitor, TypeOK
    <3> QED
      BY <2>2, <3>1, RecordsFrame DEF Connect, hostVars
  <2>3. CASE SetupFails(s) \/ Timeout(s)
    <3>1. Release({s}) /\ UNCHANGED profile
      BY <2>3 DEF SetupFails, Timeout, Fail, StopLocked
    <3>2. \A r \in Session :
            \/ monitor'[r] = monitor[r]
            \/ r = s /\ monitor[r] \in {"watch", "fail"} /\ monitor'[r] = "reap"
      BY <2>3 DEF SetupFails, Timeout, GoMonitor, TypeOK
    <3> QED
      BY <3>1, <3>2, RecordsRelease
  <2>4. CASE Finish(s)
    <3>1. Release({s}) /\ UNCHANGED profile
      BY <2>4 DEF Finish
    <3>2. \A r \in Session :
            \/ monitor'[r] = monitor[r]
            \/ r = s /\ monitor[r] \in {"watch", "reap"} /\ monitor'[r] = "done"
      BY <2>4 DEF Finish, GoMonitor, TypeOK
    <3> QED
      BY <3>1, <3>2, RecordsRelease
  <2> QED
    BY <1>3, <2>1, <2>2, <2>3, <2>4, RecordsActivate, RecordsEntry DEF Monitor
<1>4. ASSUME NEW s \in Session, Reader(s) PROVE Records'
  <2>1. CASE ReaderFails(s)
    BY <2>1, <1>2 DEF ReaderFails, Fail
  <2> QED
    BY <1>4, <2>1, <1>1
    DEF Reader, Dial, StoreConnection, ReadLine, AskUser, AnswerCredentials,
        NoteRefusal, ReaderEnds, sessionVars, hostVars
<1>5. ASSUME NEW p \in Profile, Request(p) PROVE Records'
  <2>1. CASE Stop(p)
    <3>1. sessions[p] \in Session
      BY <2>1, SessionNumbers DEF Stop, TypeOK
    <3> QED
      BY <2>1, <3>1, <1>2 DEF Stop
  <2>2. CASE SendOTP(p)
    BY <2>2, <1>1 DEF SendOTP, goroutineVars, hostVars
  <2> QED
    BY <1>5, <2>1, <2>2, RecordsStart DEF Request
<1>6. CASE Reset
  BY <1>6, ResetStops, RecordsRelease DEF goroutineVars
<1>7. ASSUME NEW s \in Session, EngineUp(s) \/ EngineExit(s) PROVE Records'
  BY <1>7, <1>1 DEF EngineUp, EngineExit, sessionVars, goroutineVars, hostVars
<1>8. CASE UNCHANGED vars
  BY <1>8, <1>1 DEF vars, sessionVars, goroutineVars, hostVars
<1> QED
  BY <1>3, <1>4, <1>5, <1>6, <1>7, <1>8 DEF Next

-----------------------------------------------------------------------------
(* The interface of a session and its routes *)

Stands == \A s \in Session : HasItsInterface(s) /\ RoutesStand(s)

LEMMA StandsInit == Init => Stands
BY DEF Init, Stands, HasItsInterface, RoutesStand, HasSetUp

\* Steps that neither enter a record nor a session's interface.
LEMMA StandsFrame ==
  ASSUME Stands, UNCHANGED <<seen, tx, interface, journal, up>>,
         \A s \in Session :
           /\ engine'[s] = engine[s]
           /\ monitor'[s] = monitor[s],
         \A s \in Session :
           HasSetUp(s) => profile'[s] = profile[s] /\ network \subseteq network'
  PROVE  Stands'
BY DEF Stands, HasItsInterface, RoutesStand, HasSetUp

\* The rows that go with a release are on the interfaces of the sessions
\* released.
LEMMA ReleaseSpares ==
  ASSUME TypeOK, Stands, NEW S \in SUBSET Session, Release(S),
         NEW s \in Session, \A r \in S : seen[r] # s, <<profile[s], s>> \in network
  PROVE  <<profile[s], s>> \in network'
<1> DEFINE using == {r \in S : tx[r] # 0}
           bare == {r \in S : tx[r] = 0 /\ interface[r] # 0}
           rows(R) == {<<profile[r], tx[r]>> : r \in R}
                        \cup {<<profile[r], interface[r]>> : r \in bare}
<1>1. PICK released \in SUBSET using : network' = network \ rows(released)
  <2>1. PICK failed \in SUBSET using : \E gone \in SUBSET failed :
          network' = network \ rows((using \ failed) \cup gone)
    <3> HIDE DEF rows, bare
    <3> QED
      BY DEF Release, rows, bare
  <2>2. PICK gone \in SUBSET failed : network' = network \ rows((using \ failed) \cup gone)
    BY <2>1
  <2> QED
    BY <2>2
<1>2. \A r \in S : tx[r] \in {0, seen[r]} /\ interface[r] \in {0, seen[r]}
  BY DEF Stands, HasItsInterface
<1>3. \A r \in using : tx[r] # s
  BY <1>2
<1>4. \A r \in bare : interface[r] # s
  BY <1>2
<1>5. <<profile[s], s>> \notin rows(released)
  BY <1>3, <1>4
<1> QED
  BY <1>1, <1>5

\* A release comes with the end of the engines of the sessions released.
LEMMA StandsRelease ==
  ASSUME TypeOK, Stands, NEW S \in SUBSET Session, Release(S),
         UNCHANGED <<profile, seen, up>>,
         \A s \in Session :
           \/ engine'[s] = engine[s]
           \/ engine[s] = "running" /\ engine'[s] = "terminating",
         \A s \in S : engine'[s] # "running",
         \A s \in Session :
           \/ monitor'[s] = monitor[s]
           \/ s \in S /\ monitor'[s] = "reap"
           \/ s \in S /\ monitor'[s] = "done" /\ engine[s] = "exited"
  PROVE  Stands'
<1>1. ASSUME NEW s \in Session PROVE HasItsInterface(s)'
  <2>1. HasItsInterface(s)
    BY DEF Stands
  <2>2. tx'[s] \in {0, tx[s]} /\ interface'[s] \in {0, interface[s]}
        /\ (s \in S => interface'[s] = 0)
    BY ReleaseEffect
  <2>3. journal'[s] \in {0, journal[s]}
    BY ReleaseEffect
  <2> QED
    BY <2>1, <2>2, <2>3 DEF HasItsInterface
<1>2. ASSUME NEW s \in Session PROVE RoutesStand(s)'
  <2> SUFFICES ASSUME HasSetUp(s)' PROVE <<profile[s], s>> \in network'
    BY DEF RoutesStand
  <2>1. s \notin S /\ HasSetUp(s)
    BY DEF HasSetUp
  <2>2. <<profile[s], s>> \in network
    BY <2>1 DEF Stands, RoutesStand
  <2>3. \A r \in S : seen[r] # s
    BY <2>1 DEF HasSetUp
  <2> QED
    BY <2>2, <2>3, ReleaseSpares
<1> QED
  BY <1>1, <1>2 DEF Stands

LEMMA StandsStop ==
  ASSUME TypeOK, Stands, NEW s \in Session, NEW outcome, StopLocked({s}, outcome),
         UNCHANGED monitor \/ GoMonitor(s, "reap")
  PROVE  Stands'
<1>1. \A r \in Session :
        IF r \in {s} /\ engine[r] = "running"
        THEN engine'[r] = "terminating" ELSE engine'[r] = engine[r]
  BY DEF StopLocked, Terminate
<1>2. \A r \in Session : monitor'[r] = monitor[r] \/ (r \in {s} /\ monitor'[r] = "reap")
  BY DEF GoMonitor, TypeOK
<1>3. Release({s}) /\ UNCHANGED <<profile, seen, up>> /\ {s} \in SUBSET Session
  BY DEF StopLocked
<1> QED
  BY <1>1, <1>2, <1>3, StandsRelease

\* The steps of a monitor that reads an interface and sets its network up.
LEMMA StandsSetUp ==
  ASSUME TypeOK, Records, Stands, NEW s \in Session,
         SeeInterface(s) \/ Activate(s) \/ RecordTransaction(s) \/ Connect(s)
  PROVE  Stands'
<1>1. UNCHANGED <<profile, engine, up>> /\ network \subseteq network'
  BY DEF SeeInterface, Activate, RecordTransaction, Connect, hostVars
<1>2. /\ monitor[s] \in {"watch", "activate", "record", "connect"}
      /\ monitor'[s] \notin {"none", "watch", "done"}
      /\ \A r \in Session \ {s} : monitor'[r] = monitor[r]
  BY DEF SeeInterface, Activate, RecordTransaction, Connect, GoMonitor, TypeOK
<1>3. \A r \in Session \ {s} :
        /\ seen'[r] = seen[r] /\ tx'[r] = tx[r]
        /\ interface'[r] = interface[r] /\ journal'[r] = journal[r]
  BY DEF SeeInterface, Activate, RecordTransaction, Connect, TypeOK, sessionVars, hostVars
<1>4. seen'[s] = seen[s] \/ (seen[s] = 0 /\ seen'[s] \in up)
  BY DEF SeeInterface, Activate, RecordTransaction, Connect, TypeOK, Stands, HasItsInterface
<1>5. HasItsInterface(s)'
  <2>1. HasItsInterface(s) /\ interface[s] = 0
    BY <1>2 DEF Stands, HasItsInterface
  <2>2. CASE SeeInterface(s)
    <3>1. tx[s] = 0 /\ journal[s] = 0 /\ UNCHANGED <<tx, journal, interface>>
      BY <2>1, <2>2 DEF SeeInterface, HasItsInterface, sessionVars, hostVars
    <3> QED
      BY <1>1, <1>2, <1>4, <2>1, <3>1 DEF HasItsInterface
  <2>3. CASE Activate(s)
    <3>1. UNCHANGED <<seen, tx, interface>> /\ journal'[s] \in {journal[s], seen[s]}
      BY <2>3 DEF Activate, sessionVars, TypeOK
    <3> QED
      BY <1>1, <1>2, <2>1, <3>1 DEF HasItsInterface
  <2>4. CASE RecordTransaction(s)
    <3>1. UNCHANGED <<seen, interface, journal>> /\ tx'[s] = journal[s]
      BY <2>4 DEF RecordTransaction, hostVars, TypeOK
    <3> QED
      BY <1>1, <1>2, <2>1, <3>1 DEF HasItsInterface
  <2>5. CASE Connect(s)
    <3>1. UNCHANGED <<seen, tx, journal>> /\ interface'[s] = seen[s] /\ monitor'[s] = "reap"
      BY <2>5 DEF Connect, GoMonitor, hostVars, TypeOK
    <3> QED
      BY <1>1, <1>2, <2>1, <3>1 DEF HasItsInterface
  <2> QED
    BY <2>2, <2>3, <2>4, <2>5
<1>6. \A r \in Session \ {s} : HasItsInterface(r)'
  BY <1>1, <1>2, <1>3 DEF Stands, HasItsInterface
<1>7. ASSUME NEW r \in Session, HasSetUp(r)' PROVE <<profile[r], r>> \in network'
  <2>1. CASE HasSetUp(r)
    BY <1>1, <2>1, <1>7 DEF Stands, RoutesStand
  <2>2. CASE ~HasSetUp(r)
    <3>1. r # 0 /\ \A q \in Session \ {r} : seen[q] # r
      BY <1>3, <1>4, <1>7, SessionNumbers DEF HasSetUp
    <3>2. r = s /\ monitor'[s] \in {"record", "connect", "reap"} /\ seen'[s] = s
      BY <1>1, <1>2, <1>3, <1>7, <2>2, <3>1 DEF HasSetUp
    <3>3. monitor[s] \notin {"record", "connect"}
      <4>1. seen'[s] = seen[s] \/ monitor[s] = "watch"
        BY DEF SeeInterface, Activate, RecordTransaction, Connect
      <4> QED
        BY <1>1, <1>7, <2>2, <3>1, <3>2, <4>1 DEF HasSetUp
    <3>4. Activate(s) /\ monitor'[s] = "record"
      BY <1>2, <3>2, <3>3
      DEF SeeInterface, Activate, RecordTransaction, Connect, GoMonitor, TypeOK
    <3>5. <<profile[s], seen[s]>> \in network' /\ UNCHANGED seen
      BY <3>4 DEF Activate, GoMonitor, TypeOK
    <3> QED
      BY <3>2, <3>5
  <2> QED
    BY <2>1, <2>2
<1> QED
  BY <1>1, <1>5, <1>6, <1>7 DEF Stands, RoutesStand

LEMMA StandsStart ==
  ASSUME TypeOK, Blank, Stands, NEW p \in Profile, Start(p)
  PROVE  Stands'
<1>1. UNCHANGED <<seen, tx, interface, journal, up, network>>
  BY DEF Start, hostVars
<1>2. CASE UNCHANGED <<profile, sessions, engine, state, monitor, reader>>
  BY <1>1, <1>2, StandsFrame
<1>3. ASSUME NEW s \in Session, StartSession(p, s) PROVE Stands'
  <2>1. monitor[s] = "none" /\ monitor'[s] \in {"none", "watch"}
    BY <1>3 DEF StartSession, NextSession, Blank, UnusedIsBlank, TypeOK
  <2>2. \A r \in Session \ {s} :
          /\ monitor'[r] = monitor[r] /\ engine'[r] = engine[r]
          /\ profile'[r] = profile[r]
    BY <1>3 DEF StartSession, TypeOK
  <2>3. HasItsInterface(s)' /\ ~HasSetUp(s)'
    BY <1>1, <2>1, SessionNumbers DEF Stands, HasItsInterface, HasSetUp
  <2> QED
    BY <1>1, <2>2, <2>3 DEF Stands, HasItsInterface, RoutesStand, HasSetUp
<1> QED
  BY <1>2, <1>3, StartCases

LEMMA StandsEngine ==
  ASSUME TypeOK, Stands, NEW s \in Session, EngineUp(s) \/ EngineExit(s)
  PROVE  Stands'
<1>1. UNCHANGED <<seen, tx, interface, journal, monitor, profile>>
  BY DEF EngineUp, EngineExit, sessionVars, goroutineVars, hostVars
<1>2. CASE EngineUp(s)
  BY <1>1, <1>2 DEF EngineUp, hostVars, Stands, HasItsInterface, RoutesStand, HasSetUp
<1>3. CASE EngineExit(s)
  <2>1. /\ engine'[s] = "exited" /\ up' = up \ {s}
        /\ \A r \in Session \ {s} : engine'[r] = engine[r]
    BY <1>3 DEF EngineExit, TypeOK
  <2>2. \A r \in Session \ {s} :
          <<profile[r], r>> \in network => <<profile[r], r>> \in network'
    BY <1>3 DEF EngineExit
  <2> QED
    BY <1>1, <2>1, <2>2 DEF Stands, HasItsInterface, RoutesStand, HasSetUp
<1> QED
  BY <1>2, <1>3

LEMMA StandsStep ==
  ASSUME TypeOK, Blank, Records, Stands, [Next]_vars
  PROVE  Stands'
<1>1. ASSUME UNCHANGED <<profile, seen, tx, interface, journal, up, network, engine, monitor>>
      PROVE Stands'
  BY <1>1, StandsFrame
<1>2. ASSUME NEW s \in Session, SeeInterface(s) \/ Monitor(s) PROVE Stands'
  <2>1. CASE SetupFails(s) \/ Timeout(s)
    BY <2>1, StandsStop DEF SetupFails, Timeout, Fail
  <2>2. CASE Finish(s)
    <3>1. Release({s}) /\ UNCHANGED <<profile, seen, up, engine>> /\ engine[s] = "exited"
      BY <2>2 DEF Finish
    <3>2. \A r \in Session : monitor'[r] = monitor[r] \/ (r \in {s} /\ monitor'[r] = "done")
      BY <2>2 DEF Finish, GoMonitor, TypeOK
    <3> QED
      BY <3>1, <3>2, StandsRelease
  <2> QED
    BY <1>2, <2>1, <2>2, StandsSetUp DEF Monitor
<1>3. ASSUME NEW s \in Session, Reader(s) PROVE Stands'
  <2>1. CASE ReaderFails(s)
    BY <2>1, StandsStop DEF ReaderFails, Fail
  <2> QED
    BY <1>3, <2>1, <1>1
    DEF Reader, Dial, StoreConnection, ReadLine, AskUser, AnswerCredentials,
        NoteRefusal, ReaderEnds, sessionVars, hostVars
<1>4. ASSUME NEW p \in Profile, Request(p) PROVE Stands'
  <2>1. CASE SendOTP(p)
    BY <2>1, <1>1 DEF SendOTP, goroutineVars, hostVars
  <2>2. CASE Stop(p)
    <3>1. sessions[p] \in Session
      BY <2>2, SessionNumbers DEF Stop, TypeOK
    <3> QED
      BY <2>2, <3>1, StandsStop DEF Stop
  <2> QED
    BY <1>4, <2>1, <2>2, StandsStart DEF Request
<1>5. CASE Reset
  <2>1. \A s \in Session :
          IF s \in Resets /\ engine[s] = "running"
          THEN engine'[s] = "terminating" ELSE engine'[s] = engine[s]
    BY <1>5, ResetStops DEF Terminate
  <2>2. \A s \in Resets : engine'[s] # "running"
    BY <1>5, <2>1, ResetStops
  <2> QED
    BY <1>5, <2>1, <2>2, ResetStops, StandsRelease DEF goroutineVars
<1>6. ASSUME NEW s \in Session, EngineUp(s) \/ EngineExit(s) PROVE Stands'
  BY <1>6, StandsEngine
<1>7. CASE UNCHANGED vars
  BY <1>7, <1>1 DEF vars, sessionVars, goroutineVars, hostVars
<1> QED
  BY <1>2, <1>3, <1>4, <1>5, <1>6, <1>7 DEF Next

-----------------------------------------------------------------------------
(* Live sessions and their monitors *)

Live(s) == state[s] \in Negotiating \cup {"connected"}
Watched(s) ==
  /\ ReaderHasMonitor(s)
  /\ Live(s) => monitor[s] \notin {"none", "done"} \/ s \in late
AllWatched == \A s \in Session : Watched(s)

LEMMA WatchedInit == Init => AllWatched
BY DEF Init, AllWatched, Watched, ReaderHasMonitor, Live, Negotiating

\* A session becomes live only with its monitor, and its monitor is done only
\* once it has ended.
LEMMA WatchedFrame ==
  ASSUME AllWatched, late \subseteq late',
         \A s \in Session :
           \/ Live(s)' => Live(s) /\ monitor'[s] = monitor[s]
           \/ monitor'[s] \notin {"none", "done"},
         \A s \in Session :
           /\ monitor'[s] = "none" => monitor[s] = "none"
           /\ reader'[s] = reader[s] \/ monitor'[s] # "none"
  PROVE  AllWatched'
BY DEF AllWatched, Watched, ReaderHasMonitor

LEMMA WatchedStop ==
  ASSUME TypeOK, AllWatched, NEW S \in SUBSET Session,
         state' = [s \in Session |-> IF s \in S THEN "stopped" ELSE state[s]]
           \/ state' = [s \in Session |-> IF s \in S THEN "failed" ELSE state[s]],
         UNCHANGED <<monitor, late>>,
         \A s \in Session : reader'[s] = reader[s] \/ reader[s] # "none"
  PROVE  AllWatched'
<1>1. \A s \in Session : Live(s)' => Live(s)
  BY DEF Live, Negotiating
<1>2. \A s \in Session : reader[s] # "none" => monitor[s] # "none"
  BY DEF AllWatched, Watched, ReaderHasMonitor
<1> QED
  BY <1>1, <1>2, WatchedFrame

LEMMA WatchedReader ==
  ASSUME TypeOK, AllWatched, NEW s \in Session, Reader(s)
  PROVE  AllWatched'
<1>1. reader[s] # "none" /\ \A r \in Session \ {s} : reader'[r] = reader[r]
  BY DEF Reader, Dial, StoreConnection, ReadLine, AskUser, AnswerCredentials, NoteRefusal,
     ReaderFails, ReaderEnds, GoReader, TypeOK
<1>2. monitor[s] # "none"
  BY <1>1 DEF AllWatched, Watched, ReaderHasMonitor
<1>3. UNCHANGED monitor
  BY DEF Reader, Dial, StoreConnection, ReadLine, AskUser, AnswerCredentials, NoteRefusal,
     ReaderFails, ReaderEnds
<1>4. CASE AskUser(s)
  <2>1. late \subseteq late' /\ (monitor[s] = "done" => s \in late')
    BY <1>4 DEF AskUser
  <2>2. \A r \in Session \ {s} : state'[r] = state[r]
    BY <1>4 DEF AskUser, TypeOK
  <2>3. \A r \in Session : ReaderHasMonitor(r)'
    BY <1>1, <1>2, <1>3 DEF AllWatched, Watched, ReaderHasMonitor
  <2> QED
    BY <1>2, <1>3, <2>1, <2>2, <2>3 DEF AllWatched, Watched, Live
<1>5. CASE ReaderFails(s)
  <2>1. state' = [r \in Session |-> IF r \in {s} THEN "failed" ELSE state[r]]
        /\ UNCHANGED late
    BY <1>5 DEF ReaderFails, Fail, StopLocked
  <2>2. \A r \in Session : reader'[r] = reader[r] \/ reader[r] # "none"
    BY <1>1
  <2>3. {s} \in SUBSET Session
    OBVIOUS
  <2> QED
    BY <1>3, <2>1, <2>2, <2>3, WatchedStop
<1>6. CASE ~AskUser(s) /\ ~ReaderFails(s)
  <2>1. UNCHANGED <<state, late>>
    BY <1>6 DEF Reader, Dial, StoreConnection, ReadLine, AnswerCredentials, NoteRefusal,
       ReaderEnds, sessionVars
  <2> QED
    BY <1>1, <1>2, <1>3, <2>1, WatchedFrame DEF Live
<1> QED
  BY <1>4, <1>5, <1>6

LEMMA WatchedStep ==
  ASSUME TypeOK, Blank, AllWatched, [Next]_vars
  PROVE  AllWatched'
<1>1. ASSUME UNCHANGED <<state, monitor, reader, late>> PROVE AllWatched'
  BY <1>1, WatchedFrame DEF Live
<1>2. ASSUME NEW s \in Session, SeeInterface(s) \/ Monitor(s) PROVE AllWatched'
  <2>1. CASE Finish(s)
    <3>1. UNCHANGED <<reader, late>> /\ ~Live(s)'
      BY <2>1 DEF Finish, TypeOK, Live, Negotiating
    <3>2. \A r \in Session \ {s} : monitor'[r] = monitor[r] /\ state'[r] = state[r]
      BY <2>1 DEF Finish, GoMonitor, TypeOK
    <3>3. monitor'[s] = "done"
      BY <2>1 DEF Finish, GoMonitor, TypeOK
    <3> QED
      BY <3>1, <3>2, <3>3, WatchedFrame DEF Live
  <2>2. CASE ~Finish(s)
    <3>1. PICK place \in {"activate", "record", "connect", "fail", "reap"} :
            GoMonitor(s, place)
      BY <1>2, <2>2 DEF SeeInterface, Monitor, Activate, RecordTransaction, Connect,
         SetupFails, Timeout
    <3>2. UNCHANGED <<reader, late>>
      BY <1>2, <2>2 DEF SeeInterface, Monitor, Activate, RecordTransaction, Connect,
         SetupFails, Timeout, Fail, StopLocked
    <3>3. \A r \in Session \ {s} : state'[r] = state[r]
      BY <1>2, <2>2 DEF SeeInterface, Monitor, Activate, RecordTransaction, Connect,
         SetupFails, Timeout, Fail, StopLocked, sessionVars, TypeOK
    <3>4. monitor'[s] = place /\ \A r \in Session \ {s} : monitor'[r] = monitor[r]
      BY <3>1 DEF GoMonitor, TypeOK
    <3> QED
      BY <3>2, <3>3, <3>4, WatchedFrame DEF Live
  <2> QED
    BY <2>1, <2>2
<1>3. ASSUME NEW s \in Session, Reader(s) PROVE AllWatched'
  BY <1>3, WatchedReader
<1>4. ASSUME NEW p \in Profile, Request(p) PROVE AllWatched'
  <2>1. CASE Start(p)
    <3>1. ASSUME NEW s \in Session, StartSession(p, s) PROVE AllWatched'
      <4>1. monitor[s] = "none" /\ reader[s] = "none"
        BY <3>1 DEF StartSession, NextSession, Blank, UnusedIsBlank, AllWatched, Watched,
           ReaderHasMonitor
      <4>2. \A r \in Session \ {s} :
              /\ monitor'[r] = monitor[r] /\ state'[r] = state[r]
              /\ reader'[r] = reader[r]
        <5>1. UNCHANGED reader \/ reader' = [reader EXCEPT ![s] = "dial"]
          BY <3>1 DEF StartSession
        <5> QED
          BY <3>1, <5>1 DEF StartSession, TypeOK
      <4>3. \/ monitor'[s] = "watch"
            \/ ~Live(s)' /\ UNCHANGED <<monitor, reader>>
        BY <3>1 DEF StartSession, TypeOK, Live, Negotiating
      <4>4. UNCHANGED late
        BY <2>1 DEF Start
      <4> QED
        BY <4>1, <4>2, <4>3, <4>4, WatchedFrame DEF Live
    <3> QED
      BY <2>1, <3>1, <1>1, StartCases DEF Start
  <2>2. CASE SendOTP(p)
    <3>1. PICK s : s = sessions[p] /\ state[s] \in Negotiating
                   /\ state' = [state EXCEPT ![s] = "connecting"]
      BY <2>2 DEF SendOTP
    <3>2. \A r \in Session : Live(r)' => Live(r)
      BY <3>1 DEF Live, TypeOK
    <3> QED
      BY <2>2, <3>2, WatchedFrame DEF SendOTP, goroutineVars
  <2>3. CASE Stop(p)
    <3>1. sessions[p] \in Session
      BY <2>3, SessionNumbers DEF Stop, TypeOK
    <3> QED
      BY <2>3, <3>1, WatchedStop DEF Stop, StopLocked
  <2> QED
    BY <1>4, <2>1, <2>2, <2>3 DEF Request
<1>5. CASE Reset
  BY <1>5, ResetStops, WatchedStop DEF goroutineVars
<1>6. ASSUME NEW s \in Session, EngineUp(s) \/ EngineExit(s) PROVE AllWatched'
  BY <1>6, <1>1 DEF EngineUp, EngineExit, sessionVars, goroutineVars
<1>7. CASE UNCHANGED vars
  BY <1>7, <1>1 DEF vars, sessionVars, goroutineVars
<1> QED
  BY <1>2, <1>3, <1>4, <1>5, <1>6, <1>7 DEF Next

-----------------------------------------------------------------------------
(* The invariant *)

LEMMA InvParts == ServiceInv <=> TypeOK /\ Listed /\ Records /\ Stands /\ AllWatched
BY DEF ServiceInv, SessionInv, Listed, Records, Stands, Kept, Owned, RecordIsOwned, AllWatched,
   Watched, Live, LiveIsWatched

LEMMA InvInit == Init => ServiceInv
<1> SUFFICES ASSUME Init PROVE ServiceInv
  OBVIOUS
<1>1. Listed
  BY DEF Init, Listed, ListedIsOwn, UnusedIsBlank, RunningIsListed
<1>2. Records
  BY DEF Init, Records, Kept, BlankBeforeActivate, UnrecordedBeforeEntry,
     TransactionIsOnDisk, Owned, NetworkIsJournaled
<1> QED
  BY <1>1, <1>2, TypeInit, StandsInit, WatchedInit, InvParts

LEMMA InvStep == ServiceInv /\ [Next]_vars => ServiceInv'
<1> SUFFICES ASSUME ServiceInv, [Next]_vars PROVE ServiceInv'
  OBVIOUS
<1>1. TypeOK /\ Listed /\ Records /\ Stands /\ AllWatched /\ Blank
  BY InvParts DEF Listed, Blank
<1>2. TypeOK' /\ Listed' /\ Records' /\ Stands' /\ AllWatched'
  BY <1>1, TypeStep, ListedStep, RecordsStep, StandsStep, WatchedStep
<1>3. TypeOK' /\ Listed' /\ Records' /\ Stands' /\ AllWatched' => ServiceInv'
  BY InvParts, PTL
<1> QED
  BY <1>2, <1>3

\* Table, engines, monitors, transactions, journal and host agree at every
\* step of the requests, the goroutines and the engines.
THEOREM ServiceInvariant == Spec => []ServiceInv
<1> QED
  BY InvInit, InvStep, PTL DEF Spec

\* Every variable of the helper keeps its type.
THEOREM TypeCorrect == Spec => []TypeOK
<1>1. ServiceInv => TypeOK
  BY DEF ServiceInv
<1> QED
  BY <1>1, ServiceInvariant, PTL

\* At most one engine of a profile has not been told to end.
THEOREM OneEngine == Spec => []SingleEngine
<1>1. ServiceInv => SingleEngine
  BY DEF ServiceInv, SessionInv, RunningIsListed, SingleEngine
<1> QED
  BY <1>1, ServiceInvariant, PTL

\* Every transaction on disk is in the hands of a goroutine that will release
\* it, or releasing it has failed.
THEOREM NoLostTransaction == Spec => []RecordIsOwned
<1>1. ServiceInv => RecordIsOwned
  BY DEF ServiceInv
<1> QED
  BY <1>1, ServiceInvariant, PTL

\* Every row on the host belongs to a transaction on disk.
THEOREM NoLostRow == Spec => []NetworkIsJournaled
<1>1. ServiceInv => NetworkIsJournaled
  BY DEF ServiceInv
<1> QED
  BY <1>1, ServiceInvariant, PTL

\* A connected session has its routes on the host, whatever older sessions of
\* its profile release, until its engine ends or is told to; unless one of them
\* has taken the interface for its own.
THEOREM RoutesAreThere == Spec => []ConnectedHasRoutes
<1>1. ServiceInv => ConnectedHasRoutes
  <2> SUFFICES ASSUME ServiceInv, NEW s \in Session,
                      interface[s] = s, engine[s] = "running",
                      \A r \in Session \ {s} : seen[r] # s
               PROVE  <<profile[s], s>> \in network
    BY DEF ConnectedHasRoutes
  <2>1. HasItsInterface(s) /\ RoutesStand(s)
    BY DEF ServiceInv, SessionInv
  <2>2. HasSetUp(s)
    BY <2>1, SessionNumbers DEF HasItsInterface, HasSetUp
  <2> QED
    BY <2>1, <2>2 DEF RoutesStand
<1> QED
  BY <1>1, ServiceInvariant, PTL

\* A session that looks alive has a monitor that will notice the end of its
\* engine, or was put to wait after that end had been noticed.
THEOREM LiveHasMonitor == Spec => []LiveIsWatched
<1>1. ServiceInv => LiveIsWatched
  BY DEF ServiceInv
<1> QED
  BY <1>1, ServiceInvariant, PTL
=============================================================================
