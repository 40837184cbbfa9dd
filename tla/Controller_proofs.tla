-------------------------- MODULE Controller_proofs --------------------------
(***************************************************************************)
(* Proofs about the controller, for any profiles, any number of connect       *)
(* requests and any number of reconnect goroutines: type correctness, and     *)
(* the three invariants about marks, attempts and dismissed profiles, from    *)
(* one inductive invariant.                                                 *)
(***************************************************************************)
EXTENDS Controller, TLAPS

-----------------------------------------------------------------------------
(* Calls *)

\* An open call is a record with a profile.
LEMMA OpenCall ==
  ASSUME TypeOK, NEW c \in Call, call[c].pc # "idle"
  PROVE  call[c] \in RunningCall
BY DEF TypeOK, NoCall, RunningCall

\* Moving a call leaves it a call of the same profile.
LEMMA MovedCall ==
  ASSUME TypeOK, NEW c \in Call, call[c].pc # "idle",
         NEW place \in {"request", "poll", "intend", "release"}, Goto(c, place)
  PROVE  /\ call' \in [Call -> {NoCall} \cup RunningCall]
         /\ call'[c].pc = place
         /\ call'[c].profile = call[c].profile
         /\ \A d \in Call \ {c} : call'[d] = call[d]
<1>1. call[c] \in RunningCall
  BY OpenCall
<1>2. [call[c] EXCEPT !.pc = place] \in RunningCall
  BY <1>1 DEF RunningCall
<1>3. call' = [call EXCEPT ![c] = [call[c] EXCEPT !.pc = place]]
  BY DEF Goto
<1>4. call \in [Call -> {NoCall} \cup RunningCall]
  BY DEF TypeOK
<1>5. [call[c] EXCEPT !.pc = place].pc = place
      /\ [call[c] EXCEPT !.pc = place].profile = call[c].profile
  BY <1>1 DEF RunningCall
<1> QED
  BY <1>2, <1>3, <1>4, <1>5

\* A call that returns is no call of anybody.
LEMMA ReturnedCall ==
  ASSUME TypeOK, NEW c \in Call, Return(c)
  PROVE  /\ call' \in [Call -> {NoCall} \cup RunningCall]
         /\ call'[c].pc = "idle"
         /\ \A d \in Call \ {c} : call'[d] = call[d]
<1>1. call \in [Call -> {NoCall} \cup RunningCall]
  BY DEF TypeOK
<1> QED
  BY <1>1 DEF Return, NoCall

\* A new call is one of its profile, at its request.
LEMMA StartedCall ==
  ASSUME TypeOK, NEW c \in Call, NEW p \in Profile, NEW auto \in BOOLEAN,
         call' = [call EXCEPT ![c] = NewCall(p, auto)]
  PROVE  /\ call' \in [Call -> {NoCall} \cup RunningCall]
         /\ call'[c].pc = "request"
         /\ call'[c].profile = p
         /\ \A d \in Call \ {c} : call'[d] = call[d]
<1>1. call \in [Call -> {NoCall} \cup RunningCall]
  BY DEF TypeOK
<1>2. NewCall(p, auto) \in RunningCall
  BY DEF NewCall, RunningCall
<1>3. NewCall(p, auto).pc = "request" /\ NewCall(p, auto).profile = p
  BY DEF NewCall
<1> QED
  BY <1>1, <1>2, <1>3

\* A step of a call: what it may do to the calls.  A goroutine's call stays
\* open until it clears its mark.
CallMoves(c) ==
  /\ call[c].pc # "idle"
  /\ call' \in [Call -> {NoCall} \cup RunningCall]
  /\ \A d \in Call \ {c} : call'[d] = call[d]
  /\ \/ call'[c].pc = "idle"
     \/ /\ call'[c].pc \in {"poll", "intend", "release"}
        /\ call'[c].profile = call[c].profile
  /\ call'[c].pc = "intend" => c \in UserCalls
  /\ call'[c].pc = "release" => c \in Reconnects

LEMMA SucceedMoves ==
  ASSUME TypeOK, NEW c \in Call, call[c].pc # "idle", Succeed(c)
  PROVE  CallMoves(c) /\ (c \in Reconnects => call'[c].pc # "idle")
<1>1. CASE c \in Reconnects /\ Goto(c, "release")
  BY <1>1, MovedCall DEF CallMoves
<1>2. CASE c \in UserCalls /\ Goto(c, "intend")
  BY <1>2, MovedCall DEF CallMoves
<1>3. CASE c \in UserCalls /\ Return(c)
  BY <1>3, ReturnedCall, CallAssumption DEF CallMoves
<1> QED
  BY <1>1, <1>2, <1>3 DEF Succeed

LEMMA FailMoves ==
  ASSUME TypeOK, NEW c \in Call, call[c].pc # "idle", Fail(c)
  PROVE  CallMoves(c) /\ (c \in Reconnects => call'[c].pc # "idle")
<1>1. CASE c \in Reconnects /\ Goto(c, "release")
  BY <1>1, MovedCall DEF CallMoves
<1>2. CASE c \in UserCalls /\ Return(c)
  BY <1>2, ReturnedCall, CallAssumption DEF CallMoves
<1> QED
  BY <1>1, <1>2 DEF Fail

\* Every request to the helper and every wait moves its call, and no
\* goroutine's call is closed by it.
LEMMA RequestMoves ==
  ASSUME TypeOK, NEW c \in Call, RequestStart(c) \/ Poll(c)
  PROVE  CallMoves(c) /\ (c \in Reconnects => call'[c].pc # "idle")
<1>1. CASE Succeed(c) /\ call[c].pc # "idle"
  BY <1>1, SucceedMoves
<1>2. CASE Fail(c) /\ call[c].pc # "idle"
  BY <1>2, FailMoves
<1>3. CASE Goto(c, "poll") /\ call[c].pc # "idle"
  BY <1>3, MovedCall DEF CallMoves
<1> QED
  BY <1>1, <1>2, <1>3 DEF RequestStart, Poll

LEMMA ReturnMoves ==
  ASSUME TypeOK, NEW c \in Call, call[c].pc # "idle", Return(c)
  PROVE  CallMoves(c)
BY ReturnedCall DEF CallMoves

\* What a moving call means for the profiles: nobody gets a new call, and the
\* calls of the goroutines are the same unless one of them ended.
LEMMA OpenAfterMove ==
  ASSUME NEW c \in Call, CallMoves(c)
  PROVE  /\ \A p \in Profile : OpenFor(p)' \subseteq OpenFor(p)
         /\ c \notin Reconnects \/ call'[c].pc # "idle" =>
              \A p \in Profile : (OpenFor(p) \cap Reconnects)' = OpenFor(p) \cap Reconnects
         /\ \A p \in Profile : OpenFor(p) \ {c} \subseteq OpenFor(p)'
BY DEF CallMoves, OpenFor, Open

-----------------------------------------------------------------------------
(* Type correctness *)

LEMMA TypeInit == Init => TypeOK
<1> SUFFICES ASSUME Init PROVE TypeOK
  OBVIOUS
<1>1. call \in [Call -> {NoCall} \cup RunningCall]
  BY DEF Init
<1>2. monitor \in [pc : {"scan"}, round : SUBSET Profile]
  BY DEF Init, Resting
<1>3. resetting \in BOOLEAN
  BY DEF Init
<1> QED
  BY <1>1, <1>2, <1>3 DEF Init, TypeOK

\* Steps of a call.
LEMMA TypeProgress ==
  ASSUME TypeOK, NEW c \in Call, Progress(c)
  PROVE  TypeOK'
<1>1. CASE RequestStart(c)
  <2>1. call' \in [Call -> {NoCall} \cup RunningCall]
    BY <1>1, RequestMoves DEF CallMoves
  <2>2. helper' \in [Profile -> HelperState]
    BY <1>1 DEF RequestStart, TypeOK, SetHelper, HelperState
  <2> QED
    BY <1>1, <2>1, <2>2 DEF RequestStart, TypeOK, intentVars, requestVars, history
<1>2. CASE Poll(c)
  <2>1. call' \in [Call -> {NoCall} \cup RunningCall]
    BY <1>2, RequestMoves DEF CallMoves
  <2> QED
    BY <1>2, <2>1 DEF Poll, TypeOK, intentVars, requestVars, history
<1>3. CASE Intend(c)
  <2>1. call' \in [Call -> {NoCall} \cup RunningCall]
    BY <1>3, ReturnMoves DEF CallMoves, Intend
  <2>2. call[c].profile \in Profile
    BY <1>3, OpenCall DEF Intend, RunningCall
  <2> QED
    BY <1>3, <2>1, <2>2 DEF Intend, TypeOK, requestVars, history
<1>4. CASE Release(c)
  <2>1. call' \in [Call -> {NoCall} \cup RunningCall]
    BY <1>4, ReturnMoves DEF CallMoves, Release
  <2> QED
    BY <1>4, <2>1 DEF Release, TypeOK, requestVars, history
<1> QED
  BY <1>1, <1>2, <1>3, <1>4 DEF Progress

\* A round with a profile under examination is a record with that profile.
LEMMA UnderExamination ==
  ASSUME TypeOK, monitor.pc # "scan"
  PROVE  monitor \in Examination
BY DEF TypeOK, Examination

LEMMA TypeMonitor ==
  ASSUME TypeOK, Monitor
  PROVE  TypeOK'
<1> DEFINE Round == [pc : {"scan"}, round : SUBSET Profile]
<1>1. CASE Wake
  <2>1. monitor' \in Round
    BY <1>1 DEF Wake, Resting, Configured
  <2> QED
    BY <1>1, <2>1 DEF Wake, TypeOK, intentVars, requestVars, history
<1>2. ASSUME NEW p \in Profile, ReadIntent(p) PROVE TypeOK'
  <2>1. monitor \in Round
    BY <1>2 DEF ReadIntent, TypeOK, Examination
  <2>2. monitor' \in Round \cup Examination
    BY <1>2, <2>1 DEF ReadIntent, Examination
  <2> QED
    BY <1>2, <2>2 DEF ReadIntent, TypeOK, intentVars, requestVars, history
<1>3. CASE Probe
  <2>1. monitor' \in Round \cup Examination
    BY <1>3, UnderExamination DEF Probe, Examination
  <2> QED
    BY <1>3, <2>1 DEF Probe, TypeOK, intentVars, requestVars, history
<1>4. CASE Mark
  <2>1. monitor \in Examination
    BY <1>4, UnderExamination DEF Mark
  <2>2. monitor' \in Round /\ monitor.profile \in Profile
    BY <1>4, <2>1 DEF Mark, Examination
  <2>3. call' \in [Call -> {NoCall} \cup RunningCall]
    BY <1>4, <2>2, StartedCall DEF Mark, Call
  <2> QED
    BY <1>4, <2>2, <2>3 DEF Mark, TypeOK, requestVars, history
<1> QED
  BY <1>1, <1>2, <1>3, <1>4 DEF Monitor

LEMMA TypeRequest ==
  ASSUME TypeOK, NEW p \in Profile, Request(p)
  PROVE  TypeOK'
<1>1. CASE Connect(p)
  <2>1. (configs[p] = "auto") \in BOOLEAN
    OBVIOUS
  <2>2. call' \in [Call -> {NoCall} \cup RunningCall]
    BY <1>1, <2>1, StartedCall DEF Connect, Call
  <2> QED
    BY <1>1, <2>2 DEF Connect, Asks, TypeOK, intentVars, requestVars
<1>2. CASE Arm(p)
  BY <1>2 DEF Arm, Asks, TypeOK, requestVars
<1>3. CASE Disconnect(p)
  BY <1>3 DEF Disconnect, Dismiss, TypeOK
<1>4. CASE DeleteProfile(p)
  BY <1>4 DEF DeleteProfile, Dismiss, TypeOK
<1>5. CASE DeleteAction(p)
  BY <1>5 DEF DeleteAction, Asks, TypeOK, intentVars
<1>6. ASSUME NEW q \in Profile, NEW reconnect \in Reconnecting, Save(p, q, reconnect)
      PROVE TypeOK'
  BY <1>6 DEF Save, TypeOK, intentVars, requestVars, history
<1> QED
  BY <1>1, <1>2, <1>3, <1>4, <1>5, <1>6 DEF Request

LEMMA TypeOthers ==
  ASSUME TypeOK, Reset \/ Handler \/ HelperRestarts \/ \E p \in Profile : EngineMoves(p)
  PROVE  TypeOK'
<1>1. CASE Reset
  BY <1>1 DEF Reset, Dismiss, TypeOK
<1>2. ASSUME NEW p \in Profile, StopTunnel(p) PROVE TypeOK'
  BY <1>2 DEF StopTunnel, SetHelper, HelperState, Asks, TypeOK, intentVars
<1>3. ASSUME NEW p \in Profile, Forget(p) PROVE TypeOK'
  BY <1>3 DEF Forget, TypeOK, intentVars, history
<1>4. CASE ResetTunnels
  <2>1. helper' \in [Profile -> HelperState]
    BY <1>4 DEF ResetTunnels, HelperState, TypeOK
  <2>2. asked' \in [Profile -> {"open", "down", "reset"}]
    BY <1>4 DEF ResetTunnels, TypeOK
  <2>3. resetting' \in BOOLEAN
    BY <1>4 DEF ResetTunnels
  <2> QED
    BY <1>4, <2>1, <2>2, <2>3 DEF ResetTunnels, TypeOK, intentVars
<1>5. CASE HelperRestarts
  BY <1>5 DEF HelperRestarts, HelperState, TypeOK, intentVars, requestVars, history
<1>6. ASSUME NEW p \in Profile, EngineMoves(p) PROVE TypeOK'
  BY <1>6 DEF EngineMoves, SetHelper, HelperState, TypeOK, intentVars, requestVars, history
<1> QED
  BY <1>1, <1>2, <1>3, <1>4, <1>5, <1>6 DEF Handler

LEMMA TypeStep == TypeOK /\ [Next]_vars => TypeOK'
<1>1. TypeOK /\ UNCHANGED vars => TypeOK'
  BY DEF TypeOK, vars, intentVars, requestVars, history
<1> QED
  BY <1>1, TypeProgress, TypeMonitor, TypeRequest, TypeOthers DEF Next

\* Every variable keeps its type: profiles, calls and the monitor's place.
THEOREM TypeCorrect == Spec => []TypeOK
<1> QED
  BY TypeInit, TypeStep, PTL DEF Spec

-----------------------------------------------------------------------------
(* Places of the calls *)

LEMMA PlacesInit == Init => CallPlaces
BY DEF Init, CallPlaces, NoCall

LEMMA PlacesStep ==
  ASSUME TypeOK, CallPlaces, [Next]_vars
  PROVE  CallPlaces'
<1>1. ASSUME NEW c \in Call, CallMoves(c) PROVE CallPlaces'
  BY <1>1 DEF CallMoves, CallPlaces
<1>2. ASSUME NEW c \in Call, Progress(c) PROVE CallPlaces'
  BY <1>2, <1>1, RequestMoves, ReturnMoves DEF Progress, Intend, Release
<1>3. ASSUME NEW c \in Call, NEW p \in Profile, NEW auto \in BOOLEAN,
             call' = [call EXCEPT ![c] = NewCall(p, auto)]
      PROVE CallPlaces'
  BY <1>3, StartedCall DEF CallPlaces
<1>4. UNCHANGED call => CallPlaces'
  BY DEF CallPlaces
<1>5. CASE Monitor
  <2>1. CASE Mark
    <3>1. monitor.profile \in Profile
      BY <2>1, UnderExamination DEF Mark, Examination
    <3> QED
      BY <2>1, <3>1, <1>3 DEF Mark, Call
  <2> QED
    BY <1>5, <2>1, <1>4 DEF Monitor, Wake, ReadIntent, Probe
<1>6. ASSUME NEW p \in Profile, Request(p) PROVE CallPlaces'
  <2>1. CASE Connect(p)
    <3>1. (configs[p] = "auto") \in BOOLEAN
      OBVIOUS
    <3> QED
      BY <2>1, <3>1, <1>3 DEF Connect, Call
  <2> QED
    BY <1>6, <2>1, <1>4
    DEF Request, Arm, Disconnect, DeleteProfile, DeleteAction, Save
<1>7. CASE UNCHANGED vars
  BY <1>7, <1>4 DEF vars
<1> QED
  BY <1>2, <1>4, <1>5, <1>6, <1>7
  DEF Next, EngineMoves, Reset, Handler, StopTunnel, Forget, ResetTunnels, HelperRestarts

-----------------------------------------------------------------------------
(* Marks and attempts *)

Marks == BusyHasCall /\ AttemptIsMarked /\ ExaminedIsIdle /\ SingleReconnect
Attempts(p) == OpenFor(p) \cap Reconnects

\* Steps that leave the attempts, the marks and the dismissals alone and put
\* no profile under examination.
LEMMA MarksFrame ==
  ASSUME TypeOK, Marks, UNCHANGED <<busy, crossed>>,
         \A p \in Profile : Attempts(p)' = Attempts(p),
         \A p \in Profile : Examines(p)' => Examines(p)
  PROVE  Marks'
BY DEF Marks, Attempts, BusyHasCall, AttemptIsMarked, ExaminedIsIdle, SingleReconnect, TypeOK

\* A dismissal during an attempt notes the profile as crossed, so that nothing
\* is claimed of it; without an attempt it has no mark to lose.
LEMMA MarksDismiss ==
  ASSUME TypeOK, Marks, NEW S \in SUBSET Profile, NEW what, Dismiss(S, what),
         UNCHANGED <<call, monitor>>,
         busy' = busy \/ busy' = busy \ S
  PROVE  Marks'
<1>1. \A p \in Profile : Attempts(p)' = Attempts(p) /\ Examines(p)' = Examines(p)
  BY DEF Attempts, OpenFor, Open, Examines
<1>2. \A p \in Profile : InFlight(p) \/ (Attempts(p) = {} /\ ~Examines(p))
  BY DEF InFlight, Attempts
<1>3. \A p \in Profile : p \notin S => (p \in crossed' <=> p \in crossed)
  BY DEF Dismiss
<1>4. \A p \in S : p \in crossed' <=> InFlight(p)
  BY DEF Dismiss
<1>5. busy \in SUBSET Profile /\ busy' \in SUBSET Profile
  BY DEF TypeOK
<1>6. BusyHasCall'
  BY <1>1, <1>5 DEF Marks, BusyHasCall, Attempts
<1>7. AttemptIsMarked'
  BY <1>1, <1>2, <1>3, <1>4 DEF Marks, AttemptIsMarked, Attempts
<1>8. ExaminedIsIdle'
  BY <1>1, <1>2, <1>3, <1>4 DEF Marks, ExaminedIsIdle, Attempts
<1>9. SingleReconnect'
  BY <1>1, <1>2, <1>3, <1>4 DEF Marks, SingleReconnect, Attempts
<1> QED
  BY <1>6, <1>7, <1>8, <1>9 DEF Marks

\* The goroutine whose mark is cleared was the only attempt at its profile,
\* unless the profile was dismissed meanwhile.
LEMMA MarksRelease ==
  ASSUME TypeOK, CallPlaces, Marks, NEW c \in Call, Release(c)
  PROVE  Marks'
<1>q. PICK q \in Profile : q = call[c].profile
  BY OpenCall DEF Release, RunningCall
<1>1. c \in Reconnects /\ c \in OpenFor(q)
  BY <1>q DEF Release, CallPlaces, OpenFor, Open
<1>2. CallMoves(c) /\ call'[c].pc = "idle"
  BY ReturnMoves, ReturnedCall DEF Release
<1>3. \A p \in Profile : Attempts(p)' = Attempts(p) \ {c}
  BY <1>2 DEF CallMoves, Attempts, OpenFor, Open
<1>4. busy' = busy \ {q} /\ crossed' = crossed
  BY <1>q DEF Release, history
<1>5. \A p \in Profile : Examines(p)' = Examines(p)
  BY DEF Release, Examines
<1>6. \A p \in Profile : p # q => c \notin Attempts(p)
  BY <1>q DEF Attempts, OpenFor
<1>8. BusyHasCall'
  BY <1>3, <1>4, <1>6 DEF Marks, BusyHasCall, Attempts, TypeOK
<1>9. AttemptIsMarked'
  <2>1. q \notin crossed => Attempts(q)' = {}
    BY <1>1, <1>3, <1>q DEF Marks, SingleReconnect, Attempts
  <2> QED
    BY <2>1, <1>3, <1>4, <1>6 DEF Marks, AttemptIsMarked, Attempts
<1>10. ExaminedIsIdle'
  BY <1>3, <1>4, <1>5 DEF Marks, ExaminedIsIdle, Attempts
<1>11. SingleReconnect'
  BY <1>3, <1>4 DEF Marks, SingleReconnect, Attempts
<1> QED
  BY <1>8, <1>9, <1>10, <1>11 DEF Marks

\* The monitor starts an attempt only at a profile that has none, unless the
\* profile was dismissed since its intent was read.
LEMMA MarksMark ==
  ASSUME TypeOK, Marks, Mark
  PROVE  Marks'
<1>q. PICK q \in Profile : q = monitor.profile /\ monitor.pc # "scan"
  BY UnderExamination DEF Mark, Examination
<1>1. PICK c \in Reconnects :
        ~Open(c) /\ call' = [call EXCEPT ![c] = NewCall(q, FALSE)]
  BY <1>q DEF Mark
<1>3. c \in Call /\ FALSE \in BOOLEAN
  BY DEF Call
<1>4. /\ call'[c].pc = "request"
      /\ call'[c].profile = q
      /\ \A d \in Call \ {c} : call'[d] = call[d]
  BY <1>1, <1>q, <1>3, StartedCall
<1>5. Attempts(q)' = Attempts(q) \cup {c}
  BY <1>1, <1>3, <1>4 DEF Attempts, OpenFor, Open
<1>6. \A p \in Profile : p # q => Attempts(p)' = Attempts(p)
  BY <1>1, <1>3, <1>4 DEF Attempts, OpenFor, Open
<1>7. busy' = busy \cup {q} /\ crossed' = crossed
  BY <1>q DEF Mark, history
<1>8. \A p \in Profile : ~Examines(p)'
  BY DEF Mark, Examines
<1>9. q \notin crossed => Attempts(q) = {}
  BY <1>q DEF Marks, ExaminedIsIdle, Attempts, Examines
<1>10. BusyHasCall'
  BY <1>5, <1>6, <1>7, <1>q DEF Marks, BusyHasCall, Attempts, TypeOK
<1>11. AttemptIsMarked'
  BY <1>5, <1>6, <1>7, <1>q DEF Marks, AttemptIsMarked, Attempts
<1>12. ExaminedIsIdle'
  BY <1>8 DEF ExaminedIsIdle
<1>13. SingleReconnect'
  BY <1>5, <1>6, <1>7, <1>9, <1>q DEF Marks, SingleReconnect, Attempts
<1> QED
  BY <1>10, <1>11, <1>12, <1>13 DEF Marks

LEMMA MarksStep ==
  ASSUME TypeOK, CallPlaces, Marks, [Next]_vars
  PROVE  Marks'
<1>1. ASSUME UNCHANGED <<call, busy, crossed>>, \A p \in Profile : Examines(p)' => Examines(p)
      PROVE Marks'
  BY <1>1, MarksFrame DEF Attempts, OpenFor, Open
<1>2. UNCHANGED monitor => \A p \in Profile : Examines(p)' => Examines(p)
  BY DEF Examines
<1>3. ASSUME NEW c \in Call, Progress(c) PROVE Marks'
  <2>1. CASE RequestStart(c) \/ Poll(c)
    <3>1. \A p \in Profile : Attempts(p)' = Attempts(p)
      BY <2>1, RequestMoves, OpenAfterMove DEF Attempts
    <3> QED
      BY <2>1, <3>1, <1>2, MarksFrame DEF RequestStart, Poll, intentVars, history
  <2>2. CASE Intend(c)
    <3>1. c \notin Reconnects
      BY <2>2, CallAssumption DEF Intend, CallPlaces
    <3>2. \A p \in Profile : Attempts(p)' = Attempts(p)
      BY <2>2, <3>1, ReturnMoves, OpenAfterMove DEF Attempts, Intend
    <3> QED
      BY <2>2, <3>2, <1>2, MarksFrame DEF Intend, history
  <2>3. CASE Release(c)
    BY <2>3, MarksRelease
  <2> QED
    BY <1>3, <2>1, <2>2, <2>3 DEF Progress
<1>4. CASE Monitor
  <2>1. CASE Wake
    BY <2>1, <1>1 DEF Wake, Resting, Examines, intentVars, history
  <2>2. ASSUME NEW p \in Profile, ReadIntent(p) PROVE Marks'
    <3>1. CASE p \in busy \/ p \notin wanted \cap cached
      BY <2>2, <3>1, <1>1 DEF ReadIntent, Examines, intentVars, history
    <3>2. CASE p \notin busy /\ p \in wanted \cap cached
      <4>1. \A q \in Profile : Examines(q)' => q = p
        BY <2>2, <3>2 DEF ReadIntent, Examines
      <4>2. \A q \in Profile : Attempts(q)' = Attempts(q)
        BY <2>2 DEF ReadIntent, Attempts, OpenFor, Open
      <4>3. p \notin crossed => Attempts(p) = {}
        BY <3>2 DEF Marks, AttemptIsMarked, Attempts
      <4> QED
        BY <2>2, <4>1, <4>2, <4>3
        DEF ReadIntent, Marks, BusyHasCall, AttemptIsMarked, ExaminedIsIdle,
            SingleReconnect, Attempts, intentVars, history, TypeOK
    <3> QED
      BY <3>1, <3>2
  <2>3. CASE Probe
    BY <2>3, <1>1, UnderExamination DEF Probe, Examines, Examination, intentVars, history
  <2>4. CASE Mark
    BY <2>4, MarksMark
  <2> QED
    BY <1>4, <2>1, <2>2, <2>3, <2>4 DEF Monitor
<1>5. ASSUME NEW p \in Profile, Request(p) PROVE Marks'
  <2>1. CASE Connect(p)
    <3>1. PICK c \in UserCalls :
            ~Open(c) /\ call' = [call EXCEPT ![c] = NewCall(p, configs[p] = "auto")]
      BY <2>1 DEF Connect
    <3>2. c \in Call /\ c \notin Reconnects /\ (configs[p] = "auto") \in BOOLEAN
      BY CallAssumption DEF Call
    <3>3. \A d \in Reconnects : call'[d] = call[d]
      BY <3>1, <3>2, StartedCall DEF Call
    <3>4. \A q \in Profile : Attempts(q)' = Attempts(q)
      BY <3>3 DEF Attempts, OpenFor, Open, Call
    <3> QED
      BY <2>1, <3>4, <1>2, MarksFrame DEF Connect, intentVars
  <2>2. CASE Disconnect(p)
    BY <2>2, MarksDismiss DEF Disconnect
  <2>3. CASE DeleteProfile(p)
    BY <2>3, MarksDismiss DEF DeleteProfile
  <2> QED
    BY <1>5, <2>1, <2>2, <2>3, <1>1, <1>2
    DEF Request, Arm, DeleteAction, Save, intentVars, history
<1>6. CASE Reset
  <2>1. busy' = busy \ Profile
    BY <1>6 DEF Reset, TypeOK
  <2> QED
    BY <1>6, <2>1, MarksDismiss DEF Reset
<1>7. CASE Handler \/ HelperRestarts \/ \E p \in Profile : EngineMoves(p)
  BY <1>7, <1>1, <1>2
  DEF Handler, StopTunnel, Forget, ResetTunnels, HelperRestarts, EngineMoves, intentVars,
      history
<1>8. CASE UNCHANGED vars
  BY <1>8, <1>1, <1>2 DEF vars, intentVars, history
<1> QED
  BY <1>3, <1>4, <1>5, <1>6, <1>7, <1>8 DEF Next

-----------------------------------------------------------------------------
(* Dismissed profiles *)

\* The profiles DismissedIsQuiet speaks of.
Dismissed(p) == asked[p] \in {"down", "reset"} /\ p \notin crossed
Settled(p) == closing[p] \in {"no", "forget"} /\ ~resetting
Quiet(p) == p \notin wanted /\ ~InFlight(p) /\ (Settled(p) => ~Live(p))

LEMMA QuietParts ==
  DismissedIsQuiet <=> \A p \in Profile : Dismissed(p) => Quiet(p)
BY DEF DismissedIsQuiet, Dismissed, Quiet, Settled

\* Nothing starts for a profile, its tunnel does not come up, and it is not
\* settled by anything but its tunnel being stopped.
LEMMA QuietFrame ==
  ASSUME NEW p \in Profile, Quiet(p),
         p \notin wanted', OpenFor(p)' \subseteq OpenFor(p), Examines(p)' => Examines(p),
         Settled(p)' => ~Live(p)' \/ (Settled(p) /\ (Live(p)' => Live(p)))
  PROVE  Quiet(p)'
BY DEF Quiet, InFlight

LEMMA QuietProgress ==
  ASSUME TypeOK, NEW c \in Call, Progress(c), NEW p \in Profile, Quiet(p)
  PROVE  Quiet(p)'
<1>1. CallMoves(c)
  BY RequestMoves, ReturnMoves DEF Progress, Intend, Release
<1>2. OpenFor(p)' \subseteq OpenFor(p)
  BY <1>1, OpenAfterMove
<1>3. call[c].profile # p
  BY <1>1 DEF CallMoves, Quiet, InFlight, OpenFor, Open
<1>4. Examines(p)' = Examines(p) /\ Settled(p)' = Settled(p)
  BY DEF Progress, RequestStart, Poll, Intend, Release, Examines, Settled, requestVars
<1>5. Live(p)' = Live(p)
  BY <1>3 DEF Progress, RequestStart, Poll, Intend, Release, SetHelper, Live, TypeOK
<1>6. p \notin wanted'
  BY <1>3 DEF Progress, RequestStart, Poll, Intend, Release, Quiet, intentVars
<1> QED
  BY <1>2, <1>4, <1>5, <1>6, QuietFrame

LEMMA QuietMonitor ==
  ASSUME TypeOK, Monitor, NEW p \in Profile, Quiet(p)
  PROVE  Quiet(p)'
<1>1. wanted' = wanted /\ UNCHANGED <<helper, requestVars>>
  BY DEF Monitor, Wake, ReadIntent, Probe, Mark, intentVars
<1>2. Live(p)' = Live(p) /\ Settled(p)' = Settled(p)
  BY <1>1 DEF Live, Settled, requestVars
<1>3. Examines(p)' => Examines(p)
  <2>1. ASSUME NEW q \in Profile, ReadIntent(q), Examines(p)' PROVE q = p /\ p \in wanted
    BY <2>1 DEF ReadIntent, Examines
  <2>2. (\E q \in Profile : ReadIntent(q)) => (Examines(p)' => Examines(p))
    BY <2>1 DEF Quiet
  <2>3. Wake \/ Mark => monitor'.pc = "scan"
    <3>1. Wake => monitor'.pc = "scan"
      BY DEF Wake, Resting
    <3>2. Mark => monitor'.pc = "scan"
      BY DEF Mark
    <3> QED
      BY <3>1, <3>2
  <2>4. Probe => (Examines(p)' => Examines(p))
    BY UnderExamination DEF Probe, Examines, Examination
  <2> QED
    BY <2>2, <2>3, <2>4 DEF Monitor, Examines
<1>4. OpenFor(p)' \subseteq OpenFor(p)
  <2>1. CASE Mark
    <3>1. monitor.profile # p /\ monitor.profile \in Profile
      BY <2>1, UnderExamination DEF Mark, Quiet, InFlight, Examines, Examination
    <3>2. PICK c \in Reconnects :
            call' = [call EXCEPT ![c] = NewCall(monitor.profile, FALSE)]
      BY <2>1 DEF Mark
    <3>3. call'[c].profile # p /\ \A d \in Call \ {c} : call'[d] = call[d]
      BY <3>1, <3>2, StartedCall DEF Call
    <3> QED
      BY <3>3 DEF OpenFor, Open
  <2>2. CASE UNCHANGED call
    BY <2>2 DEF OpenFor, Open
  <2> QED
    BY <2>1, <2>2 DEF Monitor, Wake, ReadIntent, Probe
<1> QED
  BY <1>1, <1>2, <1>3, <1>4, QuietFrame DEF Quiet

\* Who is dismissed now either was before, and then the step is another
\* profile's, or is dismissed by this step.
LEMMA QuietRequest ==
  ASSUME TypeOK, NEW q \in Profile, Request(q), NEW p \in Profile,
         Dismissed(p) => Quiet(p), Dismissed(p)'
  PROVE  Quiet(p)'
<1>1. UNCHANGED call => OpenFor(p)' = OpenFor(p)
  BY DEF OpenFor, Open
<1>2. UNCHANGED monitor => Examines(p)' = Examines(p)
  BY DEF Examines
<1>3. ASSUME UNCHANGED <<call, monitor, helper, resetting>>, wanted' \subseteq wanted,
             Quiet(p), Settled(p)' => Settled(p)
      PROVE Quiet(p)'
  BY <1>3, <1>1, <1>2, QuietFrame DEF Quiet, Live
<1>4. CASE Connect(q)
  <2>1. p # q /\ Dismissed(p)
    BY <1>4 DEF Connect, Asks, Dismissed, TypeOK
  <2>2. PICK c \in UserCalls :
          ~Open(c) /\ call' = [call EXCEPT ![c] = NewCall(q, configs[q] = "auto")]
    BY <1>4 DEF Connect
  <2>3. (configs[q] = "auto") \in BOOLEAN
    OBVIOUS
  <2>4. call'[c].profile = q /\ \A d \in Call \ {c} : call'[d] = call[d]
    BY <2>2, <2>3, StartedCall DEF Call
  <2>5. OpenFor(p)' \subseteq OpenFor(p)
    BY <2>1, <2>4 DEF OpenFor, Open
  <2> QED
    BY <1>4, <2>1, <2>5, <1>2, QuietFrame
    DEF Connect, Quiet, Live, Settled, intentVars, requestVars
<1>5. CASE Arm(q)
  <2>1. p # q /\ Dismissed(p)
    BY <1>5 DEF Arm, Asks, Dismissed, TypeOK
  <2>2. p \in wanted' => p \in wanted
    BY <1>5, <2>1 DEF Arm
  <2> QED
    BY <1>5, <2>1, <2>2, <1>1, <1>2, QuietFrame
    DEF Arm, Quiet, Live, Settled, requestVars
<1>6. CASE Disconnect(q) \/ DeleteProfile(q)
  <2>1. Dismiss({q}, "down") /\ UNCHANGED <<call, monitor, helper, resetting>>
        /\ wanted' = wanted \ {q} /\ closing[q] = "no"
    BY <1>6 DEF Disconnect, DeleteProfile
  <2>2. CASE p = q
    <3>1. ~InFlight(p) /\ p \notin wanted'
      BY <2>1, <2>2 DEF Dismiss, Dismissed
    <3>2. ~Settled(p)'
      BY <1>6, <2>2 DEF Disconnect, DeleteProfile, Settled, TypeOK
    <3> QED
      BY <2>1, <3>1, <3>2, <1>1, <1>2 DEF Quiet, InFlight
  <2>3. CASE p # q
    <3>1. Dismissed(p)
      BY <2>1, <2>3 DEF Dismiss, Dismissed, TypeOK
    <3>2. closing'[p] = closing[p]
      BY <1>6, <2>3 DEF Disconnect, DeleteProfile, TypeOK
    <3> QED
      BY <2>1, <3>1, <3>2, <1>3 DEF Settled
  <2> QED
    BY <2>2, <2>3
<1>7. CASE DeleteAction(q)
  <2>1. p # q /\ Dismissed(p)
    BY <1>7 DEF DeleteAction, Asks, Dismissed, TypeOK
  <2> QED
    BY <1>7, <2>1, <1>3 DEF DeleteAction, Settled, intentVars, TypeOK
<1>8. ASSUME NEW r \in Profile, NEW reconnect \in Reconnecting, Save(q, r, reconnect)
      PROVE Quiet(p)'
  BY <1>8, <1>3 DEF Save, Dismissed, Settled, intentVars, requestVars, history
<1> QED
  BY <1>4, <1>5, <1>6, <1>7, <1>8 DEF Request

LEMMA QuietOthers ==
  ASSUME TypeOK, Reset \/ Handler \/ HelperRestarts \/ \E q \in Profile : EngineMoves(q),
         NEW p \in Profile, Dismissed(p) => Quiet(p), Dismissed(p)'
  PROVE  Quiet(p)'
<1>1. UNCHANGED <<call, monitor>>
  BY DEF Reset, Handler, StopTunnel, Forget, ResetTunnels, HelperRestarts, EngineMoves
<1>2. OpenFor(p)' = OpenFor(p) /\ Examines(p)' = Examines(p)
  BY <1>1 DEF OpenFor, Open, Examines
<1>3. CASE Reset
  BY <1>3, <1>2 DEF Reset, Dismiss, Dismissed, Quiet, InFlight, Settled
<1>4. ASSUME NEW q \in Profile, StopTunnel(q) PROVE Quiet(p)'
  <2>1. Dismissed(p) /\ p \notin wanted'
    BY <1>4 DEF StopTunnel, Asks, Dismissed, Quiet, intentVars, TypeOK
  <2>2. CASE p = q
    <3>1. ~Live(p)'
      BY <1>4, <2>2 DEF StopTunnel, Asks, SetHelper, Dismissed, Live, TypeOK
    <3> QED
      BY <2>1, <3>1, <1>2, QuietFrame
  <2>3. CASE p # q
    <3>1. Live(p)' = Live(p) /\ Settled(p)' = Settled(p)
      BY <1>4, <2>3 DEF StopTunnel, SetHelper, Live, Settled, TypeOK
    <3> QED
      BY <2>1, <3>1, <1>2, QuietFrame
  <2> QED
    BY <2>2, <2>3
<1>5. ASSUME NEW q \in Profile, Forget(q) PROVE Quiet(p)'
  <2>1. Dismissed(p) /\ p \notin wanted' /\ Live(p)' = Live(p)
    BY <1>5 DEF Forget, Dismissed, Quiet, Live, intentVars, history
  <2>2. Settled(p)' => Settled(p)
    BY <1>5 DEF Forget, Settled, TypeOK
  <2> QED
    BY <2>1, <2>2, <1>2, QuietFrame
<1>6. CASE ResetTunnels
  <2>1. ~Live(p)'
    BY <1>6 DEF ResetTunnels, Dismissed, Live
  <2>2. Dismissed(p) /\ p \notin wanted'
    BY <1>6 DEF ResetTunnels, Dismissed, Quiet, intentVars
  <2> QED
    BY <2>1, <2>2, <1>2, QuietFrame
<1>7. CASE HelperRestarts \/ \E q \in Profile : EngineMoves(q)
  <2>1. Dismissed(p) /\ p \notin wanted' /\ Settled(p)' = Settled(p)
    BY <1>7 DEF HelperRestarts, EngineMoves, Dismissed, Quiet, Settled, intentVars,
       requestVars, history
  <2>2. Live(p)' => Live(p)
    BY <1>7 DEF HelperRestarts, EngineMoves, SetHelper, Live, TypeOK
  <2> QED
    BY <2>1, <2>2, <1>2, QuietFrame
<1> QED
  BY <1>3, <1>4, <1>5, <1>6, <1>7 DEF Handler

LEMMA QuietStep ==
  ASSUME TypeOK, DismissedIsQuiet, [Next]_vars
  PROVE  DismissedIsQuiet'
<1> SUFFICES ASSUME NEW p \in Profile, Dismissed(p)' PROVE Quiet(p)'
  BY DEF DismissedIsQuiet, Dismissed, Quiet, Settled
<1>1. Dismissed(p) => Quiet(p)
  BY QuietParts
<1>2. (\E c \in Call : Progress(c)) \/ Monitor => Dismissed(p)
  BY DEF Progress, RequestStart, Poll, Intend, Release, Monitor, Wake, ReadIntent, Probe,
     Mark, history, Dismissed
<1>3. CASE UNCHANGED vars
  BY <1>1, <1>3, QuietFrame
  DEF vars, intentVars, requestVars, history, Dismissed, Quiet, InFlight, OpenFor, Open,
      Examines, Settled, Live
<1> QED
  BY <1>1, <1>2, <1>3, QuietProgress, QuietMonitor, QuietRequest, QuietOthers DEF Next

-----------------------------------------------------------------------------
(* The invariant *)

LEMMA InvInit == Init => ControllerInv
<1> SUFFICES ASSUME Init PROVE ControllerInv
  OBVIOUS
<1>1. \A p \in Profile : OpenFor(p) = {}
  BY DEF Init, OpenFor, Open, NoCall
<1>2. \A p \in Profile : ~Examines(p)
  BY DEF Init, Resting, Examines
<1>3. BusyHasCall
  BY DEF Init, BusyHasCall
<1>4. AttemptIsMarked /\ ExaminedIsIdle /\ SingleReconnect
  BY <1>1 DEF AttemptIsMarked, ExaminedIsIdle, SingleReconnect
<1>5. DismissedIsQuiet
  BY DEF Init, DismissedIsQuiet
<1> QED
  BY <1>3, <1>4, <1>5, TypeInit, PlacesInit DEF ControllerInv

LEMMA InvStep == ControllerInv /\ [Next]_vars => ControllerInv'
<1> SUFFICES ASSUME ControllerInv, [Next]_vars PROVE ControllerInv'
  OBVIOUS
<1>1. TypeOK /\ CallPlaces /\ Marks /\ DismissedIsQuiet
  BY DEF ControllerInv, Marks
<1>2. TypeOK' /\ CallPlaces' /\ Marks' /\ DismissedIsQuiet'
  BY <1>1, TypeStep, PlacesStep, MarksStep, QuietStep
<1> QED
  BY <1>2 DEF ControllerInv, Marks

\* Marks, attempts, examinations and dismissals agree at every step of the
\* handlers, the monitor and the goroutines.
THEOREM ControllerInvariant == Spec => []ControllerInv
<1> QED
  BY InvInit, InvStep, PTL DEF Spec

\* connectionIntent.busy: the mark of a profile never outlives the attempt it
\* stands for, with any number of resets and deletes in between.
THEOREM MarkHasAttempt == Spec => []BusyHasCall
<1>1. ControllerInv => BusyHasCall
  BY DEF ControllerInv
<1> QED
  BY <1>1, ControllerInvariant, PTL

\* One reconnect attempt for a profile at a time, unless it was dismissed
\* during one.
THEOREM OneAttempt == Spec => []SingleReconnect
<1>1. ControllerInv => SingleReconnect
  BY DEF ControllerInv
<1> QED
  BY <1>1, ControllerInvariant, PTL

\* A profile dismissed with nothing in flight stays down until the user asks
\* for it again.
THEOREM DismissalHolds == Spec => []DismissedStaysDown
<1>1. ControllerInv => DismissedStaysDown
  BY DEF ControllerInv, DismissedIsQuiet, DismissedStaysDown
<1> QED
  BY <1>1, ControllerInvariant, PTL
=============================================================================
