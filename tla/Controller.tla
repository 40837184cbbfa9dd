----------------------------- MODULE Controller -----------------------------
(***************************************************************************)
(* The controller (main.go): the HTTP handlers of the tray and the CLI, the   *)
(* shared maps in which they note what the user wants, and the monitor loop   *)
(* that connects again the tunnels the user wants and that are down.          *)
(*                                                                         *)
(* Handlers, the loop and the goroutines it starts run side by side.  A step  *)
(* is one critical section of connectionIntent, or one request to the helper. *)
(* The helper is a black box here that keeps a state for each profile, and    *)
(* every request to it may fail; HelperService is what is inside.  What is    *)
(* only shown (the progress of a profile, and the prompt map, which the list  *)
(* of profiles uses when there is no helper to ask) is left out.              *)
(***************************************************************************)
EXTENDS Naturals

CONSTANTS Profile,     \* profile names
          UserCalls,   \* connect requests of the user that can be open at once
          Reconnects   \* reconnect goroutines that can run at once

ASSUME CallAssumption == UserCalls \cap Reconnects = {}

VARIABLES
  configs,     \* the profiles on file, and whether they reconnect
  wanted,      \* connectionIntent.names
  busy,        \* connectionIntent.busy
  cached,      \* connectionIntent.profiles
  helper,      \* what the helper makes of each profile
  call,        \* each connectVPNWithFailover that is under way
  monitor,     \* where monitorConnections stands
  closing,     \* the disconnect or delete request open for each profile
  resetting,   \* resetAllConnections has cleared the maps
  asked,       \* history: what the user has last asked of each profile
  crossed      \* history: profiles dismissed while something was in flight

intentVars == <<wanted, busy, cached>>
requestVars == <<closing, resetting>>
history == <<asked, crossed>>
vars == <<configs, intentVars, helper, call, monitor, requestVars,
          history>>

-----------------------------------------------------------------------------
\* "negotiating" is connecting or waiting-otp, "down" stopped or failed.
HelperState == {"down", "negotiating", "connected"}
Live(p) == helper[p] # "down"
SetHelper(p, state) == helper' = [helper EXCEPT ![p] = state]
Reconnecting == {"manual", "auto"}
Configured == {p \in Profile : configs[p] # "absent"}

Call == UserCalls \cup Reconnects
NoCall == [pc |-> "idle"]
NewCall(p, auto) == [pc |-> "request", profile |-> p, auto |-> auto]
Open(c) == call[c].pc # "idle"
OpenFor(p) == {c \in Call : Open(c) /\ call[c].profile = p}

Resting == [pc |-> "scan", round |-> {}]
Examines(p) == monitor.pc # "scan" /\ monitor.profile = p
InFlight(p) == OpenFor(p) # {} \/ Examines(p)

RunningCall == [pc : {"request", "poll", "intend", "release"},
                profile : Profile, auto : BOOLEAN]
Examination == [pc : {"probe", "mark"}, round : SUBSET Profile, profile : Profile]

TypeOK ==
  /\ configs \in [Profile -> Reconnecting \cup {"absent"}]
  /\ {wanted, busy, cached, crossed} \subseteq SUBSET Profile
  /\ helper \in [Profile -> HelperState]
  /\ call \in [Call -> {NoCall} \cup RunningCall]
  /\ monitor \in [pc : {"scan"}, round : SUBSET Profile] \cup Examination
  /\ closing \in [Profile -> {"no", "stop", "remove", "forget"}]
  /\ resetting \in BOOLEAN
  /\ asked \in [Profile -> {"open", "down", "reset"}]

\* The helper runs on while the controller is started.
Init ==
  /\ configs \in [Profile -> Reconnecting \cup {"absent"}]
  /\ wanted = {} /\ busy = {} /\ cached = {}
  /\ helper \in [Profile -> HelperState]
  /\ call = [c \in Call |-> NoCall]
  /\ monitor = Resting
  /\ closing = [p \in Profile |-> "no"]
  /\ resetting = FALSE
  /\ asked = [p \in Profile |-> "open"]
  /\ crossed = {}

-----------------------------------------------------------------------------
(* connectVPNWithFailover, for the user and for the monitor *)

Goto(c, place) == call' = [call EXCEPT ![c].pc = place]
Return(c) == call' = [call EXCEPT ![c] = NoCall]

\* The call is over for good or bad: the handler of a profile that is to
\* reconnect has yet to say so, and a goroutine to clear its mark.
Succeed(c) ==
  \/ c \in Reconnects /\ Goto(c, "release")
  \/ c \in UserCalls /\ call[c].auto /\ Goto(c, "intend")
  \/ c \in UserCalls /\ ~call[c].auto /\ Return(c)

\* Mutant: the error path has a place of its own and no way out.
FailForGood(c) == Goto(c, "failed")

\* Mutant: a failed attempt returns before busy is cleared.
FailAtOnce(c) == Return(c)

Fail(c) ==
  \/ c \in Reconnects /\ Goto(c, "release")
  \/ c \in UserCalls /\ Return(c)

\* The helper refuses a profile that is live and otherwise starts its engine.
\* The call fails when there is no engine for it or no answer, whether the
\* request was served or not.  For an IPsec profile a request served is all;
\* the others wait for the tunnel.
RequestStart(c) ==
  LET p == call[c].profile
  IN  /\ call[c].pc = "request"
      /\ \/ UNCHANGED helper /\ Fail(c)
         \/ /\ ~Live(p)
            /\ SetHelper(p, "negotiating")
            /\ Succeed(c) \/ Goto(c, "poll") \/ Fail(c)
      /\ UNCHANGED <<configs, intentVars, monitor, requestVars, history>>

\* Mutant: polling has no deadline and looks for the tunnel only.
PollForever(c) ==
  /\ call[c].pc = "poll"
  /\ helper[call[c].profile] = "connected"
  /\ Succeed(c)
  /\ UNCHANGED <<configs, intentVars, helper, monitor, requestVars, history>>

\* A tunnel that failed, a request without an answer and the deadline end the
\* wait.
Poll(c) ==
  /\ call[c].pc = "poll"
  /\ \/ helper[call[c].profile] = "connected" /\ Succeed(c)
     \/ Fail(c)
  /\ UNCHANGED <<configs, intentVars, helper, monitor, requestVars, history>>

\* The connect handler notes that the user wants the tunnel to be kept.
Intend(c) ==
  LET p == call[c].profile
  IN  /\ call[c].pc = "intend"
      /\ wanted' = wanted \cup {p}
      /\ cached' = cached \cup {p}
      /\ Return(c)
      /\ UNCHANGED <<configs, busy, helper, monitor, requestVars, history>>

\* The reconnect goroutine ends.
Release(c) ==
  /\ call[c].pc = "release"
  /\ busy' = busy \ {call[c].profile}
  /\ Return(c)
  /\ UNCHANGED <<configs, wanted, cached, helper, monitor, requestVars,
                 history>>

Progress(c) ==
  RequestStart(c) \/ Poll(c) \/ Intend(c) \/ Release(c)

-----------------------------------------------------------------------------
(* monitorConnections *)

\* A round over the profiles on file.
Wake ==
  /\ monitor = Resting
  /\ Configured # {}
  /\ monitor' = [Resting EXCEPT !.round = Configured]
  /\ UNCHANGED <<configs, intentVars, helper, call, requestVars, history>>

\* Mutant: busy is not looked at.
ReadIntentNotBusy(p) ==
  /\ monitor.pc = "scan"
  /\ p \in monitor.round
  /\ monitor' = IF p \in wanted \cap cached
                THEN [pc |-> "probe", round |-> monitor.round \ {p}, profile |-> p]
                ELSE [monitor EXCEPT !.round = @ \ {p}]
  /\ UNCHANGED <<configs, intentVars, helper, call, requestVars, history>>

\* The intent is read under the lock ...
ReadIntent(p) ==
  /\ monitor.pc = "scan"
  /\ p \in monitor.round
  /\ monitor' = IF p \in (wanted \cap cached) \ busy
                THEN [pc |-> "probe", round |-> monitor.round \ {p}, profile |-> p]
                ELSE [monitor EXCEPT !.round = @ \ {p}]
  /\ UNCHANGED <<configs, intentVars, helper, call, requestVars, history>>

\* ... the helper is asked without it; no answer counts as not connected ...
Probe ==
  /\ monitor.pc = "probe"
  /\ \/ /\ helper[monitor.profile] = "connected"
        /\ monitor' = [pc |-> "scan", round |-> monitor.round]
     \/ monitor' = [monitor EXCEPT !.pc = "mark"]
  /\ UNCHANGED <<configs, intentVars, helper, call, requestVars, history>>

\* Mutant: busy is set for whichever profile and no goroutine is started.
MarkOnly ==
  /\ monitor.pc = "mark"
  /\ busy' = busy \cup {monitor.profile}
  /\ monitor' = [pc |-> "scan", round |-> monitor.round]
  /\ UNCHANGED <<configs, wanted, cached, helper, call, requestVars, history>>

\* ... and the attempt is marked and started on what was read.
Mark ==
  /\ monitor.pc = "mark"
  /\ busy' = busy \cup {monitor.profile}
  /\ \E c \in Reconnects :
       ~Open(c) /\ call' = [call EXCEPT ![c] = NewCall(monitor.profile, FALSE)]
  /\ monitor' = [pc |-> "scan", round |-> monitor.round]
  /\ UNCHANGED <<configs, wanted, cached, helper, requestVars, history>>

Monitor == Wake \/ (\E p \in Profile : ReadIntent(p)) \/ Probe \/ Mark

-----------------------------------------------------------------------------
(* The user's requests *)

Asks(p, what) == asked' = [asked EXCEPT ![p] = what]

Connect(p) ==
  /\ p \in Configured
  /\ \E c \in UserCalls :
       /\ ~Open(c)
       /\ call' = [call EXCEPT ![c] = NewCall(p, configs[p] = "auto")]
  /\ Asks(p, "open")
  /\ UNCHANGED <<configs, intentVars, helper, monitor, requestVars, crossed>>

\* Sent for a tunnel that is up when the tray starts.
Arm(p) ==
  /\ p \in Configured
  /\ wanted' = IF configs[p] = "auto" THEN wanted \cup {p} ELSE wanted \ {p}
  /\ cached' = cached \cup {p}
  /\ Asks(p, "open")
  /\ UNCHANGED <<configs, busy, helper, call, monitor, requestVars, crossed>>

\* The profiles of S are dismissed; what is in flight for them goes on.
Dismiss(S, what) ==
  /\ asked' = [p \in Profile |-> IF p \in S THEN what ELSE asked[p]]
  /\ crossed' = (crossed \ S) \cup {p \in S : InFlight(p)}

\* Mutant: the cached password is dropped and the name is kept.
DisconnectKeepsName(p) ==
  /\ p \in Configured
  /\ closing[p] = "no"
  /\ cached' = cached \ {p}
  /\ closing' = [closing EXCEPT ![p] = "stop"]
  /\ Dismiss({p}, "down")
  /\ UNCHANGED <<configs, wanted, busy, helper, call, monitor, resetting>>

\* The intent is dropped first and the tunnel stopped after.
Disconnect(p) ==
  /\ p \in Configured
  /\ closing[p] = "no"
  /\ wanted' = wanted \ {p}
  /\ cached' = cached \ {p}
  /\ closing' = [closing EXCEPT ![p] = "stop"]
  /\ Dismiss({p}, "down")
  /\ UNCHANGED <<configs, busy, helper, call, monitor, resetting>>

\* DELETE of the profile forgets all about it.
DeleteProfile(p) ==
  /\ p \in Configured
  /\ closing[p] = "no"
  /\ wanted' = wanted \ {p}
  /\ cached' = cached \ {p}
  /\ busy' = busy \ {p}
  /\ closing' = [closing EXCEPT ![p] = "remove"]
  /\ Dismiss({p}, "down")
  /\ UNCHANGED <<configs, helper, call, monitor, resetting>>

\* The action "delete" leaves the intent alone.
DeleteAction(p) ==
  /\ p \in Configured
  /\ closing[p] = "no"
  /\ closing' = [closing EXCEPT ![p] = "remove"]
  /\ Asks(p, "open")
  /\ UNCHANGED <<configs, intentVars, helper, call, monitor, resetting,
                 crossed>>

\* The helper stops the tunnel, or cannot be reached.  A delete goes on.
StopTunnel(p) ==
  /\ closing[p] \in {"stop", "remove"}
  /\ closing' = [closing EXCEPT ![p] = IF @ = "stop" THEN "no" ELSE "forget"]
  /\ \/ SetHelper(p, "down") /\ UNCHANGED asked
     \/ UNCHANGED helper /\ Asks(p, "open")
  /\ UNCHANGED <<configs, intentVars, call, monitor, resetting, crossed>>

Forget(p) ==
  /\ closing[p] = "forget"
  /\ closing' = [closing EXCEPT ![p] = "no"]
  /\ configs' \in {configs, [configs EXCEPT ![p] = "absent"]}
  /\ UNCHANGED <<intentVars, helper, call, monitor, resetting, history>>

\* A profile is saved, in the place of the one of the name it replaces.
Save(p, replaced, reconnect) ==
  /\ configs' = [configs EXCEPT ![replaced] = "absent", ![p] = reconnect]
  /\ UNCHANGED <<intentVars, helper, call, monitor, requestVars, history>>

\* Every map is emptied, then the helper is told to stop everything.
Reset ==
  /\ ~resetting
  /\ wanted' = {} /\ busy' = {} /\ cached' = {} 
  /\ resetting' = TRUE
  /\ Dismiss(Profile, "reset")
  /\ UNCHANGED <<configs, helper, call, monitor, closing>>

ResetTunnels ==
  /\ resetting
  /\ resetting' = FALSE
  /\ \/ helper' = [p \in Profile |-> "down"] /\ UNCHANGED asked
     \/ UNCHANGED helper /\ asked' = [p \in Profile |-> "open"]
  /\ UNCHANGED <<configs, intentVars, call, monitor, closing, crossed>>

Request(p) ==
  \/ Connect(p) \/ Arm(p) \/ Disconnect(p) \/ DeleteProfile(p)
  \/ DeleteAction(p)
  \/ \E q \in Profile, reconnect \in Reconnecting : Save(p, q, reconnect)

Handler == (\E p \in Profile : StopTunnel(p) \/ Forget(p)) \/ ResetTunnels

-----------------------------------------------------------------------------
(* The helper *)

\* An engine connects, or ends on its own.
EngineMoves(p) ==
  /\ Live(p)
  /\ \/ helper[p] = "negotiating" /\ SetHelper(p, "connected")
     \/ SetHelper(p, "down")
  /\ UNCHANGED <<configs, intentVars, call, monitor, requestVars, history>>

\* It starts again and knows no profile any more.
HelperRestarts ==
  /\ helper' = [p \in Profile |-> "down"]
  /\ UNCHANGED <<configs, intentVars, call, monitor, requestVars, history>>

Next ==
  \/ \E c \in Call : Progress(c)
  \/ Monitor
  \/ \E p \in Profile : Request(p) \/ EngineMoves(p)
  \/ Reset
  \/ Handler
  \/ HelperRestarts

Spec == Init /\ [][Next]_vars

\* Goroutines run on; polling ends at its deadline at the latest.
Fairness ==
  /\ \A c \in Call : WF_vars(Progress(c))
  /\ WF_vars(Wake)
  /\ \A p \in Profile : WF_vars(ReadIntent(p))
  /\ WF_vars(Probe)
  /\ WF_vars(Mark)

FairSpec == Spec /\ Fairness

-----------------------------------------------------------------------------
(* Properties *)

\* A profile that was disconnected, deleted or reset while nothing was in
\* flight for it stays down until the user asks for it again: the monitor,
\* which reads the intent, asks the helper and acts in three steps, does not
\* bring it back.
DismissedStaysDown ==
  \A p \in Profile :
    asked[p] \in {"down", "reset"} /\ p \notin crossed =>
      /\ p \notin wanted
      /\ ~InFlight(p)
      /\ closing[p] = "no" /\ ~resetting => ~Live(p)

\* The mark that keeps the monitor away from a profile never outlives the
\* attempt it stands for, whatever resets and deletes have cleared meanwhile.
BusyHasCall == \A p \in busy : OpenFor(p) \cap Reconnects # {}

\* There is one reconnect attempt for a profile at a time, unless it was
\* disconnected, deleted or reset while something was in flight for it, a
\* request of the user included.
SingleReconnect ==
  \A p \in Profile : \A c, d \in OpenFor(p) \cap Reconnects : c # d => p \in crossed

\* A tunnel the user wants is tried again when it is down.
KeepsTrying ==
  \A p \in Profile :
    p \in Configured \cap wanted \cap cached /\ ~Live(p)
      ~> \/ p \notin Configured \cap wanted \cap cached
         \/ Live(p)
         \/ OpenFor(p) # {}

\* Every connect request and every reconnect attempt comes to an end.
CallsEnd == \A c \in Call : Open(c) ~> ~Open(c)

\* After a reset that went through, nothing is up and nothing is being tried
\* until the user asks again.
ResetHolds ==
  \A p \in Profile :
    asked[p] = "reset" /\ ~resetting => ~Live(p) /\ p \notin wanted

-----------------------------------------------------------------------------
(* The inductive invariant behind the first three *)

\* Only the user's handler has something to say at the end of a call, and
\* only a goroutine of the monitor has a mark to clear.
CallPlaces ==
  \A c \in Call :
    /\ call[c].pc = "intend" => c \in UserCalls
    /\ call[c].pc = "release" => c \in Reconnects

\* With no dismissal in between, a reconnect attempt is marked as long as it
\* runs, and a profile the monitor is about to try has none.
AttemptIsMarked ==
  \A p \in Profile \ crossed : OpenFor(p) \cap Reconnects # {} => p \in busy
ExaminedIsIdle ==
  \A p \in Profile \ crossed : Examines(p) => OpenFor(p) \cap Reconnects = {}

\* As DismissedStaysDown; a tunnel is already down when a delete goes on to
\* the profile's file.
DismissedIsQuiet ==
  \A p \in Profile :
    asked[p] \in {"down", "reset"} /\ p \notin crossed =>
      /\ p \notin wanted
      /\ ~InFlight(p)
      /\ closing[p] \in {"no", "forget"} /\ ~resetting => ~Live(p)

ControllerInv ==
  /\ TypeOK
  /\ CallPlaces
  /\ BusyHasCall
  /\ AttemptIsMarked
  /\ ExaminedIsIdle
  /\ SingleReconnect
  /\ DismissedIsQuiet
=============================================================================
