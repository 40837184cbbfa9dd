----------------------------- MODULE NetBackend -----------------------------
(***************************************************************************)
(* netbackend under the transaction manager: what the mutations of a plan do *)
(* to the routes and the resolvers of the host on Linux, macOS and Windows,  *)
(* while tunnel interfaces come and go and while the rest of the host keeps  *)
(* entries of its own.                                                      *)
(*                                                                         *)
(* The manager's steps are those of TransactionManager; its variable effects *)
(* is what the manager may believe of the host.  The variable host is what   *)
(* the host really has.                                                     *)
(***************************************************************************)
EXTENDS TransactionManager, Sequences

CONSTANTS Platform,   \* platforms: some of "linux", "darwin" and "windows"
          Dest,       \* destinations of routes
          Domain,     \* DNS domains
          Network,    \* each transaction's tunnel, routes and domains
          HostEntries,\* what a host of each platform has of its own
          MaxSilent   \* bound on removals that fail without anyone noticing

ASSUME PlatformAssumption == Platform \subseteq {"linux", "darwin", "windows"}
ASSUME MaxSilentAssumption == MaxSilent \in Nat

ASSUME NetworkAssumption ==
  \A t \in Tx :
    Network[t].routes \in Seq(Dest) /\ Network[t].domains \in Seq(Domain)

\* The host's own entries are on other devices than the tunnels.
ASSUME HostEntriesAssumption ==
  \A p \in Platform, t \in Tx : \A e \in HostEntries[p] : e.dev # Network[t].dev

VARIABLES
  platform,\* the platform of the build
  host,    \* the routes and resolvers of the host
  link,    \* the tunnel interface of each transaction's engine
  silent,  \* removals that failed unnoticed so far
  left     \* history: the entries such a removal has left behind

netVars == <<platform, host, link, silent, left>>
allVars == <<vars, netVars>>

OwnEntries == HostEntries[platform]

-----------------------------------------------------------------------------
(* Plans *)

Mutation(kind, dev, key) == [kind |-> kind, dev |-> dev, key |-> key]
Each(kind, dev, keys) == [i \in DOMAIN keys |-> Mutation(kind, dev, keys[i])]

\* The routes come deduplicated and sorted, the domains in the profile's order.
BuildNetworkPlan(n) ==
  <<Mutation("process", n.dev, "engine"), Mutation("interface", n.dev, n.dev)>>
    \o Each("route", n.dev, n.routes) \o Each("dns", n.dev, n.domains)

PlanOf == [t \in Tx |-> BuildNetworkPlan(Network[t])]
MutationOf(c) == PlanOf[c[1]][c[2]]
Devices == {Network[t].dev : t \in Tx}

\* Processes and interfaces are in the plan and belong to the engine.
Owned(m) == m.kind \in {"route", "dns"}

\* Mutant: the interface is left out of the resolvectl command.
EntryOfNoLink(m) ==
  IF m.kind = "dns" THEN [m EXCEPT !.key = "link", !.dev = "global"] ELSE m

\* The place of a mutation on the host.  resolvectl sets the servers of the
\* link; the domain is not part of the command.
Entry(m) ==
  IF platform = "linux" /\ m.kind = "dns" THEN [m EXCEPT !.key = "link"] ELSE m

SamePlace(e, f) == e.kind = f.kind /\ e.key = f.key

-----------------------------------------------------------------------------
(* The commands of the three platforms *)

Replace(table, e) == {f \in table : ~SamePlace(e, f)} \cup {e}

\* "ip route replace" takes the place of what was there.
LinuxAdd(table, e) ==
  IF e.kind = "route" THEN Replace(table, e) ELSE table \cup {e}

\* "route add" leaves an existing destination alone and says so on its output
\* only.  The resolver file is written over.
DarwinAdd(table, e) ==
  IF e.kind = "route" /\ \E f \in table : SamePlace(e, f)
  THEN table ELSE Replace(table, e)

\* A row for each interface, and a rule for each call.
WindowsAdd(table, e) == table \cup {e}

Add(table, m) ==
  CASE platform = "linux"   -> LinuxAdd(table, Entry(m))
    [] platform = "darwin"  -> DarwinAdd(table, Entry(m))
    [] platform = "windows" -> WindowsAdd(table, Entry(m))

\* What a removal takes away: the route of the device and everything
\* resolvectl has set on the link;
LinuxRemoves(f, e) == e = f

\* whatever route goes to the destination, and the file of the domain;
DarwinRemoves(f, e) == SamePlace(e, f)

\* the row of the interface, and the rules of the domain that carry the
\* program's comment.
WindowsRemoves(f, e) ==
  \/ e.kind = "route" /\ e = f
  \/ e.kind = "dns" /\ SamePlace(e, f) /\ f.dev \in Devices

\* Mutant: the Linux router deletes by destination alone, without "dev".
RemovesByKey(f, m) == SamePlace(Entry(m), f)

Removes(f, m) ==
  \/ platform = "linux" /\ LinuxRemoves(f, Entry(m))
  \/ platform = "darwin" /\ DarwinRemoves(f, Entry(m))
  \/ platform = "windows" /\ WindowsRemoves(f, Entry(m))

\* Routes, and on Linux the servers of a link, live and die with the device.
NeedsLink(m) ==
  m.kind = "route" \/ (platform = "linux" /\ m.kind = "dns")

Up(dev) == \E t \in Tx : link[t] = "up" /\ Network[t].dev = dev

-----------------------------------------------------------------------------
NetInit ==
  /\ Init
  /\ platform \in Platform
  /\ host = OwnEntries
  /\ link = [t \in Tx |-> "none"]
  /\ silent = 0
  /\ left = {}

\* A profile's network is set up after its engine has reported the interface.
NetBegin(t) ==
  /\ link[t] # "none"
  /\ Begin(t)
  /\ pc'[t] = "append" => planLen'[t] = Len(PlanOf[t])
  /\ UNCHANGED netVars

\* Mutant: a DNS mutation is taken for one that needs no work.
ApplyRoutesOnly(t) ==
  /\ ApplyMutation(t)
  /\ host' = IF PlanOf[t][at[t]].kind = "route"
             THEN Add(host, PlanOf[t][at[t]]) ELSE host
  /\ UNCHANGED <<platform, link, silent, left>>

\* Apply runs one command.  It cannot succeed on a device that is gone, and
\* does nothing, without an error, for processes and interfaces.
NetApply(t) ==
  LET m == PlanOf[t][at[t]]
      made == <<t, at[t]>> \in effects'
  IN  /\ ApplyMutation(t)
      /\ ~Owned(m) => pc'[t] = "applied"
      /\ made /\ NeedsLink(m) => Up(m.dev)
      /\ host' = IF made /\ Owned(m) THEN Add(host, m) ELSE host
      /\ left' = IF made /\ Owned(m) THEN left \ {Entry(m)} ELSE left
      /\ UNCHANGED <<platform, link, silent>>

\* Mutant: Undo recognises no mutation kind.
UndoNothing(t) ==
  /\ UndoMutation(t)
  /\ pc'[t] = "undone"
  /\ UNCHANGED netVars

\* Undo runs the removing command and drops its error: it always succeeds,
\* and when the command has not the entry stays.
NetUndo(t) ==
  LET m == PlanOf[t][at[t]]
  IN  /\ UndoMutation(t)
      /\ pc'[t] = "undone"
      /\ \/ /\ host' = IF Owned(m) THEN {f \in host : ~Removes(f, m)} ELSE host
            /\ UNCHANGED <<silent, left>>
         \/ /\ Owned(m)
            /\ silent < MaxSilent
            /\ silent' = silent + 1
            /\ left' = left \cup {Entry(m)}
            /\ UNCHANGED host
      /\ UNCHANGED <<platform, link>>

\* The engine creates its tunnel interface, under a name no other has now.
LinkUp(t) ==
  /\ link[t] = "none"
  /\ ~Up(Network[t].dev)
  /\ link' = [link EXCEPT ![t] = "up"]
  /\ UNCHANGED <<vars, platform, host, silent, left>>

\* The engine is gone and its interface with it.
LinkDown(t) ==
  /\ link[t] = "up"
  /\ link' = [link EXCEPT ![t] = "gone"]
  /\ host' = {e \in host : e.dev # Network[t].dev \/ ~NeedsLink(e)}
  /\ UNCHANGED <<vars, platform, silent, left>>

\* The steps of the manager that run no command.
Bookkeeping ==
  \/ \E t \in Tx :
       \/ JournalPending(t) \/ JournalApplied(t) \/ JournalFailed(t)
       \/ MarkActive(t) \/ Deactivate(t)
       \/ StartRollback(t) \/ SkipMutation(t) \/ JournalUndone(t)
       \/ CloseTransaction(t)
  \/ Crash \/ Start \/ Recover

NetNext ==
  \/ \E t \in Tx :
       NetBegin(t) \/ NetApply(t) \/ NetUndo(t) \/ LinkUp(t) \/ LinkDown(t)
  \/ Bookkeeping /\ UNCHANGED netVars

NetSpec == NetInit /\ [][NetNext]_allVars

-----------------------------------------------------------------------------
(* Properties *)

Entries(dev) == {e \in host : e.dev = dev}

NetTypeOK ==
  /\ TypeOK
  /\ platform \in Platform
  /\ \A e \in host : e.dev \in Devices \/ e \in OwnEntries
  /\ link \in [Tx -> {"none", "up", "gone"}]
  /\ silent \in 0..MaxSilent
  /\ \A e \in left : e.dev \in Devices

\* Concurrent profiles are independent: while a profile is active and its
\* tunnel is up, every route and resolver of its plan is on the host, whatever
\* the other profiles, recoveries and interfaces do.
InstalledFully(t) ==
  \A i \in DOMAIN PlanOf[t] :
    Owned(PlanOf[t][i]) => Entry(PlanOf[t][i]) \in host
ActiveIsInstalled ==
  \A t \in Tx : pc[t] = "active" /\ link[t] = "up" => InstalledFully(t)

\* Whatever the program has put on the host and is still there is claimed by
\* a record on disk, so that a later recovery will take it away, except for
\* what a removal has left that failed without a word; and of that a route, and
\* on Linux a resolver, stays no longer than its tunnel.
HostIsAccounted ==
  \A e \in host :
    \/ e \in OwnEntries
    \/ \E c \in Claimed : Owned(MutationOf(c)) /\ Entry(MutationOf(c)) = e
    \/ e \in left /\ (NeedsLink(e) => Up(e.dev))

\* Recovery takes away what a record claims: an entry the host has of its own
\* goes only on macOS, and only where a journaled mutation has its place.
RecoveryTakesClaimed ==
  [][mode = "recovering" =>
       \A e \in (host \cap OwnEntries) \ host' :
         /\ platform = "darwin"
         /\ \E c \in Claimed :
              Owned(MutationOf(c)) /\ SamePlace(Entry(MutationOf(c)), e)]_allVars

\* What the repository's README says of recovery: it removes only resources
\* whose ownership can be verified, and so none that is the host's own.
RecoverySparesOthers ==
  [][mode = "recovering" => host \cap OwnEntries \subseteq host']_allVars

-----------------------------------------------------------------------------
(* The inductive invariant behind HostIsAccounted and RecoveryTakesClaimed *)

\* Every entry of a tunnel comes from a mutation that was made and not undone,
\* or undone without effect.
HostIsExplained ==
  \A e \in host :
    \/ e \in OwnEntries
    \/ e \in left
    \/ /\ e.dev \in Devices
       /\ \E c \in effects : Owned(MutationOf(c)) /\ Entry(MutationOf(c)) = e

\* What lives and dies with a device is on one that is up.
LinksCarry ==
  /\ link \in [Tx -> {"none", "up", "gone"}]
  /\ \A e \in host : e \in OwnEntries \/ (NeedsLink(e) => Up(e.dev))

\* What a rollback has yet to undo during recovery is what the file says.
RecoveryFollowsFile ==
  \A t \in Tx, i \in Index :
    /\ mode = "recovering"
    /\ pc[t] \in RollbackSteps
    /\ memory[t].mut[i] \in Undoable
    => Covered(<<t, i>>)

\* Activate walks the plan that was built for the transaction.
PlanIsWalked ==
  \A t \in Tx : pc[t] \in {"append", "apply", "applied"} => planLen[t] = Len(PlanOf[t])

\* Positions beyond the plan are never reached.
PlanIsBound ==
  \A t \in Tx, i \in Index :
    i > Len(PlanOf[t]) => journal[t].mut[i] = "none" /\ memory[t].mut[i] = "none"

NetInv ==
  /\ HostIsExplained
  /\ LinksCarry
  /\ RecoveryFollowsFile
  /\ PlanIsWalked
  /\ PlanIsBound
  /\ platform \in Platform
  /\ silent \in 0..MaxSilent

-----------------------------------------------------------------------------
(* The inductive invariant behind ActiveIsInstalled, for networks that have  *)
(* nothing in common                                                        *)

Keys(seq) == {seq[i] : i \in DOMAIN seq}

\* Two profiles do not meet on the host: a row of the Windows table belongs to
\* its interface, and so do the servers of a Linux link.
Separate(m, n) ==
  /\ m.dev # n.dev
  /\ Platform \subseteq {"windows"} \/ Keys(m.routes) \cap Keys(n.routes) = {}
  /\ Platform \subseteq {"linux"} \/ Keys(m.domains) \cap Keys(n.domains) = {}
SeparateNetworks == \A t, u \in Tx : t # u => Separate(Network[t], Network[u])

\* "route add" of macOS does not replace a route the host has of its own.
DestinationsAreFree ==
  "darwin" \in Platform =>
    \A t \in Tx, e \in HostEntries["darwin"] :
      e.kind = "route" => e.key \notin Keys(Network[t].routes)

\* Whatever stands on the host is the host's own or in somebody's plan.
HostIsPlanned ==
  \A e \in host :
    \/ e \in OwnEntries
    \/ \E t \in Tx, i \in Index :
         /\ i <= Len(PlanOf[t])
         /\ Owned(PlanOf[t][i])
         /\ e = Entry(PlanOf[t][i])

\* A transaction begins when the interface is there, and an interface that has
\* gone does not come back.
LinkCameFirst ==
  /\ link \in [Tx -> {"none", "up", "gone"}]
  /\ \A t \in Tx : pc[t] # "unused" => link[t] # "none"

\* The positions of the plan that Activate has behind it.
Behind(t, i) ==
  \/ pc[t] = "active"
  \/ pc[t] \in {"append", "apply", "applied"} /\ i < at[t]
  \/ pc[t] = "applied" /\ i = at[t]

InstalledSoFar ==
  \A t \in Tx, i \in Index :
    /\ link[t] = "up"
    /\ i <= Len(PlanOf[t])
    /\ Behind(t, i)
    /\ Owned(PlanOf[t][i])
    => Entry(PlanOf[t][i]) \in host

InstalledInv ==
  /\ HostIsPlanned
  /\ LinkCameFirst
  /\ InstalledSoFar
  /\ PlanIsWalked
  /\ PlanIsBound
  /\ \A t \in Tx : pc[t] = "active" => Len(PlanOf[t]) <= MaxLen
  /\ platform \in Platform
=============================================================================
