---------------------------- MODULE MCNetBackend ----------------------------
EXTENDS NetBackend

Profile(dev, routes, domains) ==
  [dev |-> dev, routes |-> routes, domains |-> domains]

\* Two profiles with nothing in common.
Disjoint == <<Profile("tun0", <<"lan">>, <<"corp">>),
              Profile("tun1", <<"lab">>, <<"test">>)>>

\* Two profiles that route the same network, for example the address of a DNS
\* server both of them use.
SharedRoute == <<Profile("tun0", <<"lan">>, <<>>),
                 Profile("tun1", <<"lan">>, <<>>)>>

Platforms == {"linux", "darwin", "windows"}

\* A Linux host with a route to the same network and a resolver of its own
\* link, a Windows host with a resolver rule for the same domain, a macOS host
\* with a resolver file for it.
SomeEntries ==
  [p \in Platforms |->
     CASE p = "linux"   -> {Mutation("route", "eth0", "lan"),
                            Mutation("dns", "eth0", "link")}
       [] p = "windows" -> {Mutation("dns", "host", "corp")}
       [] p = "darwin"  -> {Mutation("dns", "host", "corp")}]
NoEntries == [p \in Platforms |-> {}]

\* A host with a resolver file of its own for the same domain.
ResolverFile == [p \in Platforms |-> {Mutation("dns", "host", "corp")}]

\* The hypotheses of theorem ActiveInstalled hold of the first pair.
ASSUME DisjointIsSeparate ==
  Network = Disjoint /\ HostEntries = SomeEntries =>
    SeparateNetworks /\ DestinationsAreFree
=============================================================================
