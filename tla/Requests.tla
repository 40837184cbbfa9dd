------------------------------ MODULE Requests ------------------------------
(***************************************************************************)
(* From a saved profile to a request the helper takes: what nativeFortiConnect *)
(* and its three sisters build (native_*_unix.go, native_common.go), what      *)
(* fortihelper.Request.Validate demands of it, on both sides of the socket,    *)
(* and what the controller says about the routes of all profiles (parseFlows   *)
(* and handleRouteCheckAPI).                                                 *)
(*                                                                         *)
(* Addresses are rows of Bits bits and a route is a network with a prefix      *)
(* length, which a profile may write with host bits.  Texts are "", "good" or  *)
(* "bad"; "bad" is too long, has a line break or does not fit its pattern.     *)
(***************************************************************************)
EXTENDS OpenVPNConfig, FiniteSets, FiniteSetsExt

CONSTANTS Bits,        \* bits of an address (32 in the code)
          MaxRoutes,   \* limit on the routes of a request (64 in the code)
          MaxDomains,  \* limit on its domains (32 in the code)
          MaxServers,  \* limit on its DNS servers (8 in the code)
          Malformed,   \* a text that is no IPv4 address or network
          Files        \* the profile files to look at

ASSUME BitsAssumption == Bits \in Nat \ {0}
ASSUME LimitsAssumption == MaxRoutes \in Nat /\ MaxDomains \in Nat /\ MaxServers \in Nat

VARIABLES
  configs,    \* the profiles, in the order of the file
  asked,      \* the profile that was asked to connect, by its place
  outcome,    \* what has become of it
  request     \* the request that was sent

vars == <<configs, asked, outcome, request>>

-----------------------------------------------------------------------------
Address == [1..Bits -> {0, 1}]
Cidr == [base : Address, prefix : 0..Bits]
NoRequest == [routes |-> <<>>]

ASSUME MalformedAssumption == Malformed \notin Address \cup Cidr
ASSUME GatewaysAssumption == {"good", "bad"} \subseteq Words

\* What a profile may be: texts of three sorts, lines of any kind.  phase1 and
\* phase2 are the ciphers of IKE and those of each ESP proposal; a number is
\* zero, below the default, good, or above what the helper takes.
Text == {"", "good", "bad"}
Types == {"openfortivpn", "openconnect", "openvpn", "ipsec"}
Number == {"unset", "low", "good", "high"}
Timing == {"DPDDelay", "DPDTimeout", "IKELifetime", "ChildLifetime", "ReplayWindow"}
Suite == [encryptions : Seq(STRING), integrities : Seq(STRING)]
IPsec ==
  [version : Nat, auth : STRING, psk : Text, localID : Text, remoteID : Text,
   fragmentation : STRING, dpdAction : STRING, timing : [Timing -> Number],
   phase1 : Suite, phase2 : Seq(Suite) \ {<<>>}, prfs : Seq(STRING),
   groups : Seq(STRING), pfs : BOOLEAN, pfsGroups : Seq(STRING)]

\* networks are those in the text of the routes when spaces separate as well:
\* what parseFlows finds in a text that parseRoutes does not take.
Config ==
  [type : Types, host : Text, port : Text, user : Text, password : Text,
   browser : BOOLEAN, routes : Seq(Cidr \cup {Malformed}), networks : Seq(Cidr),
   domains : Seq(Text), servers : Seq(Address \cup {Malformed}), lines : Seq(Line),
   ipsec : IPsec]

ASSUME FilesAssumption == \A file \in Files : file \in Seq(Config)

\* net.ParseCIDR and the address masked by the prefix.
Mask(cidr) ==
  [base |-> [bit \in 1..Bits |-> IF bit <= cidr.prefix THEN cidr.base[bit] ELSE 0],
   prefix |-> cidr.prefix]
Covers(cidr, address) == Mask([base |-> address, prefix |-> cidr.prefix]) = Mask(cidr)
Whole(cidr) == cidr.prefix = 0
Host(address) == [base |-> address, prefix |-> Bits]

-----------------------------------------------------------------------------
(* parseRoutes, nativeSplitDNS and withDNSServerRoutes *)

ParsesRoutes(routes) == routes # <<>> /\ \A i \in DOMAIN routes : routes[i] # Malformed
ParseRoutes(routes) == [i \in DOMAIN routes |-> Mask(routes[i])]

\* Mutant: a server's route is added whether it is there or not.
AddAgain(routes, server) ==
  Append(routes, IF server = Malformed THEN Malformed ELSE Host(server))

\* A server becomes a route of its own, once; one that is no IPv4 address makes
\* a route that is none.
AddServer(routes, server) ==
  LET route == IF server = Malformed THEN Malformed ELSE Host(server)
  IN  IF \E i \in DOMAIN routes : routes[i] = route THEN routes
      ELSE Append(routes, route)

\* Mutant: the servers are reached without routes.
WithoutServers(routes, servers) == routes

WithServers(routes, servers) == FoldLeft(AddServer, routes, servers)

-----------------------------------------------------------------------------
(* buildProposals: a proposal is its parts in their order *)

\* Ciphers that authenticate by themselves take no integrity algorithm.
Aead == {"aes256gcm16"}
OneOf(seq) == IF seq = <<>> THEN {<<>>} ELSE {<<part>> : part \in ToSet(seq)}

\* tokens: a name with a character that no algorithm has ends it, needed or not.
Broken == {"sha.256"}
Readable(names) == ToSet(names) \cap Broken = {}

BuildsProposals(suite, prfs, groups) ==
  /\ Readable(suite.encryptions) /\ Readable(suite.integrities)
  /\ Readable(prfs) /\ Readable(groups)
  /\ suite.encryptions # <<>>
  /\ suite.integrities = <<>> => ToSet(suite.encryptions) \subseteq Aead

BuildProposals(suite, prfs, groups) ==
  UNION {{<<enc>> \o auth \o prf \o group :
            auth \in IF enc \in Aead THEN {<<>>} ELSE OneOf(suite.integrities),
            prf \in OneOf(prfs), group \in OneOf(groups)} :
         enc \in ToSet(suite.encryptions)}

\* The pattern of the helper has no capital letters, that of the controller has.
Capital == {"AES256", "SHA256", "PRFSHA256", "MODP2048"}
ValidProposals(proposals) ==
  \A proposal \in proposals : ToSet(proposal) \cap Capital = {}

\* The names that go into the proposals: version 1 knows no PRF.
UsedPRFs(ip) == IF ip.version = 1 THEN <<>> ELSE ip.prfs
UsedGroups(ip) == IF ip.pfs THEN ip.pfsGroups ELSE <<>>

BuildsIPsec(ip) ==
  /\ BuildsProposals(ip.phase1, UsedPRFs(ip), ip.groups)
  /\ \A suite \in ToSet(ip.phase2) : BuildsProposals(suite, <<>>, UsedGroups(ip))

\* max(settings.X, default), and what stands for an empty text.
Raised(value) == IF value \in {"unset", "low"} THEN "good" ELSE value
Filled(text, default) == IF text = "" THEN default ELSE text

\* Version 1 knows no EAP.
IPsecRequest(ip) ==
  [version |-> ip.version,
   auth |-> IF ip.version = 1 /\ ip.auth = "eap" THEN "xauth" ELSE ip.auth,
   psk |-> ip.psk, localID |-> ip.localID, remoteID |-> ip.remoteID,
   fragmentation |-> Filled(ip.fragmentation, "yes"),
   dpdAction |-> Filled(ip.dpdAction, "restart"),
   timing |-> [t \in Timing |-> Raised(ip.timing[t])],
   ike |-> BuildProposals(ip.phase1, UsedPRFs(ip), ip.groups),
   esp |-> UNION {BuildProposals(suite, <<>>, UsedGroups(ip)) : suite \in ToSet(ip.phase2)}]

-----------------------------------------------------------------------------
(* native*Connect *)

\* The text of an OpenVPN profile with its gateway, when the profile has one.
Overridden(config) ==
  IF config.host = "" THEN config.lines ELSE OverrideRemote(config.host, config.lines)

\* The errors before a request is there; the certificate of the gateway is.
Builds(config) ==
  /\ ParsesRoutes(config.routes)
  /\ config.type \in {"openfortivpn", "openconnect"} => config.port # ""
  /\ config.type = "openvpn" => Sanitizes(Overridden(config))
  /\ config.type = "ipsec" => BuildsIPsec(config.ipsec)

\* A field another type of profile has is left empty; openConnectProtocol has
\* made sure of the gateway protocol before.
Build(config) ==
  [protocol |-> config.type, host |-> config.host, user |-> config.user,
   password |-> config.password, domains |-> config.domains, servers |-> config.servers,
   routes |-> WithServers(ParseRoutes(config.routes), config.servers),
   port |-> IF config.type \in {"openfortivpn", "openconnect"} THEN config.port ELSE "",
   browser |-> config.type = "openconnect" /\ config.browser,
   lines |-> IF config.type = "openvpn" THEN Sanitize(Overridden(config)) ELSE <<>>,
   ipsec |-> IF config.type = "ipsec" THEN IPsecRequest(config.ipsec) ELSE <<>>]

-----------------------------------------------------------------------------
(* Request.Validate *)

ValidRoutes(r) ==
  /\ Len(r.routes) \in 1..MaxRoutes
  /\ \A i \in DOMAIN r.routes :
       /\ r.routes[i] # Malformed
       /\ ~Whole(r.routes[i])
       /\ Mask(r.routes[i]) = r.routes[i]
       /\ \A j \in 1..(i - 1) : r.routes[j] # r.routes[i]

\* validateSplitDNS
ValidSplitDNS(r) ==
  /\ r.domains = <<>> <=> r.servers = <<>>
  /\ Len(r.domains) <= MaxDomains /\ Len(r.servers) <= MaxServers
  /\ \A i \in DOMAIN r.domains : r.domains[i] = "good"
  /\ \A i \in DOMAIN r.servers : r.servers[i] # Malformed

\* validateFortiGateStart and validateOpenConnectStart: who signs in with a
\* browser needs no user and no password.
ValidGateway(r) ==
  LET optional == IF r.protocol = "openconnect" /\ r.browser THEN {""} ELSE {}
  IN  /\ r.host = "good"
      /\ r.port = "good"
      /\ {r.user, r.password} \subseteq {"good"} \cup optional

\* validateOpenVPNStart; the host is in the configuration.
ValidOpenVPN(r) ==
  /\ Sanitizes(r.lines)
  /\ r.user # "bad" /\ r.password # "bad"
  /\ r.user = "" <=> r.password = ""

\* validateIPSecStart; only the DPD delay and timeout may be zero.
ValidIPsec(r) ==
  /\ r.host = "good"
  /\ r.ipsec.version \in {1, 2}
  /\ r.ipsec.auth \in {"none", "xauth", "eap"}
  /\ r.ipsec.version = 1 => r.ipsec.auth # "eap"
  /\ r.ipsec.psk = "good"
  /\ r.ipsec.auth # "none" => r.user # "" /\ r.password # ""
  /\ {r.user, r.password, r.ipsec.localID, r.ipsec.remoteID} \subseteq Text \ {"bad"}
  /\ ValidProposals(r.ipsec.ike) /\ ValidProposals(r.ipsec.esp)
  /\ r.ipsec.fragmentation \in {"yes", "no", "accept"}
  /\ r.ipsec.dpdAction \in {"none", "clear", "hold", "restart"}
  /\ \A t \in Timing :
       /\ r.ipsec.timing[t] \notin {"low", "high"}
       /\ r.ipsec.timing[t] = "unset" => t \in {"DPDDelay", "DPDTimeout"}

Valid(r) ==
  /\ CASE r.protocol \in {"openfortivpn", "openconnect"} -> ValidGateway(r)
       [] r.protocol = "openvpn" -> ValidOpenVPN(r)
       [] r.protocol = "ipsec" -> ValidIPsec(r)
  /\ ValidRoutes(r)
  /\ ValidSplitDNS(r)

-----------------------------------------------------------------------------
(* What the controller says about the routes *)

\* Mutant: the last route that contains the address.
LastRoute(best, route) == route

\* The longest of the routes of all profiles that contain an address, the first
\* of them when there are several.
Better(best, route) == IF route.prefix > best.prefix THEN route ELSE best

RoutesOf(i, list) ==
  [j \in DOMAIN list |-> [profile |-> i, prefix |-> list[j].prefix, base |-> list[j].base]]
Listed(lists) ==
  FoldLeft(LAMBDA all, i : all \o RoutesOf(i, lists[i]), <<>>, [i \in DOMAIN configs |-> i])
Hits(list, address) ==
  FoldLeft(LAMBDA hits, route : IF Covers(route, address) THEN Append(hits, route) ELSE hits,
           <<>>, list)

\* parseFlows splits the routes at spaces too and skips what is no network.
FlowRoutes ==
  [i \in DOMAIN configs |->
     IF ParsesRoutes(configs[i].routes) THEN configs[i].routes ELSE configs[i].networks]

\* parseFlows: the profile a connection to the address is shown under.
FlowProfile(address) ==
  FoldLeft(Better, [profile |-> 0, prefix |-> 0 - 1],
           Hits(Listed(FlowRoutes), address)).profile

\* handleRouteCheckAPI leaves out the profiles whose routes do not parse; a
\* network that is masked contains what it did.
CheckedRoutes ==
  [i \in DOMAIN configs |->
     IF ParsesRoutes(configs[i].routes) THEN configs[i].routes ELSE <<>>]

\* handleRouteCheckAPI: two matches share the longest prefix.
Conflict(address) ==
  LET hits == Hits(Listed(CheckedRoutes), address)
      longest == {i \in DOMAIN hits :
                    \A j \in DOMAIN hits : hits[j].prefix <= hits[i].prefix}
  IN  Cardinality(longest) > 1
-----------------------------------------------------------------------------
Init ==
  /\ configs \in Files
  /\ asked = 0
  /\ outcome = "none"
  /\ request = NoRequest

\* connectVPNWithFailover of one profile, up to the answer of the helper, which
\* validates what the controller has validated.
Connect(i) ==
  /\ asked = 0
  /\ asked' = i
  /\ \/ ~Builds(configs[i]) /\ outcome' = "invalid" /\ request' = NoRequest
     \/ /\ Builds(configs[i])
        /\ outcome' = IF Valid(Build(configs[i])) THEN "accepted" ELSE "refused"
        /\ request' = Build(configs[i])
  /\ UNCHANGED configs

\* The next request.
Return == asked # 0 /\ asked' = 0 /\ outcome' = "none" /\ request' = NoRequest /\ UNCHANGED configs

Next == Return \/ \E i \in DOMAIN configs : Connect(i)

Spec == Init /\ [][Next]_vars

-----------------------------------------------------------------------------
(* Properties *)

\* What the properties rest on: the answer is that to the profile that was asked
\* for, and what has been accepted is what was built from it.
Answered ==
  /\ configs \in Files
  /\ asked # 0 =>
       /\ asked \in DOMAIN configs
       /\ outcome = "accepted" <=> Builds(configs[asked]) /\ Valid(Build(configs[asked]))
  /\ outcome = "accepted" => asked # 0 /\ request = Build(configs[asked])

\* What a user can be told about a profile that connects.
Networks(config) ==
  {Mask(config.routes[i]) : i \in DOMAIN config.routes}
    \cup {Host(config.servers[i]) : i \in DOMAIN config.servers}

SoundRoutes(config) ==
  /\ config.routes # <<>>
  /\ \A i \in DOMAIN config.routes : config.routes[i] # Malformed /\ ~Whole(config.routes[i])
  /\ \A i, j \in DOMAIN config.routes :
       Mask(config.routes[i]) = Mask(config.routes[j]) => i = j
  /\ \A i \in DOMAIN config.servers : config.servers[i] # Malformed
  /\ \A i \in DOMAIN config.domains : config.domains[i] = "good"
  /\ config.domains = <<>> <=> config.servers = <<>>
  /\ Len(config.domains) <= MaxDomains /\ Len(config.servers) <= MaxServers
  /\ Cardinality(Networks(config)) <= MaxRoutes

\* What is unset or too low is no fault.
SoundOptions(ip) ==
  /\ ip.localID # "bad" /\ ip.remoteID # "bad"
  /\ ip.fragmentation \in {"", "yes", "no", "accept"}
  /\ ip.dpdAction \in {"", "none", "clear", "hold", "restart"}
  /\ \A t \in Timing : ip.timing[t] # "high"

SoundCredentials(config) ==
  /\ config.user # "bad" /\ config.password # "bad"
  /\ config.type \in {"openfortivpn", "openconnect"} =>
       /\ config.host = "good" /\ config.port = "good"
       /\ \/ config.user = "good" /\ config.password = "good"
          \/ config.type = "openconnect" /\ config.browser
  /\ config.type = "openvpn" => (config.user = "" <=> config.password = "")
  /\ config.type = "ipsec" =>
       /\ config.host = "good"
       /\ config.ipsec.psk = "good"
       /\ config.ipsec.auth \in {"none", "xauth", "eap"}
       /\ config.ipsec.auth = "none" \/ (config.user # "" /\ config.password # "")
       /\ SoundOptions(config.ipsec)

\* Each cipher has what it needs, what is used is in small letters, and what is
\* not used can still be read.
SoundNames(names) == Readable(names) /\ ToSet(names) \cap Capital = {}
SoundSuite(suite) ==
  /\ suite.encryptions # <<>>
  /\ SoundNames(suite.encryptions) /\ Readable(suite.integrities)
  /\ \/ ToSet(suite.encryptions) \subseteq Aead
     \/ suite.integrities # <<>> /\ SoundNames(suite.integrities)
SoundCiphers(ip) ==
  /\ ip.version \in {1, 2}
  /\ \A suite \in {ip.phase1} \cup ToSet(ip.phase2) : SoundSuite(suite)
  /\ ip.version = 1 \/ SoundNames(ip.prfs)
  /\ SoundNames(ip.groups)
  /\ ip.pfs => SoundNames(ip.pfsGroups)

\* Once sanitized a text is longer by three lines than what has been kept.
SoundText(config) ==
  /\ Sanitizes(Overridden(config))
  /\ Len(Scanned(Overridden(config)).result) + 3 <= MaxLines

\* A profile connects if and only if nothing is wrong with it: what the
\* controller builds from a sound profile is never refused, whatever servers
\* repeat, routes of other lengths overlap and defaults are filled in, and an
\* unsound one never reaches the engine.
AcceptedIffSound ==
  asked # 0 =>
    LET config == configs[asked]
    IN  outcome = "accepted" <=>
          /\ SoundRoutes(config)
          /\ SoundCredentials(config)
          /\ config.type = "ipsec" => SoundCiphers(config.ipsec)
          /\ config.type = "openvpn" => SoundText(config)

\* The DNS servers of an accepted request are reached through the tunnel.
ServersAreRouted ==
  outcome = "accepted" =>
    \A i \in DOMAIN request.servers :
      \E j \in DOMAIN request.routes : Covers(request.routes[j], request.servers[i])

\* The text that reaches the engine, sanitized once more by the helper, has in
\* front of the helper's settings none of the directives that were to go, and no
\* more than the controller has sent; it names the gateway of the profile and no
\* other, unless the profile has none or its own text has the word in an inline
\* block or with dashes.
EngineTextIsTame ==
  outcome = "accepted" /\ request.protocol = "openvpn" =>
    LET config == configs[asked]
        text == Sanitize(request.lines)
        front == SubSeq(text, 1, Len(text) - 3)
    IN  /\ \A i \in Directives(front) : front[i].name \notin Rejected \cup Removed
        /\ ToSet(text) = ToSet(request.lines)
        /\ \/ config.host = ""
           \/ \E i \in DOMAIN config.lines :
                \/ InBlock(config.lines, i) /\ IsRemote(config.lines[i])
                \/ i \in Gateways(config.lines) /\ ~IsRemote(config.lines[i])
           \/ \E i \in Gateways(text) :
                Gateways(text) = {i} /\ text[i] = Remote(config.host)

\* Where no conflict is reported, a connection is shown under the profile whose
\* tunnel the kernel sends it to when all sound profiles are connected: that
\* with the longest installed route.  Addresses of DNS servers apart, whose
\* routes neither of the two views knows.
Installed(i) == ToSet(Build(configs[i]).routes)
FlowsFollowRoutes ==
  (\A i \in DOMAIN configs : SoundRoutes(configs[i])) =>
    \A address \in Address :
      LET hits == {hit \in UNION {{i} \X Installed(i) : i \in DOMAIN configs} :
                     Covers(hit[2], address)}
          longest == {hit \in hits : \A other \in hits : other[2].prefix <= hit[2].prefix}
          servers == UNION {ToSet(configs[i].servers) : i \in DOMAIN configs}
      IN  ~Conflict(address) /\ address \notin servers =>
            {hit[1] : hit \in longest} =
              IF FlowProfile(address) = 0 THEN {} ELSE {FlowProfile(address)}
=============================================================================
