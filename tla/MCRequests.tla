----------------------------- MODULE MCRequests -----------------------------
EXTENDS Requests

\* A profile with nothing wrong, of each type.
Route(base, prefix) == [base |-> base, prefix |-> prefix]
GoodSuite == [encryptions |-> <<"aes256">>, integrities |-> <<"sha256">>]
GoodIPsec ==
  [version |-> 2, auth |-> "eap", psk |-> "good", localID |-> "", remoteID |-> "",
   fragmentation |-> "", dpdAction |-> "", timing |-> [t \in Timing |-> "unset"],
   phase1 |-> GoodSuite, phase2 |-> <<GoodSuite>>, prfs |-> <<"prfsha256">>,
   groups |-> <<"modp2048">>, pfs |-> TRUE, pfsGroups |-> <<"modp2048">>]
Good(type) ==
  [type |-> type, host |-> "good", port |-> "good", user |-> "good",
   password |-> "good", browser |-> FALSE, routes |-> <<Route(<<0, 0>>, 2)>>,
   networks |-> <<>>, domains |-> <<>>, servers |-> <<>>,
   lines |-> <<Remote("old")>>, ipsec |-> GoodIPsec]

UpTo(n, S) == UNION {[1..k -> S] : k \in 0..n}

\* Routes and DNS servers of one profile; host bits, repetitions, the whole
\* address space and malformed ones included.
Cidrs == {Route(base, prefix) : base \in Address, prefix \in 0..Bits}
ByRoutes ==
  {[Good("openfortivpn") EXCEPT !.routes = routes, !.domains = domains,
                                !.servers = servers] :
     routes \in UpTo(2, {Route(<<0, 0>>, 0), Route(<<1, 0>>, 1), Route(<<1, 1>>, 1),
                           Route(<<0, 0>>, 2), Route(<<1, 1>>, 2), Malformed}),
     domains \in {<<>>, <<"good">>, <<"bad">>, <<"good", "good">>},
     servers \in UpTo(3, {<<0, 0>>, <<1, 1>>, Malformed})}

\* Credentials and ports of each type.
ByCredentials ==
  {[Good(type) EXCEPT !.host = host, !.port = port, !.user = user, !.password = password,
                      !.browser = browser] :
     type \in Types, browser \in BOOLEAN, host \in Text, port \in Text, user \in Text,
     password \in Text}

\* Settings of IPsec one by one, and what its proposals are built from.
Suites ==
  [encryptions : UpTo(1, {"aes256gcm16", "AES256", "sha.256"})
                   \cup {<<"aes256">>, <<"aes256gcm16", "aes256">>},
   integrities : UpTo(1, {"sha256", "SHA256", "sha.256"})]
ByIPsec ==
  {[Good("ipsec") EXCEPT !.user = user,
      !.ipsec = [GoodIPsec EXCEPT !.version = version, !.auth = auth, !.psk = psk,
                                  !.localID = localID, !.remoteID = remoteID]] :
     user \in {"", "good"}, version \in 0..3, auth \in {"", "none", "xauth", "eap"},
     psk \in {"", "good"}, localID \in Text, remoteID \in Text}
ByOptions ==
  {[Good("ipsec") EXCEPT
      !.ipsec = [GoodIPsec EXCEPT !.fragmentation = fragmentation, !.dpdAction = dpdAction,
                                  !.timing = timing]] :
     fragmentation \in {"", "yes", "force"}, dpdAction \in {"", "hold", "trap"},
     timing \in {[t \in Timing |-> IF t \in some THEN number ELSE "unset"] :
                   some \in SUBSET Timing, number \in Number}}
ByCiphers ==
  {[Good("ipsec") EXCEPT
      !.ipsec = [GoodIPsec EXCEPT !.version = version, !.phase1 = phase1, !.prfs = prfs,
                                  !.groups = groups]] :
     version \in {1, 2}, phase1 \in Suites, prfs \in UpTo(1, {"PRFSHA256", "sha.256"}),
     groups \in UpTo(1, {"MODP2048", "sha.256"})}
  \cup
  {[Good("ipsec") EXCEPT
      !.ipsec = [GoodIPsec EXCEPT !.phase2 = phase2, !.pfs = pfs, !.pfsGroups = pfsGroups]] :
     phase2 \in {<<suite>> : suite \in Suites} \cup {<<GoodSuite, suite>> : suite \in Suites},
     pfs \in BOOLEAN, pfsGroups \in {<<"modp2048">>, <<"MODP2048">>, <<"sha.256">>}}

\* OpenVPN texts of up to four lines.
Lines ==
  {Comment, Begin("ca"), Begin("connection"), End("ca"), End("connection"),
   Directive("up"), Directive("route"), Directive("auth-nocache"), Remote("old"),
   DashedRemote("old")}
MCWords ==
  {"up", "dev tap", "route", "route-nopull", "script-security", "auth-nocache", "ca",
   "connection", "remote", "--remote", "old", "good", "bad"}
ByText ==
  {[Good("openvpn") EXCEPT !.lines = lines] : lines \in UpTo(4, Lines)}
    \cup {[Good("openvpn") EXCEPT !.host = "", !.lines = lines] : lines \in UpTo(2, Lines)}

\* Two profiles, one with up to two routes and one with a DNS server.
ByViews ==
  {<<[Good("openfortivpn") EXCEPT !.routes = left],
     [Good("openconnect") EXCEPT !.routes = right, !.servers = <<<<0, 1>>>>, !.domains = <<"good">>]>> :
     left \in UpTo(2, Cidrs), right \in UpTo(1, Cidrs)}

MCFiles ==
  {<<config>> : config \in ByRoutes \cup ByCredentials \cup ByIPsec \cup ByOptions \cup ByCiphers
                             \cup ByText}
    \cup ByViews
=============================================================================
