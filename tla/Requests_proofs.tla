--------------------------- MODULE Requests_proofs ---------------------------
(***************************************************************************)
(* Proofs about Requests, for every file of profiles.  The folds the model is  *)
(* built from are computed by recursive functions over sets of positions; the  *)
(* first part shows that such a fold obeys the two equations one expects of    *)
(* it, and that sequences can be reasoned about by induction.                  *)
(***************************************************************************)
EXTENDS Requests, TLAPS, WellFoundedInduction, SequenceTheorems, FiniteSetTheorems

-----------------------------------------------------------------------------
(* Induction *)

\* Induction over the numbers, as a statement about a set.
LEMMA SetInduction ==
  ASSUME NEW S, 0 \in S, \A n \in Nat : n \in S => n + 1 \in S
  PROVE  Nat \subseteq S
<1> SUFFICES ASSUME Nat \ S # {} PROVE FALSE
  OBVIOUS
<1> DEFINE T == Nat \ S
           R == {p \in Nat \X Nat : p[1] < p[2]}
<1>1. IsWellFoundedOn(R, Nat)
  BY NatLessThanWellFounded DEF OpToRel
<1>2. T \subseteq Nat /\ T # {}
  OBVIOUS
<1>3. \E x \in T : \A y \in T : ~ (<<y, x>> \in R)
  <2> HIDE DEF T, R
  <2> QED BY <1>1, <1>2, WFMin
<1>4. PICK x \in T : \A y \in T : ~(<<y, x>> \in R)
  BY <1>3
<1>5. x # 0 /\ x \in Nat
  OBVIOUS
<1>6. x - 1 \in Nat /\ (x - 1) + 1 = x
  BY <1>5
<1>7. x - 1 \in T
  BY <1>6
<1>8. <<x - 1, x>> \in R
  BY <1>5, <1>6
<1> QED BY <1>4, <1>7, <1>8

\* A member that no member exceeds is the maximum.
LEMMA MaxIs ==
  ASSUME NEW s \in SUBSET Nat, NEW m \in s, \A y \in s : y <= m
  PROVE  Max(s) = m
<1>1. \A x \in s : (\A y \in s : x >= y) => x = m
  <2> SUFFICES ASSUME NEW x \in s, \A y \in s : x >= y PROVE x = m
    OBVIOUS
  <2>1. x \in Nat /\ m \in Nat /\ x >= m /\ x <= m
    OBVIOUS
  <2> QED BY <2>1
<1>2. \A y \in s : y \in Nat
  OBVIOUS
<1>3. \A y \in s : m >= y
  BY <1>2
<1> QED BY <1>1, <1>3 DEF Max

\* A set of positions that is not empty has a maximum.
LEMMA MaxIn ==
  ASSUME NEW n \in Nat, NEW s \in SUBSET (1..n), s # {}
  PROVE  Max(s) \in s
<1> DEFINE S == {k \in Nat : \A t \in SUBSET (1..k) : t # {} => \E m \in t : \A y \in t : y <= m}
<1>1. 0 \in S
  <2>1. \A t \in SUBSET (1..0) : t = {}
    OBVIOUS
  <2> QED BY <2>1
<1>2. ASSUME NEW k \in Nat, k \in S PROVE k + 1 \in S
  <2> SUFFICES ASSUME NEW t \in SUBSET (1..(k + 1)), t # {}
               PROVE  \E m \in t : \A y \in t : y <= m
    OBVIOUS
  <2>1. CASE k + 1 \in t
    <3>1. \A y \in t : y <= k + 1
      OBVIOUS
    <3> QED BY <2>1, <3>1
  <2>2. CASE k + 1 \notin t
    <3>1. t \in SUBSET (1..k)
      BY <2>2
    <3> QED BY <3>1, <1>2
  <2> QED BY <2>1, <2>2
<1>3. n \in S
  <2> HIDE DEF S
  <2> QED BY <1>1, <1>2, SetInduction
<1>4. PICK m \in s : \A y \in s : y <= m
  BY <1>3
<1> QED BY <1>4, MaxIs

-----------------------------------------------------------------------------
(* Folds *)

\* A step from a value to a value by an element.
IsStep(step, X, Y) == step \in [X \X Y -> X]

\* What a fold computes on each set of positions, when its step is a function.
IsFold(f, X, step, base, seq) ==
  /\ f \in [SUBSET (DOMAIN seq) -> X]
  /\ \A s \in SUBSET (DOMAIN seq) :
       f[s] = IF s = {} THEN base ELSE step[<<f[s \ {Max(s)}], seq[Max(s)]>>]

\* There is a function that computes it.
LEMMA FoldIsDefined ==
  ASSUME NEW X, NEW Y, NEW base \in X, NEW step, IsStep(step, X, Y), NEW seq \in Seq(Y)
  PROVE  \E f : IsFold(f, X, step, base, seq)
<1> step \in [X \X Y -> X]
  BY DEF IsStep
<1> DEFINE n == Len(seq)
           Body(f, s) == IF s = {} THEN base ELSE step[<<f[s \ {Max(s)}], seq[Max(s)]>>]
           Good(f, k) == /\ f \in [SUBSET (1..k) -> X]
                         /\ \A s \in SUBSET (1..k) : f[s] = Body(f, s)
           S == {k \in Nat : k <= n => \E f : Good(f, k)}
<1>1. 0 \in S
  <2> DEFINE g == [s \in SUBSET (1..0) |-> base]
  <2>1. \A s \in SUBSET (1..0) : s = {}
    OBVIOUS
  <2>2. g \in [SUBSET (1..0) -> X]
    OBVIOUS
  <2>3. \A s \in SUBSET (1..0) : g[s] = Body(g, s)
    BY <2>1
  <2>4. Good(g, 0)
    <3> HIDE DEF g, Body
    <3> QED BY <2>2, <2>3
  <2> HIDE DEF Good
  <2> QED BY <2>4
<1>2. ASSUME NEW k \in Nat, k \in S, k + 1 <= n PROVE \E f : Good(f, k + 1)
  <2>6. PICK f : Good(f, k)
    <3> HIDE DEF Good
    <3> QED BY <1>2
  <2>1. /\ f \in [SUBSET (1..k) -> X]
        /\ \A s \in SUBSET (1..k) : f[s] = Body(f, s)
    BY <2>6
  <2>0. seq[k + 1] \in Y
    BY <1>2
  <2> DEFINE T == SUBSET (1..(k + 1))
             g == [s \in T |-> IF k + 1 \in s
                               THEN step[<<f[s \ {k + 1}], seq[k + 1]>>]
                               ELSE f[s]]
  <2>4. \A s \in T : s \ {k + 1} \in SUBSET (1..k)
    OBVIOUS
  <2>5. \A s \in T : k + 1 \notin s => s \in SUBSET (1..k)
    OBVIOUS
  <2>3. g \in [T -> X]
    <3>1. ASSUME NEW s \in T PROVE step[<<f[s \ {k + 1}], seq[k + 1]>>] \in X
      <4>1. f[s \ {k + 1}] \in X
        BY <2>1, <2>4
      <4> QED BY <4>1, <2>0
    <3>2. ASSUME NEW s \in T, k + 1 \notin s PROVE f[s] \in X
      BY <2>1, <2>5, <3>2
    <3> HIDE DEF T
    <3> QED BY <3>1, <3>2
  <2>2. ASSUME NEW s \in T PROVE g[s] = Body(g, s)
    <3>1. CASE k + 1 \in s
      <4>1. Max(s) = k + 1
        <5>1. \A y \in s : y <= k + 1
          OBVIOUS
        <5>2. s \in SUBSET Nat
          OBVIOUS
        <5> QED BY <3>1, <5>1, <5>2, MaxIs
      <4>2. s \ {k + 1} \in T /\ k + 1 \notin s \ {k + 1}
        OBVIOUS
      <4>3. g[s \ {k + 1}] = f[s \ {k + 1}]
        BY <4>2
      <4>4. g[s] = step[<<f[s \ {k + 1}], seq[k + 1]>>]
        BY <3>1
      <4> HIDE DEF g
      <4> QED BY <3>1, <4>1, <4>3, <4>4
    <3>2. CASE k + 1 \notin s
      <4>1. s \in SUBSET (1..k)
        BY <3>2
      <4>2. g[s] = f[s]
        BY <3>2
      <4>3. f[s] = Body(f, s)
        BY <2>1, <4>1
      <4>4. CASE s # {}
        <5>1. Max(s) \in s
          BY <4>1, <4>4, MaxIn
        <5>2. s \ {Max(s)} \in T /\ k + 1 \notin s \ {Max(s)}
          BY <3>2
        <5>3. g[s \ {Max(s)}] = f[s \ {Max(s)}]
          BY <5>2
        <5> HIDE DEF g
        <5> QED BY <4>2, <4>3, <5>3
      <4>5. CASE s = {}
        BY <4>2, <4>3, <4>5
      <4> QED BY <4>4, <4>5
    <3> QED BY <3>1, <3>2
  <2>7. Good(g, k + 1)
    <3> HIDE DEF g, Body
    <3> QED BY <2>2, <2>3
  <2> HIDE DEF Good
  <2> QED BY <2>7
<1>3. n \in S
  <2>1. \A k \in Nat : k \in S => k + 1 \in S
    <3> HIDE DEF Good, n
    <3>1. \A k \in Nat : k \in S /\ k + 1 <= n => \E f : Good(f, k + 1)
      BY <1>2
    <3>2. \A k \in Nat : k + 1 \in Nat /\ (k + 1 <= n => \E f : Good(f, k + 1)) => k + 1 \in S
      OBVIOUS
    <3> HIDE DEF S
    <3> QED BY <3>1, <3>2
  <2> HIDE DEF S
  <2> QED BY <1>1, <2>1, SetInduction
<1>4. n \in Nat /\ DOMAIN seq = 1..n
  OBVIOUS
<1>5. PICK f : Good(f, n)
  <2> HIDE DEF n, Good
  <2> QED BY <1>3, <1>4
<1>6. IsFold(f, X, step, base, seq)
  BY <1>4, <1>5 DEF IsFold
<1> QED BY <1>6

\* Two functions that go from a set without its maximum to the set alike.
Alike(f, g, n) ==
  \A s \in SUBSET (1..n) : s # {} /\ f[s \ {Max(s)}] = g[s \ {Max(s)}] => f[s] = g[s]

\* When they begin alike, they are alike.
LEMMA FoldsAgree ==
  ASSUME NEW n \in Nat, NEW f, NEW g, f[{}] = g[{}], Alike(f, g, n)
  PROVE  \A s \in SUBSET (1..n) : f[s] = g[s]
<1> DEFINE S == {k \in Nat : k <= n => \A s \in SUBSET (1..k) : f[s] = g[s]}
<1>1. 0 \in S
  <2>1. \A s \in SUBSET (1..0) : s = {}
    OBVIOUS
  <2> QED BY <2>1
<1>2. ASSUME NEW k \in Nat, k \in S PROVE k + 1 \in S
  <2> SUFFICES ASSUME k + 1 <= n, NEW s \in SUBSET (1..(k + 1)) PROVE f[s] = g[s]
    OBVIOUS
  <2>1. \A t \in SUBSET (1..k) : f[t] = g[t]
    BY <1>2
  <2>2. CASE k + 1 \in s
    <3>1. Max(s) = k + 1
      <4>1. \A y \in s : y <= k + 1
        OBVIOUS
      <4>2. s \in SUBSET Nat
        OBVIOUS
      <4> QED BY <2>2, <4>1, <4>2, MaxIs
    <3>2. s \ {k + 1} \in SUBSET (1..k)
      OBVIOUS
    <3>3. s \in SUBSET (1..n)
      OBVIOUS
    <3>4. f[s \ {k + 1}] = g[s \ {k + 1}]
      BY <2>1, <3>2
    <3> QED BY <2>2, <3>1, <3>3, <3>4 DEF Alike
  <2>3. CASE k + 1 \notin s
    <3>1. s \in SUBSET (1..k)
      BY <2>3
    <3> QED BY <2>1, <3>1
  <2> QED BY <2>2, <2>3
<1>3. n \in S
  <2> HIDE DEF S
  <2> QED BY <1>1, <1>2, SetInduction
<1> QED BY <1>3

\* A fold from the left by a function, and by what it is computed.
Foldl(step, base, seq) == FoldLeft(LAMBDA x, y : step[<<x, y>>], base, seq)

\* The function by which a fold is computed.
FoldlBy(f, X, step, base, seq) ==
  IsFold(f, X, step, base, seq) /\ Foldl(step, base, seq) = f[DOMAIN seq]

\* Each such fold is computed by some function.
LEMMA FoldlIs ==
  ASSUME NEW X, NEW Y, NEW base \in X, NEW step, IsStep(step, X, Y), NEW seq \in Seq(Y)
  PROVE  \E f : FoldlBy(f, X, step, base, seq)
<1> DEFINE D == DOMAIN seq
           Body(f, s) == IF s = {} THEN base ELSE step[<<f[s \ {Max(s)}], seq[Max(s)]>>]
           P(f) == f = [s \in SUBSET D |-> Body(f, s)]
           c == CHOOSE f : P(f)
<1>1. PICK F : IsFold(F, X, step, base, seq)
  BY FoldIsDefined
<1>2. P(F)
  BY <1>1 DEF IsFold
<1>3. P(c)
  <2> HIDE DEF P
  <2> QED BY <1>2
<1>4. Foldl(step, base, seq) = c[D]
  BY DEF Foldl, FoldLeft, MapThenFoldSet
<1>5. \A s \in SUBSET D : c[s] = Body(c, s) /\ F[s] = Body(F, s)
  <2>1. P(c) /\ P(F) => \A s \in SUBSET D : c[s] = Body(c, s) /\ F[s] = Body(F, s)
    <3> HIDE DEF c, Body, D
    <3> QED OBVIOUS
  <2> HIDE DEF P
  <2> QED BY <1>2, <1>3, <2>1
<1>6. \A s \in SUBSET D : c[s] = F[s]
  <2> DEFINE n == Len(seq)
  <2> HIDE DEF c
  <2>1. n \in Nat /\ D = 1..n
    OBVIOUS
  <2>2. c[{}] = F[{}]
    BY <1>5
  <2>3. Alike(c, F, n)
    BY <1>5, <2>1 DEF Alike
  <2> HIDE DEF D, n
  <2> QED BY <2>1, <2>2, <2>3, FoldsAgree
<1>7. Foldl(step, base, seq) = F[D]
  <2> HIDE DEF c
  <2> QED BY <1>4, <1>6
<1> QED BY <1>1, <1>7 DEF FoldlBy

\* The fold of no elements.
LEMMA FoldlEmpty ==
  ASSUME NEW X, NEW Y, NEW base \in X, NEW step, IsStep(step, X, Y)
  PROVE  Foldl(step, base, <<>>) = base
<1> DEFINE seq == <<>>
<1>1. seq \in Seq(Y) /\ DOMAIN seq = {}
  OBVIOUS
<1>2. PICK f : FoldlBy(f, X, step, base, seq)
  <2> HIDE DEF seq
  <2> QED BY <1>1, FoldlIs
<1>3. f[{}] = base
  BY <1>1, <1>2 DEF IsFold, FoldlBy
<1> QED BY <1>1, <1>2, <1>3 DEF FoldlBy

\* The fold stays in its set.
LEMMA FoldlType ==
  ASSUME NEW X, NEW Y, NEW base \in X, NEW step, IsStep(step, X, Y), NEW seq \in Seq(Y)
  PROVE  Foldl(step, base, seq) \in X
<1>1. PICK f : FoldlBy(f, X, step, base, seq)
  BY FoldlIs
<1> QED BY <1>1 DEF IsFold, FoldlBy

\* The fold of one element more.
LEMMA FoldlAppend ==
  ASSUME NEW X, NEW Y, NEW base \in X, NEW step, IsStep(step, X, Y), NEW seq \in Seq(Y),
         NEW y \in Y
  PROVE  Foldl(step, base, Append(seq, y)) = step[<<Foldl(step, base, seq), y>>]
<1> DEFINE n == Len(seq)
           more == Append(seq, y)
<1>1. /\ n \in Nat /\ DOMAIN seq = 1..n
      /\ more \in Seq(Y) /\ DOMAIN more = 1..(n + 1)
      /\ more[n + 1] = y /\ \A i \in 1..n : more[i] = seq[i]
  OBVIOUS
<1>2. PICK f : FoldlBy(f, X, step, base, seq)
  BY FoldlIs
<1> HIDE DEF more, FoldlBy, n
<1>3. PICK g : FoldlBy(g, X, step, base, more)
  BY <1>1, FoldlIs
<1>4. \A s \in SUBSET (1..n) : g[s] = f[s]
  <2>1. \A s \in SUBSET (1..n) : s \in SUBSET (1..(n + 1))
    BY <1>1
  <2>2. g[{}] = f[{}]
    BY <1>1, <1>2, <1>3 DEF IsFold, FoldlBy
  <2>3. ASSUME NEW s \in SUBSET (1..n), s # {}, g[s \ {Max(s)}] = f[s \ {Max(s)}]
        PROVE  g[s] = f[s]
    <3>1. Max(s) \in 1..n
      BY <1>1, <2>3, MaxIn
    <3>2. more[Max(s)] = seq[Max(s)]
      BY <3>1, <1>1
    <3>3. f[s] = step[<<f[s \ {Max(s)}], seq[Max(s)]>>]
      BY <1>1, <1>2, <2>3 DEF IsFold, FoldlBy
    <3>4. g[s] = step[<<g[s \ {Max(s)}], more[Max(s)]>>]
      BY <1>1, <1>3, <2>1, <2>3 DEF IsFold, FoldlBy
    <3> QED BY <2>3, <3>2, <3>3, <3>4
  <2>4. Alike(g, f, n)
    BY <2>3 DEF Alike
  <2> QED BY <1>1, <2>2, <2>4, FoldsAgree
<1>5. Max(1..(n + 1)) = n + 1
  <2>1. 1..(n + 1) \in SUBSET Nat /\ n + 1 \in 1..(n + 1) /\ \A k \in 1..(n + 1) : k <= n + 1
    BY <1>1
  <2> QED BY <2>1, MaxIs
<1>6. (1..(n + 1)) \ {n + 1} = 1..n /\ 1..(n + 1) # {}
  <2>1. n + 1 \in 1..(n + 1)
    BY <1>1
  <2>2. \A k : k \in (1..(n + 1)) \ {n + 1} <=> k \in 1..n
    BY <1>1
  <2> QED BY <2>1, <2>2
<1>7. g[1..(n + 1)] = step[<<g[1..n], y>>]
  BY <1>1, <1>3, <1>5, <1>6 DEF IsFold, FoldlBy
<1>8. g[1..n] = f[1..n]
  BY <1>4
<1> QED BY <1>1, <1>2, <1>3, <1>7, <1>8 DEF more, FoldlBy

\* A function that follows the step where that is defined computes the fold.
Follows(c, X, step, base, seq) ==
  /\ c[{}] = base
  /\ \A s \in SUBSET (DOMAIN seq) :
       s # {} /\ c[s \ {Max(s)}] \in X => c[s] = step[<<c[s \ {Max(s)}], seq[Max(s)]>>]

\* Such a function has the fold at the set of all places.
LEMMA FoldIs ==
  ASSUME NEW X, NEW Y, NEW base \in X, NEW step, IsStep(step, X, Y), NEW seq \in Seq(Y),
         NEW c, Follows(c, X, step, base, seq)
  PROVE  c[DOMAIN seq] = Foldl(step, base, seq)
<1> DEFINE D == DOMAIN seq
           n == Len(seq)
<1>1. PICK F : FoldlBy(F, X, step, base, seq)
  BY FoldlIs
<1>2. n \in Nat /\ D = 1..n
  OBVIOUS
<1>3. c[{}] = F[{}]
  BY <1>1 DEF FoldlBy, IsFold, Follows
<1>4. Alike(c, F, n)
  <2> SUFFICES ASSUME NEW s \in SUBSET D, s # {}, c[s \ {Max(s)}] = F[s \ {Max(s)}]
               PROVE  c[s] = F[s]
    BY <1>2 DEF Alike
  <2>1. F[s \ {Max(s)}] \in X
    BY <1>1 DEF FoldlBy, IsFold
  <2>2. c[s] = step[<<c[s \ {Max(s)}], seq[Max(s)]>>]
    BY <2>1 DEF Follows
  <2>3. F[s] = step[<<F[s \ {Max(s)}], seq[Max(s)]>>]
    BY <1>1 DEF FoldlBy, IsFold
  <2> QED BY <2>2, <2>3
<1> HIDE DEF n, D
<1>5. \A s \in SUBSET D : c[s] = F[s]
  BY <1>2, <1>3, <1>4, FoldsAgree
<1> QED BY <1>1, <1>5 DEF FoldlBy, D

\* Induction over the sequences, as a statement about a set.
LEMMA SeqInduction ==
  ASSUME NEW Y, NEW T, <<>> \in T,
         \A seq \in Seq(Y), y \in Y : seq \in T => Append(seq, y) \in T
  PROVE  Seq(Y) \subseteq T
<1> DEFINE S == {n \in Nat : \A seq \in Seq(Y) : Len(seq) = n => seq \in T}
<1>1. 0 \in S
  <2>1. \A seq \in Seq(Y) : Len(seq) = 0 => seq = <<>>
    OBVIOUS
  <2> QED BY <2>1
<1>2. ASSUME NEW n \in Nat, n \in S PROVE n + 1 \in S
  <2> SUFFICES ASSUME NEW seq \in Seq(Y), Len(seq) = n + 1 PROVE seq \in T
    OBVIOUS
  <2> DEFINE front == SubSeq(seq, 1, n)
             last == seq[n + 1]
  <2>1. front \in Seq(Y) /\ Len(front) = n /\ last \in Y
    OBVIOUS
  <2>2. Append(front, last) = seq
    OBVIOUS
  <2>3. front \in T
    BY <1>2, <2>1
  <2> HIDE DEF front, last
  <2> QED BY <2>1, <2>2, <2>3
<1>3. Nat \subseteq S
  <2> HIDE DEF S
  <2> QED BY <1>1, <1>2, SetInduction
<1> QED
  <2> SUFFICES ASSUME NEW seq \in Seq(Y) PROVE seq \in T
    OBVIOUS
  <2> QED BY <1>3

-----------------------------------------------------------------------------
(* Networks *)

Route == Cidr \cup {Malformed}
Server == Address \cup {Malformed}

\* A network stays one when it is masked, and masking again changes nothing.
LEMMA MaskType ==
  ASSUME NEW cidr \in Cidr
  PROVE  Mask(cidr) \in Cidr
BY DEF Mask, Cidr, Address

\* A masked network is its own network.
LEMMA MaskTwice ==
  ASSUME NEW cidr \in Cidr
  PROVE  Mask(Mask(cidr)) = Mask(cidr)
BY DEF Mask, Cidr, Address

\* The network of one address.
LEMMA HostType ==
  ASSUME NEW address \in Address
  PROVE  Host(address) \in Cidr /\ ~Whole(Host(address))
BY BitsAssumption DEF Host, Cidr, Whole

\* The route of one address has no host bits.
LEMMA MaskHost ==
  ASSUME NEW address \in Address
  PROVE  Mask(Host(address)) = Host(address)
BY BitsAssumption DEF Mask, Host, Address

\* It contains that address and no other.
LEMMA HostCovers ==
  ASSUME NEW address \in Address, NEW other \in Address
  PROVE  Covers(Host(address), other) <=> other = address
<1>1. Covers(Host(address), other) <=> Mask(Host(other)) = Mask(Host(address))
  BY DEF Covers, Host
<1>2. Covers(Host(address), other) <=> Host(other) = Host(address)
  BY <1>1, MaskHost
<1> QED BY <1>2 DEF Host

\* A network contains what it contains when it is masked.
LEMMA MaskCovers ==
  ASSUME NEW cidr \in Cidr, NEW address
  PROVE  Covers(Mask(cidr), address) <=> Covers(cidr, address)
<1>1. Mask(cidr).prefix = cidr.prefix
  BY DEF Mask
<1> QED BY <1>1, MaskTwice DEF Covers

-----------------------------------------------------------------------------
(* withDNSServerRoutes *)

\* The route of a server.
RouteTo(server) == IF server = Malformed THEN Malformed ELSE Host(server)

\* What a server becomes is a route or malformed.
LEMMA RouteToType ==
  ASSUME NEW server \in Server
  PROVE  RouteTo(server) \in Route
BY HostType DEF RouteTo, Route, Server

\* AddServer gives routes for routes.
LEMMA AddServerType ==
  ASSUME NEW routes \in Seq(Route), NEW server \in Server
  PROVE  AddServer(routes, server) \in Seq(Route)
BY RouteToType DEF AddServer, RouteTo

\* The fold, its step a function.
AddStep == [p \in Seq(Route) \X Server |-> AddServer(p[1], p[2])]

\* The step maps routes and a server to routes.
LEMMA AddStepType == IsStep(AddStep, Seq(Route), Server)
BY AddServerType DEF AddStep, IsStep

\* It is AddServer.
LEMMA AddStepIs ==
  ASSUME NEW routes \in Seq(Route), NEW server \in Server
  PROVE  AddStep[<<routes, server>>] = AddServer(routes, server)
BY DEF AddStep

\* WithServers as a fold computed by a function.
LEMMA WithServersFolds ==
  ASSUME NEW routes \in Seq(Route), NEW servers \in Seq(Server)
  PROVE  WithServers(routes, servers) = Foldl(AddStep, routes, servers)
<1> DEFINE X == Seq(Route)
           D == DOMAIN servers
           Body(f, s) == IF s = {} THEN routes
                         ELSE AddServer(f[s \ {Max(s)}], servers[Max(s)])
           P(f) == f = [s \in SUBSET D |-> Body(f, s)]
           c == CHOOSE f : P(f)
<1>1. \A s \in SUBSET D : s # {} => servers[Max(s)] \in Server
  <2>1. Len(servers) \in Nat /\ D = 1..Len(servers)
    OBVIOUS
  <2>2. \A s \in SUBSET D : s # {} => Max(s) \in D
    BY <2>1, MaxIn
  <2> QED BY <2>1, <2>2
<1>2. PICK F : IsFold(F, X, AddStep, routes, servers)
  BY AddStepType, FoldIsDefined
<1>3. P(F)
  <2>1. ASSUME NEW s \in SUBSET D PROVE F[s] = Body(F, s)
    <3>1. F[s \ {Max(s)}] \in X
      BY <1>2 DEF IsFold
    <3> QED BY <1>1, <1>2, <3>1, AddStepIs DEF IsFold
  <2>2. F = [s \in SUBSET D |-> F[s]]
    BY <1>2 DEF IsFold
  <2> HIDE DEF Body, D
  <2> QED BY <2>1, <2>2
<1>4. P(c)
  <2> HIDE DEF P
  <2> QED BY <1>3
<1>5. Follows(c, X, AddStep, routes, servers)
  <2>1. \A s \in SUBSET D : c[s] = Body(c, s)
    <3>1. P(c) => \A s \in SUBSET D : c[s] = Body(c, s)
      <4> HIDE DEF c, Body, D
      <4> QED OBVIOUS
    <3> HIDE DEF P
    <3> QED BY <1>4, <3>1
  <2> HIDE DEF c
  <2> QED BY <1>1, <2>1, AddStepIs DEF Follows
<1>6. WithServers(routes, servers) = c[D]
  BY DEF WithServers, FoldLeft, MapThenFoldSet
<1>7. c[D] = Foldl(AddStep, routes, servers)
  <2> HIDE DEF c
  <2> QED BY <1>5, AddStepType, FoldIs
<1> HIDE DEF c
<1> QED BY <1>6, <1>7

\* What is built from no server and from one server more.
LEMMA WithServersRecurs ==
  ASSUME NEW routes \in Seq(Route), NEW servers \in Seq(Server), NEW server \in Server
  PROVE  /\ WithServers(routes, <<>>) = routes
         /\ WithServers(routes, servers) \in Seq(Route)
         /\ WithServers(routes, Append(servers, server)) =
              AddServer(WithServers(routes, servers), server)
<1>1. WithServers(routes, <<>>) = routes
  <2>1. <<>> \in Seq(Server)
    OBVIOUS
  <2> QED BY <2>1, WithServersFolds, AddStepType, FoldlEmpty
<1>2. WithServers(routes, servers) \in Seq(Route)
  BY WithServersFolds, AddStepType, FoldlType
<1>3. Append(servers, server) \in Seq(Server)
  OBVIOUS
<1>4. WithServers(routes, Append(servers, server)) = AddStep[<<WithServers(routes, servers), server>>]
  <2>1. Foldl(AddStep, routes, Append(servers, server)) =
          AddStep[<<Foldl(AddStep, routes, servers), server>>]
    BY AddStepType, FoldlAppend
  <2> QED BY <1>3, <2>1, WithServersFolds
<1> QED BY <1>1, <1>2, <1>4, AddStepIs

\* The routes come first, in their order; each server has a route; and a route
\* that is added was not there before.
Extends(routes, servers, all) ==
  /\ all \in Seq(Route)
  /\ Len(routes) <= Len(all) /\ \A i \in 1..Len(routes) : all[i] = routes[i]
  /\ ToSet(all) = ToSet(routes) \cup {RouteTo(servers[j]) : j \in DOMAIN servers}
  /\ \A i \in DOMAIN all, j \in DOMAIN all : Len(routes) < i /\ j < i => all[j] # all[i]

\* By induction over the servers: the routes stay in front, each server is
\* routed, and nothing else is added.
LEMMA WithServersExtends ==
  ASSUME NEW routes \in Seq(Route), NEW servers \in Seq(Server)
  PROVE  Extends(routes, servers, WithServers(routes, servers))
<1> DEFINE T == {some \in Seq(Server) : Extends(routes, some, WithServers(routes, some))}
<1>1. <<>> \in T
  <2>1. WithServers(routes, <<>>) = routes
    <3>1. {} # Server
      BY DEF Server
    <3> QED BY <3>1, WithServersRecurs
  <2>2. Extends(routes, <<>>, routes)
    BY DEF Extends
  <2> QED BY <2>1, <2>2
<1>2. ASSUME NEW some \in Seq(Server), NEW server \in Server, some \in T
      PROVE  Append(some, server) \in T
  <2> DEFINE more == Append(some, server)
             all == WithServers(routes, some)
             route == RouteTo(server)
             next == AddServer(all, server)
  <2>1. more \in Seq(Server) /\ WithServers(routes, more) = next
    BY WithServersRecurs
  <2>2. Extends(routes, some, all)
    BY <1>2
  <2>3. {RouteTo(more[j]) : j \in DOMAIN more} = {RouteTo(some[j]) : j \in DOMAIN some} \cup {route}
    <3>1. /\ DOMAIN more = 1..(Len(some) + 1) /\ DOMAIN some = 1..Len(some)
          /\ more[Len(some) + 1] = server /\ \A j \in 1..Len(some) : more[j] = some[j]
      OBVIOUS
    <3> HIDE DEF more, route
    <3>2. RouteTo(more[Len(some) + 1]) = route
      BY <3>1 DEF route
    <3>3. Len(some) \in Nat
      OBVIOUS
    <3>4. \A j : j \in 1..(Len(some) + 1) <=> j \in 1..Len(some) \/ j = Len(some) + 1
      BY <3>3
    <3> QED BY <3>1, <3>2, <3>4
  <2>4. route \in Route
    BY RouteToType
  <2>5. CASE \E i \in DOMAIN all : all[i] = route
    <3>1. next = all
      BY <2>5 DEF AddServer, RouteTo
    <3>2. route \in ToSet(all)
      BY <2>5 DEF ToSet
    <3> HIDE DEF more, all, next, route
    <3>3. ToSet(all) = ToSet(routes) \cup {RouteTo(more[j]) : j \in DOMAIN more}
      BY <2>2, <2>3, <3>2 DEF Extends
    <3>4. Extends(routes, more, next)
      BY <2>2, <3>1, <3>3 DEF Extends
    <3> QED BY <2>1, <3>4 DEF more
  <2>6. CASE ~ \E i \in DOMAIN all : all[i] = route
    <3>1. next = Append(all, route)
      BY <2>6 DEF AddServer, RouteTo
    <3> HIDE DEF more, all, next, route
    <3>2. /\ all \in Seq(Route) /\ Len(routes) <= Len(all) /\ \A i \in 1..Len(routes) : all[i] = routes[i]
          /\ \A i \in DOMAIN all, j \in DOMAIN all : Len(routes) < i /\ j < i => all[j] # all[i]
      BY <2>2 DEF Extends
    <3>3. /\ next \in Seq(Route) /\ Len(next) = Len(all) + 1 /\ DOMAIN all = 1..Len(all)
          /\ DOMAIN next = 1..(Len(all) + 1) /\ Len(all) \in Nat /\ Len(routes) \in Nat
          /\ next[Len(all) + 1] = route /\ \A i \in 1..Len(all) : next[i] = all[i]
      BY <3>1, <3>2, <2>4
    <3>4. ToSet(next) = ToSet(all) \cup {route}
      <4>1. \A j : j \in 1..(Len(all) + 1) <=> j \in 1..Len(all) \/ j = Len(all) + 1
        BY <3>3
      <4> QED BY <3>3, <4>1 DEF ToSet
    <3>5. \A i \in DOMAIN next, j \in DOMAIN next : Len(routes) < i /\ j < i => next[j] # next[i]
      <4> SUFFICES ASSUME NEW i \in DOMAIN next, NEW j \in DOMAIN next, Len(routes) < i, j < i
                   PROVE  next[j] # next[i]
        OBVIOUS
      <4>1. j \in 1..Len(all) /\ next[j] = all[j]
        BY <3>3
      <4>2. CASE i = Len(all) + 1
        BY <2>6, <3>3, <4>1, <4>2
      <4>3. CASE i # Len(all) + 1
        <5>1. i \in 1..Len(all)
          BY <3>3, <4>3
        <5> QED BY <3>2, <3>3, <4>1, <5>1
      <4> QED BY <4>2, <4>3
    <3>6. \A i \in 1..Len(routes) : next[i] = routes[i]
      BY <3>2, <3>3
    <3>7. ToSet(next) = ToSet(routes) \cup {RouteTo(more[j]) : j \in DOMAIN more}
      BY <2>2, <2>3, <3>4 DEF Extends
    <3>8. Len(routes) <= Len(next)
      BY <3>2, <3>3
    <3>9. Extends(routes, more, next)
      BY <3>3, <3>5, <3>6, <3>7, <3>8 DEF Extends
    <3> QED BY <2>1, <3>9 DEF more
  <2> QED BY <2>5, <2>6
<1>3. Seq(Server) \subseteq T
  <2> HIDE DEF T
  <2> QED BY <1>1, <1>2, SeqInduction
<1> QED BY <1>3

-----------------------------------------------------------------------------
(* What was asked and answered *)

\* The answer is that to the profile that was asked for.
THEOREM AnswersHold == Spec => []Answered
<1>1. Init => Answered
  BY DEF Init, Answered
<1>2. Answered /\ [Next]_vars => Answered'
  <2> SUFFICES ASSUME Answered, [Next]_vars PROVE Answered'
    OBVIOUS
  <2>1. ASSUME NEW i \in DOMAIN configs, Connect(i) PROVE Answered'
    <3>1. configs \in Seq(Config)
      BY FilesAssumption DEF Answered
    <3>2. i # 0
      BY <3>1
    <3> QED BY <2>1, <3>2 DEF Answered, Connect
  <2>2. CASE Return
    BY <2>2 DEF Answered, Return
  <2>3. CASE UNCHANGED vars
    BY <2>3 DEF Answered, vars
  <2> QED BY <2>1, <2>2, <2>3 DEF Next
<1> QED BY <1>1, <1>2, PTL DEF Spec

\* The fields of what is built from a profile.
LEMMA BuildFields ==
  ASSUME NEW config
  PROVE  /\ Build(config).protocol = config.type
         /\ Build(config).host = config.host
         /\ Build(config).user = config.user
         /\ Build(config).password = config.password
         /\ Build(config).domains = config.domains
         /\ Build(config).servers = config.servers
         /\ Build(config).routes = WithServers(ParseRoutes(config.routes), config.servers)
         /\ Build(config).port = IF config.type \in {"openfortivpn", "openconnect"} THEN config.port ELSE ""
         /\ Build(config).browser = (config.type = "openconnect" /\ config.browser)
         /\ Build(config).lines = IF config.type = "openvpn" THEN Sanitize(Overridden(config)) ELSE <<>>
         /\ Build(config).ipsec = IF config.type = "ipsec" THEN IPsecRequest(config.ipsec) ELSE <<>>
BY DEF Build

\* The routes of a profile that parse.
LEMMA ParseRoutesType ==
  ASSUME NEW routes \in Seq(Route), ParsesRoutes(routes)
  PROVE  /\ routes \in Seq(Cidr)
         /\ ParseRoutes(routes) \in Seq(Cidr) /\ Len(ParseRoutes(routes)) = Len(routes)
         /\ \A i \in DOMAIN routes : ParseRoutes(routes)[i] = Mask(routes[i])
<1>1. \A i \in DOMAIN routes : routes[i] \in Cidr
  BY DEF ParsesRoutes, Route
<1>2. routes \in Seq(Cidr)
  BY <1>1
<1>3. \A i \in DOMAIN routes : Mask(routes[i]) \in Cidr
  BY <1>1, MaskType
<1>4. ParseRoutes(routes) = [i \in 1..Len(routes) |-> Mask(routes[i])]
  BY DEF ParseRoutes
<1> QED BY <1>2, <1>3, <1>4

\* What Extends says of the routes of a request.
LEMMA BuiltRoutes ==
  ASSUME NEW config \in Config, ParsesRoutes(config.routes)
  PROVE  /\ config.routes \in Seq(Cidr) /\ config.servers \in Seq(Server)
         /\ ParseRoutes(config.routes) \in Seq(Cidr)
         /\ Len(ParseRoutes(config.routes)) = Len(config.routes)
         /\ \A i \in DOMAIN config.routes : ParseRoutes(config.routes)[i] = Mask(config.routes[i])
         /\ Extends(ParseRoutes(config.routes), config.servers, Build(config).routes)
<1>1. config.routes \in Seq(Route) /\ config.servers \in Seq(Server)
  BY DEF Config, Route, Server
<1>2. ParseRoutes(config.routes) \in Seq(Route)
  BY <1>1, ParseRoutesType DEF Route
<1> QED BY <1>1, <1>2, ParseRoutesType, WithServersExtends, BuildFields

\* The DNS servers of an accepted request are reached through the tunnel.
THEOREM ServersRouted == Spec => []ServersAreRouted
<1>1. Answered => ServersAreRouted
  <2> SUFFICES ASSUME Answered, outcome = "accepted", NEW i \in DOMAIN request.servers
               PROVE  \E j \in DOMAIN request.routes : Covers(request.routes[j], request.servers[i])
    BY DEF ServersAreRouted
  <2> DEFINE config == configs[asked]
             server == config.servers[i]
  <2>1. config \in Config /\ Builds(config) /\ Valid(Build(config)) /\ request = Build(config)
    BY FilesAssumption DEF Answered
  <2>2. request.servers = config.servers
    BY <2>1, BuildFields
  <2>3. server # Malformed
    BY <2>1, <2>2 DEF Valid, ValidSplitDNS
  <2> HIDE DEF config
  <2>4. config.servers \in Seq(Server) /\ Extends(ParseRoutes(config.routes), config.servers, request.routes)
    BY <2>1, BuiltRoutes DEF Builds
  <2>5. server \in Address
    BY <2>2, <2>3, <2>4 DEF Server
  <2>6. Host(server) \in ToSet(request.routes)
    BY <2>2, <2>3, <2>4 DEF Extends, RouteTo
  <2>7. Covers(Host(server), server)
    BY <2>5, HostCovers
  <2> QED BY <2>2, <2>6, <2>7 DEF ToSet
<1> QED BY <1>1, AnswersHold, PTL

-----------------------------------------------------------------------------
(* The routes and the names of a sound profile *)

\* A sequence without repetitions is as long as it has elements.
LEMMA DistinctLength ==
  ASSUME NEW Y, NEW seq \in Seq(Y),
         \A i, j \in DOMAIN seq : j < i => seq[j] # seq[i]
  PROVE  Cardinality(ToSet(seq)) = Len(seq)
<1> DEFINE n == Len(seq)
           S == ToSet(seq)
<1>1. n \in Nat /\ DOMAIN seq = 1..n
  OBVIOUS
<1>2. seq \in [1..n -> S]
  BY <1>1 DEF ToSet
<1>3. ASSUME NEW i \in 1..n, NEW j \in 1..n, seq[i] = seq[j] PROVE i = j
  <2>1. ~(i < j) /\ ~(j < i)
    BY <1>1, <1>3
  <2> QED BY <1>1, <2>1
<1>4. \A y \in S : \E i \in 1..n : seq[i] = y
  BY <1>1 DEF ToSet
<1> HIDE DEF n, S
<1>5. seq \in Injection(1..n, S)
  BY <1>2, <1>3 DEF Injection, IsInjective
<1>6. seq \in Surjection(1..n, S)
  BY <1>2, <1>4 DEF Surjection
<1>7. ExistsBijection(1..n, S)
  BY <1>5, <1>6 DEF ExistsBijection, Bijection
<1> QED BY <1>1, <1>7, FS_CountingElements DEF n, S

\* What is asked of the elements of a list of routes.
Distinct(seq) == \A i, j \in DOMAIN seq : j < i => seq[j] # seq[i]

\* The routes the helper takes, without the places they are at.
LEMMA ValidRoutesMeans ==
  ASSUME NEW r, r.routes \in Seq(Route)
  PROVE  ValidRoutes(r) <=>
           /\ Len(r.routes) \in 1..MaxRoutes
           /\ \A route \in ToSet(r.routes) :
                route # Malformed /\ ~Whole(route) /\ Mask(route) = route
           /\ Distinct(r.routes)
<1>1. DOMAIN r.routes = 1..Len(r.routes) /\ Len(r.routes) \in Nat
  OBVIOUS
<1>2. \A i, j \in DOMAIN r.routes : j \in 1..(i - 1) <=> j < i
  BY <1>1
<1>3. \A i \in DOMAIN r.routes : 1..(i - 1) \subseteq DOMAIN r.routes
  BY <1>1
<1> QED BY <1>2, <1>3 DEF ValidRoutes, Distinct, ToSet

\* A list that is extended by what is not there repeats what it has repeated.
LEMMA ExtendsDistinct ==
  ASSUME NEW routes \in Seq(Route), NEW servers, NEW all, Extends(routes, servers, all)
  PROVE  Distinct(all) <=> Distinct(routes)
<1>1. /\ all \in Seq(Route) /\ DOMAIN all = 1..Len(all) /\ DOMAIN routes = 1..Len(routes)
      /\ Len(routes) <= Len(all) /\ Len(routes) \in Nat /\ Len(all) \in Nat
      /\ \A i \in 1..Len(routes) : all[i] = routes[i]
      /\ \A i \in DOMAIN all, j \in DOMAIN all : Len(routes) < i /\ j < i => all[j] # all[i]
  BY DEF Extends
<1>2. ASSUME Distinct(routes), NEW i \in DOMAIN all, NEW j \in DOMAIN all, j < i
      PROVE  all[j] # all[i]
  <2>1. CASE Len(routes) < i
    BY <1>1, <1>2, <2>1
  <2>2. CASE i <= Len(routes)
    <3>1. i \in DOMAIN routes /\ j \in DOMAIN routes
      BY <1>1, <1>2, <2>2
    <3> QED BY <1>1, <1>2, <3>1 DEF Distinct
  <2> QED BY <1>1, <2>1, <2>2
<1>3. ASSUME Distinct(all), NEW i \in DOMAIN routes, NEW j \in DOMAIN routes, j < i
      PROVE  routes[j] # routes[i]
  <2>1. i \in DOMAIN all /\ j \in DOMAIN all
    BY <1>1
  <2> QED BY <1>1, <1>3, <2>1 DEF Distinct
<1> QED BY <1>2, <1>3 DEF Distinct

\* No masked route repeats when no two routes have the same network.
LEMMA MaskedDistinct ==
  ASSUME NEW routes \in Seq(Cidr), NEW masked, DOMAIN masked = DOMAIN routes,
         \A i \in DOMAIN routes : masked[i] = Mask(routes[i])
  PROVE  Distinct(masked) <=>
           \A i, j \in DOMAIN routes : Mask(routes[i]) = Mask(routes[j]) => i = j
<1>1. \A i \in DOMAIN routes : i \in Nat
  OBVIOUS
<1>2. \A i, j \in DOMAIN routes : i = j \/ i < j \/ j < i
  BY <1>1
<1>3. \A i, j \in DOMAIN routes : i < j => i # j
  BY <1>1
<1> QED BY <1>2, <1>3 DEF Distinct

\* The routes and the DNS of what is built are valid when those of the profile
\* are sound, and only then.
LEMMA RoutesSound ==
  ASSUME NEW config \in Config
  PROVE  /\ ParsesRoutes(config.routes)
         /\ ValidRoutes(Build(config)) /\ ValidSplitDNS(Build(config))
         <=> SoundRoutes(config)
<1> DEFINE routes == config.routes
           servers == config.servers
           masked == ParseRoutes(routes)
           all == Build(config).routes
           Names == /\ \A i \in DOMAIN servers : servers[i] # Malformed
                    /\ \A i \in DOMAIN config.domains : config.domains[i] = "good"
                    /\ config.domains = <<>> <=> servers = <<>>
                    /\ Len(config.domains) <= MaxDomains /\ Len(servers) <= MaxServers
<1>1. ValidSplitDNS(Build(config)) <=> Names
  BY BuildFields DEF ValidSplitDNS
<1>2. SoundRoutes(config) => ParsesRoutes(routes) /\ Names
  BY DEF SoundRoutes, ParsesRoutes
<1> SUFFICES ASSUME ParsesRoutes(routes), Names
             PROVE  ValidRoutes(Build(config)) <=> SoundRoutes(config)
  BY <1>1, <1>2
<1>3. /\ routes \in Seq(Cidr) /\ servers \in Seq(Server) /\ masked \in Seq(Cidr)
      /\ Len(masked) = Len(routes) /\ \A i \in DOMAIN routes : masked[i] = Mask(routes[i])
      /\ Extends(masked, servers, all)
  BY BuiltRoutes
<1>4. DOMAIN masked = DOMAIN routes /\ masked \in Seq(Route)
  BY <1>3 DEF Route
<1>5. \A i \in DOMAIN servers : servers[i] \in Address
  BY <1>3 DEF Server
<1>6. all \in Seq(Route) /\ ToSet(all) = Networks(config)
  <2>1. \A i \in DOMAIN servers : RouteTo(servers[i]) = Host(servers[i])
    BY DEF RouteTo
  <2>2. ToSet(masked) = {Mask(routes[i]) : i \in DOMAIN routes}
    <3> HIDE DEF masked, all
    <3> QED BY <1>3, <1>4 DEF ToSet
  <2>3. {RouteTo(servers[i]) : i \in DOMAIN servers} = {Host(servers[i]) : i \in DOMAIN servers}
    BY <2>1
  <2>4. all \in Seq(Route) /\ ToSet(all) = ToSet(masked) \cup {RouteTo(servers[i]) : i \in DOMAIN servers}
    <3> HIDE DEF masked, all
    <3> QED BY <1>3 DEF Extends
  <2> QED BY <2>2, <2>3, <2>4 DEF Networks
<1>7. (\A route \in Networks(config) : route # Malformed /\ ~Whole(route) /\ Mask(route) = route)
        <=> \A i \in DOMAIN routes : routes[i] # Malformed /\ ~Whole(routes[i])
  <2>1. ASSUME NEW i \in DOMAIN servers
        PROVE  LET route == Host(servers[i])
               IN  route # Malformed /\ ~Whole(route) /\ Mask(route) = route
    BY <1>5, HostType, MaskHost, MalformedAssumption
  <2>2. ASSUME NEW i \in DOMAIN routes
        PROVE  LET route == Mask(routes[i])
               IN  route # Malformed /\ (Whole(route) <=> Whole(routes[i])) /\ Mask(route) = route
    <3>1. routes[i] \in Cidr
      BY <1>3
    <3>2. Mask(routes[i]) # Malformed /\ Mask(Mask(routes[i])) = Mask(routes[i])
      BY <3>1, MaskType, MaskTwice, MalformedAssumption
    <3> QED BY <3>2 DEF Whole, Mask
  <2>3. \A i \in DOMAIN routes : routes[i] # Malformed
    BY DEF ParsesRoutes
  <2> QED BY <2>1, <2>2, <2>3 DEF Networks
<1>8. Distinct(all) <=> \A i, j \in DOMAIN routes : Mask(routes[i]) = Mask(routes[j]) => i = j
  <2> HIDE DEF all, masked, routes, servers
  <2> QED BY <1>3, <1>4, ExtendsDistinct, MaskedDistinct
<1>9. Distinct(all) => Cardinality(Networks(config)) = Len(all)
  BY <1>6, DistinctLength DEF Distinct
<1>10. Len(all) >= 1 /\ Len(all) \in Nat /\ routes # <<>>
  <2>1. Len(routes) >= 1 /\ routes # <<>>
    BY <1>3 DEF ParsesRoutes
  <2> HIDE DEF all, masked, routes
  <2> QED BY <1>3, <1>6, <2>1 DEF Extends
<1>11. ValidRoutes(Build(config)) <=>
         /\ Len(all) \in 1..MaxRoutes
         /\ \A route \in Networks(config) : route # Malformed /\ ~Whole(route) /\ Mask(route) = route
         /\ Distinct(all)
  BY <1>6, ValidRoutesMeans
<1>12. Distinct(all) => (Len(all) \in 1..MaxRoutes <=> Cardinality(Networks(config)) <= MaxRoutes)
  BY <1>9, <1>10, LimitsAssumption
<1> HIDE DEF all, masked
<1> QED BY <1>7, <1>8, <1>10, <1>11, <1>12 DEF SoundRoutes

-----------------------------------------------------------------------------
(* The proposals of a sound profile *)

\* The members of a concatenation are those of its parts.
LEMMA ToSetConcat ==
  ASSUME NEW Y, NEW left \in Seq(Y), NEW right \in Seq(Y)
  PROVE  ToSet(left \o right) = ToSet(left) \cup ToSet(right)
<1> DEFINE both == left \o right
<1>1. /\ DOMAIN left = 1..Len(left) /\ DOMAIN right = 1..Len(right)
      /\ DOMAIN both = 1..(Len(left) + Len(right)) /\ Len(left) \in Nat /\ Len(right) \in Nat
      /\ \A i \in 1..Len(left) : both[i] = left[i]
      /\ \A i \in 1..Len(right) : both[Len(left) + i] = right[i]
  OBVIOUS
<1> HIDE DEF both
<1>2. ASSUME NEW i \in DOMAIN both PROVE both[i] \in ToSet(left) \cup ToSet(right)
  <2>1. CASE i <= Len(left)
    BY <1>1, <2>1 DEF ToSet
  <2>2. CASE i > Len(left)
    <3>1. i - Len(left) \in 1..Len(right) /\ Len(left) + (i - Len(left)) = i
      BY <1>1, <2>2
    <3>2. both[i] = right[i - Len(left)]
      BY <1>1, <3>1
    <3> QED BY <1>1, <3>1, <3>2 DEF ToSet
  <2> QED BY <1>1, <2>1, <2>2
<1>3. ASSUME NEW i \in DOMAIN left PROVE left[i] \in ToSet(both)
  <2>1. i \in DOMAIN both
    BY <1>1
  <2> QED BY <1>1, <2>1 DEF ToSet
<1>4. ASSUME NEW i \in DOMAIN right PROVE right[i] \in ToSet(both)
  <2>1. Len(left) + i \in DOMAIN both
    BY <1>1
  <2> QED BY <1>1, <2>1 DEF ToSet
<1>5. ToSet(both) \subseteq ToSet(left) \cup ToSet(right)
  BY <1>2 DEF ToSet
<1>6. ToSet(left) \subseteq ToSet(both) /\ ToSet(right) \subseteq ToSet(both)
  BY <1>3, <1>4 DEF ToSet
<1> QED BY <1>5, <1>6 DEF both

\* The one member of a sequence of length one.
LEMMA ToSetSingle ==
  ASSUME NEW Y, NEW x \in Y
  PROVE  <<x>> \in Seq(Y) /\ ToSet(<<x>>) = {x}
BY DEF ToSet

\* A length is a number.
LEMMA LenInNat ==
  ASSUME NEW Y, NEW seq \in Seq(Y)
  PROVE  Len(seq) \in Nat /\ Len(seq) \in 0..Len(seq)
OBVIOUS

\* An element in front of a sequence.
LEMMA PrependType ==
  ASSUME NEW Y, NEW seq \in Seq(Y), NEW y \in Y
  PROVE  <<y>> \o seq \in Seq(Y)
OBVIOUS

\* The empty sequence has no members.
LEMMA ToSetEmpty == ToSet(<<>>) = {}
BY DEF ToSet

\* Appending adds one member.
LEMMA ToSetAppend ==
  ASSUME NEW Y, NEW seq \in Seq(Y), NEW y \in Y
  PROVE  ToSet(Append(seq, y)) = ToSet(seq) \cup {y}
<1> DEFINE single == <<y>>
<1>1. single \in Seq(Y) /\ ToSet(single) = {y}
  BY ToSetSingle
<1>2. Append(seq, y) = seq \o single
  OBVIOUS
<1> HIDE DEF single
<1> QED BY <1>1, <1>2, ToSetConcat

\* The members have the type of the sequence, and there is one unless it is
\* empty.
LEMMA ToSetMember ==
  ASSUME NEW Y, NEW seq \in Seq(Y)
  PROVE  ToSet(seq) \subseteq Y /\ (seq # <<>> => ToSet(seq) # {})
<1>1. ToSet(seq) \subseteq Y
  BY DEF ToSet
<1>2. seq # <<>> => 1 \in DOMAIN seq
  OBVIOUS
<1> QED BY <1>1, <1>2 DEF ToSet

\* The choices among parts: there is one, and each part is in one.
LEMMA OneOfParts ==
  ASSUME NEW Y, NEW seq \in Seq(Y)
  PROVE  /\ OneOf(seq) # {}
         /\ \A choice \in OneOf(seq) : choice \in Seq(Y) /\ ToSet(choice) \subseteq ToSet(seq)
         /\ \A part \in ToSet(seq) : \E choice \in OneOf(seq) : part \in ToSet(choice)
<1>1. CASE seq = <<>>
  <2>1. OneOf(seq) = {<<>>}
    BY <1>1 DEF OneOf
  <2>2. ToSet(seq) = {} /\ <<>> \in Seq(Y)
    BY <1>1, ToSetEmpty
  <2> QED BY <2>1, <2>2, ToSetEmpty
<1>2. CASE seq # <<>>
  <2>1. OneOf(seq) = {<<part>> : part \in ToSet(seq)}
    BY <1>2 DEF OneOf
  <2>2. ToSet(seq) \subseteq Y /\ ToSet(seq) # {}
    BY <1>2, ToSetMember
  <2>3. ASSUME NEW part \in ToSet(seq)
        PROVE  <<part>> \in OneOf(seq) /\ <<part>> \in Seq(Y) /\ ToSet(<<part>>) = {part}
    <3>1. part \in Y
      BY <2>2
    <3> QED BY <2>1, <3>1, ToSetSingle
  <2>4. \A choice \in OneOf(seq) : \E part \in ToSet(seq) : choice = <<part>>
    BY <2>1
  <2>5. \A choice \in OneOf(seq) : choice \in Seq(Y) /\ ToSet(choice) \subseteq ToSet(seq)
    <3> SUFFICES ASSUME NEW choice \in OneOf(seq)
                 PROVE  choice \in Seq(Y) /\ ToSet(choice) \subseteq ToSet(seq)
      OBVIOUS
    <3>1. PICK part \in ToSet(seq) : choice = <<part>>
      BY <2>4
    <3> QED BY <2>3, <3>1
  <2>6. \A part \in ToSet(seq) : \E choice \in OneOf(seq) : part \in ToSet(choice)
    <3> SUFFICES ASSUME NEW part \in ToSet(seq)
                 PROVE  \E choice \in OneOf(seq) : part \in ToSet(choice)
      OBVIOUS
    <3> QED BY <2>3
  <2>7. OneOf(seq) # {}
    BY <2>2, <2>3
  <2> QED BY <2>5, <2>6, <2>7
<1> QED BY <1>1, <1>2

\* The parts of a proposal.
LEMMA ProposalParts ==
  ASSUME NEW Y, NEW enc \in Y, NEW auth \in Seq(Y), NEW prf \in Seq(Y), NEW group \in Seq(Y)
  PROVE  ToSet(<<enc>> \o auth \o prf \o group) =
           {enc} \cup ToSet(auth) \cup ToSet(prf) \cup ToSet(group)
<1> DEFINE one == <<enc>>
           two == one \o auth
           three == two \o prf
<1>1. one \in Seq(Y) /\ ToSet(one) = {enc}
  BY ToSetSingle
<1> HIDE DEF one
<1>2. two \in Seq(Y) /\ ToSet(two) = {enc} \cup ToSet(auth)
  BY <1>1, ToSetConcat
<1> HIDE DEF two
<1>3. three \in Seq(Y) /\ ToSet(three) = {enc} \cup ToSet(auth) \cup ToSet(prf)
  BY <1>2, ToSetConcat
<1> HIDE DEF three
<1>4. ToSet(three \o group) = ToSet(three) \cup ToSet(group)
  BY <1>3, ToSetConcat
<1>5. three \o group = <<enc>> \o auth \o prf \o group
  BY DEF one, two, three
<1> QED BY <1>3, <1>4, <1>5

\* The ways to authenticate that go with a cipher.
Auths(suite, enc) == IF enc \in Aead THEN {<<>>} ELSE OneOf(suite.integrities)

\* What stands for the integrity in a proposal: nothing for a cipher that
\* authenticates by itself, else one of the algorithms.
LEMMA AuthsParts ==
  ASSUME NEW suite \in Suite, NEW prfs, NEW groups, BuildsProposals(suite, prfs, groups),
         NEW enc \in ToSet(suite.encryptions)
  PROVE  /\ Auths(suite, enc) # {}
         /\ \A auth \in Auths(suite, enc) :
              /\ auth \in Seq(STRING) /\ ToSet(auth) \subseteq ToSet(suite.integrities)
              /\ enc \in Aead => ToSet(auth) = {}
         /\ enc \notin Aead => \A part \in ToSet(suite.integrities) :
                                 \E auth \in Auths(suite, enc) : part \in ToSet(auth)
<1>1. suite.integrities \in Seq(STRING)
  BY DEF Suite
<1>2. <<>> \in Seq(STRING) /\ ToSet(<<>>) = {}
  BY ToSetEmpty
<1>3. CASE enc \in Aead
  BY <1>2, <1>3 DEF Auths
<1>4. CASE enc \notin Aead
  <2>1. Auths(suite, enc) = OneOf(suite.integrities)
    BY <1>4 DEF Auths
  <2> QED BY <1>1, <1>4, <2>1, OneOfParts
<1> QED BY <1>3, <1>4

\* The proposals of a suite are valid when all its parts that are used are in
\* small letters.
LEMMA ProposalsSound ==
  ASSUME NEW suite \in Suite, NEW prfs \in Seq(STRING), NEW groups \in Seq(STRING),
         BuildsProposals(suite, prfs, groups)
  PROVE  ValidProposals(BuildProposals(suite, prfs, groups)) <=>
           /\ SoundSuite(suite) /\ SoundNames(prfs) /\ SoundNames(groups)
<1> DEFINE encs == ToSet(suite.encryptions)
           proposals == BuildProposals(suite, prfs, groups)
           Parts(enc, auth, prf, group) == {enc} \cup ToSet(auth) \cup ToSet(prf) \cup ToSet(group)
           Valid4 == \A enc \in encs : \A auth \in Auths(suite, enc) :
                       \A prf \in OneOf(prfs) : \A group \in OneOf(groups) :
                         Parts(enc, auth, prf, group) \cap Capital = {}
<1>1. suite.encryptions \in Seq(STRING) /\ encs \subseteq STRING /\ suite.encryptions # <<>>
  BY DEF Suite, ToSet, BuildsProposals
<1>2. encs # {}
  BY <1>1, ToSetMember
<1>3. ASSUME NEW enc \in encs, NEW auth \in Auths(suite, enc), NEW prf \in OneOf(prfs),
             NEW group \in OneOf(groups)
      PROVE  ToSet(<<enc>> \o auth \o prf \o group) = Parts(enc, auth, prf, group)
  <2>1. enc \in STRING /\ auth \in Seq(STRING)
    BY <1>1, AuthsParts
  <2>2. prf \in Seq(STRING) /\ group \in Seq(STRING)
    BY OneOfParts
  <2> QED BY <2>1, <2>2, ProposalParts
<1>4. ValidProposals(proposals) <=> Valid4
  <2> DEFINE Choice(enc, auth, prf, group) == <<enc>> \o auth \o prf \o group
             Of(enc) == {Choice(enc, auth, prf, group) :
                           auth \in Auths(suite, enc), prf \in OneOf(prfs), group \in OneOf(groups)}
  <2>1. proposals = UNION {Of(enc) : enc \in encs}
    BY DEF BuildProposals, Auths
  <2>2. \A enc \in encs : \A auth \in Auths(suite, enc) :
          \A prf \in OneOf(prfs) : \A group \in OneOf(groups) :
            ToSet(Choice(enc, auth, prf, group)) = Parts(enc, auth, prf, group)
    BY <1>3
  <2>3. ValidProposals(proposals) <=> \A proposal \in proposals : ToSet(proposal) \cap Capital = {}
    BY DEF ValidProposals
  <2> HIDE DEF proposals, encs, Parts, Choice
  <2>4. \A enc \in encs : \A proposal :
          proposal \in Of(enc) <=>
            \E auth \in Auths(suite, enc) : \E prf \in OneOf(prfs) : \E group \in OneOf(groups) :
              proposal = Choice(enc, auth, prf, group)
    OBVIOUS
  <2> HIDE DEF Of
  <2>5. \A proposal : proposal \in proposals <=> \E enc \in encs : proposal \in Of(enc)
    BY <2>1
  <2>6. ASSUME ValidProposals(proposals) PROVE Valid4
    <3> SUFFICES ASSUME NEW enc \in encs, NEW auth \in Auths(suite, enc), NEW prf \in OneOf(prfs),
                        NEW group \in OneOf(groups)
                 PROVE  Parts(enc, auth, prf, group) \cap Capital = {}
      OBVIOUS
    <3>1. Choice(enc, auth, prf, group) \in proposals
      BY <2>4, <2>5
    <3> QED BY <2>2, <2>3, <2>6, <3>1
  <2>7. ASSUME Valid4 PROVE ValidProposals(proposals)
    <3> SUFFICES ASSUME NEW proposal \in proposals PROVE ToSet(proposal) \cap Capital = {}
      BY <2>3
    <3>1. PICK enc \in encs : proposal \in Of(enc)
      BY <2>5
    <3>2. PICK auth \in Auths(suite, enc), prf \in OneOf(prfs), group \in OneOf(groups) :
            proposal = Choice(enc, auth, prf, group)
      BY <2>4, <3>1
    <3> QED BY <2>2, <2>7, <3>2
  <2> QED BY <2>6, <2>7
<1>5. ASSUME Valid4
      PROVE  SoundSuite(suite) /\ SoundNames(prfs) /\ SoundNames(groups)
  <2>1. PICK enc \in encs : TRUE
    BY <1>2
  <2>2. PICK auth \in Auths(suite, enc) : TRUE
    BY AuthsParts
  <2>3. PICK prf \in OneOf(prfs) : TRUE
    BY OneOfParts
  <2>4. PICK group \in OneOf(groups) : TRUE
    BY OneOfParts
  <2>5. \A e \in encs : e \notin Capital
    <3> SUFFICES ASSUME NEW e \in encs PROVE e \notin Capital
      OBVIOUS
    <3>1. PICK a \in Auths(suite, e) : TRUE
      BY AuthsParts
    <3> QED BY <1>5, <2>3, <2>4, <3>1
  <2>6. \A part \in ToSet(prfs) : part \notin Capital
    <3> SUFFICES ASSUME NEW part \in ToSet(prfs) PROVE part \notin Capital
      OBVIOUS
    <3>1. PICK choice \in OneOf(prfs) : part \in ToSet(choice)
      BY OneOfParts
    <3> QED BY <1>5, <2>1, <2>2, <2>4, <3>1
  <2>7. \A part \in ToSet(groups) : part \notin Capital
    <3> SUFFICES ASSUME NEW part \in ToSet(groups) PROVE part \notin Capital
      OBVIOUS
    <3>1. PICK choice \in OneOf(groups) : part \in ToSet(choice)
      BY OneOfParts
    <3> QED BY <1>5, <2>1, <2>2, <2>3, <3>1
  <2>8. encs \subseteq Aead \/ (suite.integrities # <<>> /\ ToSet(suite.integrities) \cap Capital = {})
    <3> SUFFICES ASSUME ~(encs \subseteq Aead), NEW part \in ToSet(suite.integrities)
                 PROVE  part \notin Capital
      BY DEF BuildsProposals
    <3>1. PICK e \in encs : e \notin Aead
      OBVIOUS
    <3>2. PICK a \in Auths(suite, e) : part \in ToSet(a)
      BY <3>1, AuthsParts
    <3> QED BY <1>5, <2>3, <2>4, <3>1, <3>2
  <2>9. /\ Readable(suite.encryptions) /\ Readable(suite.integrities)
        /\ Readable(prfs) /\ Readable(groups)
    BY DEF BuildsProposals
  <2> QED BY <1>1, <2>5, <2>6, <2>7, <2>8, <2>9 DEF SoundSuite, SoundNames
<1>6. ASSUME SoundSuite(suite), SoundNames(prfs), SoundNames(groups)
      PROVE  Valid4
  <2> SUFFICES ASSUME NEW enc \in encs, NEW auth \in Auths(suite, enc), NEW prf \in OneOf(prfs),
                      NEW group \in OneOf(groups)
               PROVE  Parts(enc, auth, prf, group) \cap Capital = {}
    OBVIOUS
  <2>1. enc \notin Capital
    BY <1>6 DEF SoundSuite, SoundNames
  <2>2. ToSet(auth) \cap Capital = {}
    BY <1>6, AuthsParts DEF SoundSuite, SoundNames
  <2>3. ToSet(prf) \cap Capital = {} /\ ToSet(group) \cap Capital = {}
    BY <1>6, OneOfParts DEF SoundNames
  <2> QED BY <2>1, <2>2, <2>3
<1> QED BY <1>4, <1>5, <1>6

\* A suite makes proposals the helper takes exactly when its parts are sound.
LEMMA SuiteSound ==
  ASSUME NEW suite \in Suite, NEW prfs \in Seq(STRING), NEW groups \in Seq(STRING)
  PROVE  /\ BuildsProposals(suite, prfs, groups)
         /\ ValidProposals(BuildProposals(suite, prfs, groups))
         <=> SoundSuite(suite) /\ SoundNames(prfs) /\ SoundNames(groups)
<1>1. SoundSuite(suite) /\ SoundNames(prfs) /\ SoundNames(groups) =>
        BuildsProposals(suite, prfs, groups)
  BY DEF SoundSuite, SoundNames, BuildsProposals
<1> QED BY <1>1, ProposalsSound

\* No names are sound names.
LEMMA NoNamesSound == SoundNames(<<>>)
BY ToSetEmpty DEF SoundNames, Readable

\* The proposals of IKE, as far as they are used.
LEMMA IkeSound ==
  ASSUME NEW ip \in IPsec
  PROVE  /\ BuildsProposals(ip.phase1, UsedPRFs(ip), ip.groups)
         /\ ValidProposals(IPsecRequest(ip).ike)
         <=> /\ SoundSuite(ip.phase1)
             /\ ip.version = 1 \/ SoundNames(ip.prfs)
             /\ SoundNames(ip.groups)
<1>1. ip.phase1 \in Suite /\ ip.prfs \in Seq(STRING) /\ ip.groups \in Seq(STRING)
  BY DEF IPsec
<1>2. UsedPRFs(ip) \in Seq(STRING)
  <2>1. <<>> \in Seq(STRING)
    OBVIOUS
  <2> QED BY <1>1, <2>1 DEF UsedPRFs
<1>3. SoundNames(UsedPRFs(ip)) <=> (ip.version = 1 \/ SoundNames(ip.prfs))
  BY NoNamesSound DEF UsedPRFs
<1>4. IPsecRequest(ip).ike = BuildProposals(ip.phase1, UsedPRFs(ip), ip.groups)
  BY DEF IPsecRequest
<1> QED BY <1>1, <1>2, <1>3, <1>4, SuiteSound

\* Those of ESP, one list for each suite of phase 2.
LEMMA EspSound ==
  ASSUME NEW ip \in IPsec
  PROVE  /\ \A suite \in ToSet(ip.phase2) : BuildsProposals(suite, <<>>, UsedGroups(ip))
         /\ ValidProposals(IPsecRequest(ip).esp)
         <=> /\ \A suite \in ToSet(ip.phase2) : SoundSuite(suite)
             /\ ip.pfs => SoundNames(ip.pfsGroups)
<1> DEFINE groups == UsedGroups(ip)
           suites == ToSet(ip.phase2)
<1>1. groups \in Seq(STRING) /\ <<>> \in Seq(STRING)
  <2>1. ip.pfsGroups \in Seq(STRING)
    BY DEF IPsec
  <2>2. <<>> \in Seq(STRING)
    OBVIOUS
  <2> QED BY <2>1, <2>2 DEF UsedGroups
<1>2. SoundNames(groups) <=> (ip.pfs => SoundNames(ip.pfsGroups))
  BY NoNamesSound DEF UsedGroups, IPsec
<1>3. IPsecRequest(ip).esp = UNION {BuildProposals(suite, <<>>, groups) : suite \in suites}
  BY DEF IPsecRequest
<1>4. ip.phase2 \in Seq(Suite) /\ ip.phase2 # <<>>
  BY DEF IPsec
<1>5. suites \subseteq Suite /\ suites # {}
  BY <1>4, ToSetMember
<1> HIDE DEF groups, suites
<1>6. ValidProposals(IPsecRequest(ip).esp) <=>
        \A suite \in suites : ValidProposals(BuildProposals(suite, <<>>, groups))
  BY <1>3 DEF ValidProposals
<1>7. ASSUME NEW suite \in suites
      PROVE  /\ BuildsProposals(suite, <<>>, groups)
             /\ ValidProposals(BuildProposals(suite, <<>>, groups))
             <=> SoundSuite(suite) /\ SoundNames(groups)
  <2>1. suite \in Suite
    BY <1>5
  <2> QED BY <1>1, <2>1, SuiteSound, NoNamesSound
<1>8. (/\ \A suite \in suites : BuildsProposals(suite, <<>>, groups)
       /\ ValidProposals(IPsecRequest(ip).esp)) <=>
      (\A suite \in suites : SoundSuite(suite)) /\ SoundNames(groups)
  BY <1>5, <1>6, <1>7
<1> QED BY <1>2, <1>8 DEF suites, groups

-----------------------------------------------------------------------------
(* The credentials of a sound profile *)

\* The fields of a profile that are looked at.
LEMMA ConfigFields ==
  ASSUME NEW config \in Config
  PROVE  /\ config.type \in Types /\ config.ipsec \in IPsec
         /\ config.host \in Text /\ config.port \in Text
         /\ config.user \in Text /\ config.password \in Text
         /\ config.browser \in BOOLEAN /\ config.lines \in Seq(Line)
BY DEF Config

\* A gateway profile is taken for its credentials alone.
LEMMA GatewaySound ==
  ASSUME NEW config \in Config, config.type \in {"openfortivpn", "openconnect"}
  PROVE  config.port # "" /\ ValidGateway(Build(config)) <=> SoundCredentials(config)
<1> DEFINE r == Build(config)
<1>1. /\ r.protocol = config.type /\ r.host = config.host /\ r.user = config.user
      /\ r.password = config.password /\ r.port = config.port
      /\ r.browser = (config.type = "openconnect" /\ config.browser)
  BY BuildFields
<1> HIDE DEF r
<1>2. ValidGateway(r) <=>
        /\ config.host = "good" /\ config.port = "good"
        /\ \/ config.user = "good" /\ config.password = "good"
           \/ /\ config.type = "openconnect" /\ config.browser
              /\ {config.user, config.password} \subseteq {"", "good"}
  BY <1>1 DEF ValidGateway
<1>3. {config.user, config.password} \subseteq {"", "good"} <=>
        config.user # "bad" /\ config.password # "bad"
  BY ConfigFields DEF Text
<1> QED BY <1>2, <1>3 DEF SoundCredentials, r

\* What is sent for the options of a profile is valid when they are sound.
LEMMA OptionsSound ==
  ASSUME NEW ip \in IPsec
  PROVE  (/\ {IPsecRequest(ip).localID, IPsecRequest(ip).remoteID} \subseteq Text \ {"bad"}
          /\ IPsecRequest(ip).fragmentation \in {"yes", "no", "accept"}
          /\ IPsecRequest(ip).dpdAction \in {"none", "clear", "hold", "restart"}
          /\ \A t \in Timing :
               /\ IPsecRequest(ip).timing[t] \notin {"low", "high"}
               /\ IPsecRequest(ip).timing[t] = "unset" => t \in {"DPDDelay", "DPDTimeout"})
         <=> SoundOptions(ip)
<1> DEFINE r == IPsecRequest(ip)
<1>1. /\ r.localID = ip.localID /\ r.remoteID = ip.remoteID
      /\ r.fragmentation = Filled(ip.fragmentation, "yes")
      /\ r.dpdAction = Filled(ip.dpdAction, "restart")
      /\ r.timing = [t \in Timing |-> Raised(ip.timing[t])]
  BY DEF IPsecRequest
<1> HIDE DEF r
<1>2. {r.localID, r.remoteID} \subseteq Text \ {"bad"} <=> ip.localID # "bad" /\ ip.remoteID # "bad"
  BY <1>1 DEF IPsec
<1>3. r.fragmentation \in {"yes", "no", "accept"} <=>
        ip.fragmentation \in {"", "yes", "no", "accept"}
  BY <1>1 DEF Filled
<1>4. r.dpdAction \in {"none", "clear", "hold", "restart"} <=>
        ip.dpdAction \in {"", "none", "clear", "hold", "restart"}
  BY <1>1 DEF Filled
<1>5. ASSUME NEW t \in Timing
      PROVE  (/\ r.timing[t] \notin {"low", "high"}
              /\ r.timing[t] = "unset" => t \in {"DPDDelay", "DPDTimeout"})
             <=> ip.timing[t] # "high"
  <2>1. r.timing[t] = Raised(ip.timing[t])
    BY <1>1
  <2> QED BY <2>1 DEF Raised
<1> QED BY <1>2, <1>3, <1>4, <1>5 DEF SoundOptions, r

\* An IPsec profile for those, its options and its ciphers.
LEMMA IPsecSound ==
  ASSUME NEW config \in Config, config.type = "ipsec"
  PROVE  BuildsIPsec(config.ipsec) /\ ValidIPsec(Build(config))
         <=> SoundCredentials(config) /\ SoundCiphers(config.ipsec)
<1> DEFINE r == Build(config)
           ip == config.ipsec
           sent == IPsecRequest(ip)
<1>1. /\ r.host = config.host /\ r.user = config.user /\ r.password = config.password
      /\ r.ipsec = sent
  BY BuildFields
<1>2. ip \in IPsec /\ config.user \in Text /\ config.password \in Text
  BY ConfigFields
<1> HIDE DEF r, ip
<1>4. /\ sent.version = ip.version /\ sent.psk = ip.psk
      /\ sent.auth = IF ip.version = 1 /\ ip.auth = "eap" THEN "xauth" ELSE ip.auth
  BY <1>2 DEF IPsecRequest
<1>5. BuildsIPsec(ip) /\ ValidProposals(sent.ike) /\ ValidProposals(sent.esp) <=>
        /\ \A suite \in {ip.phase1} \cup ToSet(ip.phase2) : SoundSuite(suite)
        /\ ip.version = 1 \/ SoundNames(ip.prfs)
        /\ SoundNames(ip.groups)
        /\ ip.pfs => SoundNames(ip.pfsGroups)
  BY <1>2, IkeSound, EspSound DEF BuildsIPsec
<1> DEFINE Options ==
      /\ {sent.localID, sent.remoteID} \subseteq Text \ {"bad"}
      /\ sent.fragmentation \in {"yes", "no", "accept"}
      /\ sent.dpdAction \in {"none", "clear", "hold", "restart"}
      /\ \A t \in Timing :
           /\ sent.timing[t] \notin {"low", "high"}
           /\ sent.timing[t] = "unset" => t \in {"DPDDelay", "DPDTimeout"}
<1>8. Options <=> SoundOptions(ip)
  BY <1>2, OptionsSound
<1> HIDE DEF sent
<1>6. (/\ sent.auth \in {"none", "xauth", "eap"}
       /\ sent.version = 1 => sent.auth # "eap"
       /\ sent.auth # "none" => r.user # "" /\ r.password # "") <=>
      (/\ ip.auth \in {"none", "xauth", "eap"}
       /\ ip.auth = "none" \/ (config.user # "" /\ config.password # ""))
  BY <1>1, <1>4
<1>7. SoundCredentials(config) <=>
        /\ config.user # "bad" /\ config.password # "bad" /\ config.host = "good"
        /\ ip.psk = "good" /\ SoundOptions(ip)
        /\ ip.auth \in {"none", "xauth", "eap"}
        /\ ip.auth = "none" \/ (config.user # "" /\ config.password # "")
  BY DEF SoundCredentials, ip
<1>9. ValidIPsec(r) <=>
        /\ r.host = "good" /\ sent.version \in {1, 2} /\ sent.psk = "good"
        /\ sent.auth \in {"none", "xauth", "eap"}
        /\ sent.version = 1 => sent.auth # "eap"
        /\ sent.auth # "none" => r.user # "" /\ r.password # ""
        /\ config.user # "bad" /\ config.password # "bad" /\ Options
        /\ ValidProposals(sent.ike) /\ ValidProposals(sent.esp)
  BY <1>1, <1>2 DEF ValidIPsec
<1> HIDE DEF Options
<1> QED BY <1>1, <1>4, <1>5, <1>6, <1>7, <1>8, <1>9 DEF SoundCiphers, ip, r

-----------------------------------------------------------------------------
(* Sanitize *)

Scan == [ok : BOOLEAN, inline : Words \cup {""}, result : Seq(Line)]
Start == [ok |-> TRUE, inline |-> "", result |-> <<>>]

\* The fields a line has by its kind.
LEMMA LineKinds ==
  ASSUME NEW line \in Line
  PROVE  /\ line.kind \in {"comment", "begin", "end", "directive"}
         /\ line.kind \in {"begin", "end"} => line.tag \in Words
         /\ line.kind = "directive" => line.name \in Words
<1>1. CASE line = Comment
  BY <1>1 DEF Comment
<1>2. ASSUME NEW word \in Words, line \in {Begin(word), End(word), Directive(word)}
      PROVE  /\ line.kind \in {"begin", "end", "directive"}
             /\ line.kind \in {"begin", "end"} => line.tag \in Words
             /\ line.kind = "directive" => line.name \in Words
  BY <1>2 DEF Begin, End, Directive
<1>3. ASSUME NEW word \in Words, line \in {Remote(word), DashedRemote(word)}
      PROVE  line.kind = "directive" /\ line.name \in Words
  BY <1>3, WordsAssumption DEF Remote, DashedRemote
<1>4. \/ line = Comment
      \/ \E word \in Words : line \in {Begin(word), End(word), Directive(word)}
      \/ \E word \in Words : line \in {Remote(word), DashedRemote(word)}
  BY DEF Line
<1> QED BY <1>1, <1>2, <1>3, <1>4

\* A line that does not end the scan is dropped or kept.
LEMMA StepKeeps ==
  ASSUME NEW scan \in Scan, NEW line \in Line
  PROVE  /\ Step(scan, line) \in Scan
         /\ Step(scan, line).ok =>
              scan.ok /\ (\/ Step(scan, line) = scan
                          \/ Step(scan, line).result = Append(scan.result, line))
<1> DEFINE kept == Keep(scan, line)
<1>1. /\ kept \in Scan /\ kept.ok = scan.ok /\ kept.inline = scan.inline
      /\ kept.result = Append(scan.result, line)
  <2>1. scan.result \in Seq(Line)
    BY DEF Scan
  <2>2. Append(scan.result, line) \in Seq(Line)
    BY <2>1
  <2> DEFINE longer == Append(scan.result, line)
  <2>3. kept = [scan EXCEPT !.result = longer]
    BY DEF Keep
  <2> HIDE DEF longer, kept
  <2>4. longer \in Seq(Line)
    BY <2>2 DEF longer
  <2>5. kept \in Scan /\ kept.ok = scan.ok /\ kept.inline = scan.inline /\ kept.result = longer
    BY <2>3, <2>4 DEF Scan
  <2> QED BY <2>5 DEF longer
<1>2. \A tag \in Words \cup {""} : LET next == [kept EXCEPT !.inline = tag]
                          IN  next \in Scan /\ next.ok = scan.ok /\ next.result = Append(scan.result, line)
  BY <1>1 DEF Scan
<1>3. Fail(scan) \in Scan /\ ~Fail(scan).ok
  BY DEF Fail, Scan
<1>4. scan \in Scan /\ scan.ok \in BOOLEAN /\ scan.inline \in Words \cup {""}
  BY DEF Scan
<1> HIDE DEF kept
<1>5. CASE ~scan.ok
  BY <1>4, <1>5 DEF Step
<1>6. CASE scan.ok /\ scan.inline # ""
  <2>1. Step(scan, line) = IF line.kind = "end" /\ line.tag = scan.inline
                           THEN [kept EXCEPT !.inline = ""] ELSE kept
    BY <1>6 DEF Step, Inside, kept
  <2> QED BY <1>1, <1>2, <1>4, <1>6, <2>1
<1>7. CASE scan.ok /\ scan.inline = ""
  <2>0. Step(scan, line) = Outside(scan, line)
    BY <1>7 DEF Step
  <2>1. CASE line.kind = "comment"
    <3>1. Outside(scan, line) = kept
      BY <2>1 DEF Outside, kept
    <3> QED BY <1>1, <1>7, <2>0, <3>1
  <2>2. CASE line.kind = "begin"
    <3>1. Outside(scan, line) = IF line.tag \in Supported THEN [kept EXCEPT !.inline = line.tag]
                                ELSE Fail(scan)
      BY <2>2 DEF Outside, kept
    <3>2. line.tag \in Words
      BY <2>2, LineKinds
    <3>3. CASE line.tag \in Supported
      <4>1. Step(scan, line) = [kept EXCEPT !.inline = line.tag]
        BY <2>0, <3>1, <3>3
      <4> QED BY <1>2, <1>7, <3>2, <4>1
    <3>4. CASE line.tag \notin Supported
      BY <1>3, <2>0, <3>1, <3>4
    <3> QED BY <3>3, <3>4
  <2>3. CASE line.kind = "end"
    <3>1. Outside(scan, line) = Fail(scan)
      BY <2>3 DEF Outside
    <3> QED BY <1>3, <2>0, <3>1
  <2>4. CASE line.kind = "directive"
    <3>1. Outside(scan, line) = IF line.name \in Rejected THEN Fail(scan)
                                ELSE IF IsRemoved(line) THEN scan ELSE kept
      BY <2>4 DEF Outside, kept
    <3> QED BY <1>1, <1>3, <1>4, <1>7, <2>0, <3>1
  <2> QED BY <2>1, <2>2, <2>3, <2>4, LineKinds
<1> QED BY <1>4, <1>5, <1>6, <1>7

\* The fold, its step a function.
ScanStep == [p \in Scan \X Line |-> Step(p[1], p[2])]

\* The step maps a scan and a line to a scan.
LEMMA ScanStepType == IsStep(ScanStep, Scan, Line)
BY StepKeeps DEF ScanStep, IsStep

\* It is Step.
LEMMA ScanStepIs ==
  ASSUME NEW scan \in Scan, NEW line \in Line
  PROVE  ScanStep[<<scan, line>>] = Step(scan, line)
BY DEF ScanStep

\* The scan of nothing.
LEMMA StartType == Start \in Scan
<1>1. <<>> \in Seq(Line)
  OBVIOUS
<1> QED BY <1>1 DEF Start, Scan

\* Scanned as a fold computed by a function.
LEMMA ScannedFolds ==
  ASSUME NEW lines \in Seq(Line)
  PROVE  Scanned(lines) = Foldl(ScanStep, Start, lines)
<1> DEFINE X == Scan
           D == DOMAIN lines
           Body(f, s) == IF s = {} THEN Start
                         ELSE Step(f[s \ {Max(s)}], lines[Max(s)])
           P(f) == f = [s \in SUBSET D |-> Body(f, s)]
           c == CHOOSE f : P(f)
<1>1. \A s \in SUBSET D : s # {} => lines[Max(s)] \in Line
  <2>1. Len(lines) \in Nat /\ D = 1..Len(lines)
    OBVIOUS
  <2>2. \A s \in SUBSET D : s # {} => Max(s) \in D
    BY <2>1, MaxIn
  <2> QED BY <2>1, <2>2
<1>2. PICK F : IsFold(F, X, ScanStep, Start, lines)
  BY StartType, ScanStepType, FoldIsDefined
<1>3. P(F)
  <2>1. ASSUME NEW s \in SUBSET D PROVE F[s] = Body(F, s)
    <3>1. F[s \ {Max(s)}] \in X
      BY <1>2 DEF IsFold
    <3> QED BY <1>1, <1>2, <3>1, ScanStepIs DEF IsFold
  <2>2. F = [s \in SUBSET D |-> F[s]]
    BY <1>2 DEF IsFold
  <2> HIDE DEF Body, D
  <2> QED BY <2>1, <2>2
<1>4. P(c)
  <2> HIDE DEF P
  <2> QED BY <1>3
<1>5. Follows(c, X, ScanStep, Start, lines)
  <2>1. \A s \in SUBSET D : c[s] = Body(c, s)
    <3>1. P(c) => \A s \in SUBSET D : c[s] = Body(c, s)
      <4> HIDE DEF c, Body, D
      <4> QED OBVIOUS
    <3> HIDE DEF P
    <3> QED BY <1>4, <3>1
  <2> HIDE DEF c
  <2> QED BY <1>1, <2>1, ScanStepIs DEF Follows
<1>6. Scanned(lines) = c[D]
  BY DEF Scanned, FoldLeft, MapThenFoldSet, Start
<1>7. c[D] = Foldl(ScanStep, Start, lines)
  <2> HIDE DEF c
  <2> QED BY <1>5, StartType, ScanStepType, FoldIs
<1> HIDE DEF c
<1> QED BY <1>6, <1>7

\* What is scanned of no line and of one line more.
LEMMA ScannedRecurs ==
  /\ Scanned(<<>>) = Start
  /\ \A lines \in Seq(Line) : Scanned(lines) \in Scan
  /\ \A lines \in Seq(Line), line \in Line :
       Append(lines, line) \in Seq(Line) /\ Scanned(Append(lines, line)) = Step(Scanned(lines), line)
<1>1. Scanned(<<>>) = Start
  <2>1. <<>> \in Seq(Line)
    OBVIOUS
  <2> QED BY <2>1, ScannedFolds, StartType, ScanStepType, FoldlEmpty
<1>2. ASSUME NEW lines \in Seq(Line) PROVE Scanned(lines) \in Scan
  BY ScannedFolds, StartType, ScanStepType, FoldlType
<1>3. ASSUME NEW lines \in Seq(Line), NEW line \in Line
      PROVE  /\ Append(lines, line) \in Seq(Line)
             /\ Scanned(Append(lines, line)) = Step(Scanned(lines), line)
  <2>1. Append(lines, line) \in Seq(Line)
    OBVIOUS
  <2>2. Foldl(ScanStep, Start, Append(lines, line)) = ScanStep[<<Foldl(ScanStep, Start, lines), line>>]
    BY StartType, ScanStepType, FoldlAppend
  <2>3. Scanned(Append(lines, line)) = ScanStep[<<Scanned(lines), line>>]
    BY <2>1, <2>2, ScannedFolds
  <2> QED BY <1>2, <2>1, <2>3, ScanStepIs
<1> QED BY <1>1, <1>2, <1>3

\* A text that has been scanned without an error stays as it is when it is
\* scanned again.
LEMMA ScanAgain ==
  ASSUME NEW lines \in Seq(Line), Scanned(lines).ok
  PROVE  Scanned(Scanned(lines).result) = Scanned(lines)
<1> DEFINE T == {some \in Seq(Line) : Scanned(some).ok => Scanned(Scanned(some).result) = Scanned(some)}
<1>1. <<>> \in T
  <2>1. <<>> \in Seq(Line) /\ Start.result = <<>>
    BY DEF Start
  <2> QED BY <2>1, ScannedRecurs
<1>2. ASSUME NEW some \in Seq(Line), NEW line \in Line, some \in T
      PROVE  Append(some, line) \in T
  <2> DEFINE scan == Scanned(some)
             next == Step(scan, line)
  <2>1. /\ scan \in Scan /\ Append(some, line) \in Seq(Line)
        /\ Scanned(Append(some, line)) = next
    BY ScannedRecurs
  <2>2. scan.result \in Seq(Line)
    BY <2>1 DEF Scan
  <2>3. scan.ok => Scanned(scan.result) = scan
    BY <1>2
  <2>4. Scanned(Append(scan.result, line)) = Step(Scanned(scan.result), line)
    BY <2>2, ScannedRecurs
  <2>5. next.ok => scan.ok /\ (next = scan \/ next.result = Append(scan.result, line))
    BY <2>1, StepKeeps
  <2> HIDE DEF scan
  <2>6. next.ok => Scanned(next.result) = next
    BY <2>3, <2>4, <2>5
  <2> QED BY <2>1, <2>6
<1>3. Seq(Line) \subseteq T
  <2> HIDE DEF T
  <2> QED BY <1>1, <1>2, SeqInduction
<1> QED BY <1>3

\* The three lines of the settings.
LEMMA SettingsLines ==
  /\ Directive("route-nopull") \in Line /\ Directive("script-security") \in Line
  /\ Directive("auth-nocache") \in Line
BY WordsAssumption DEF Line, Removed

\* The settings of Sanitize, appended one by one.
LEMMA AppendSettings ==
  ASSUME NEW lines \in Seq(Line)
  PROVE  lines \o Settings = Append(Append(Append(lines, Directive("route-nopull")),
                                           Directive("script-security")), Directive("auth-nocache"))
<1> DEFINE one == Directive("route-nopull")
           two == Directive("script-security")
           three == Directive("auth-nocache")
<1>1. Settings = <<one, two, three>>
  BY DEF Settings
<1> HIDE DEF one, two, three
<1>2. lines \o <<one, two, three>> = Append(Append(Append(lines, one), two), three)
  OBVIOUS
<1> QED BY <1>1, <1>2 DEF one, two, three

\* Three lines more are three lines more.
LEMMA ThreeMore ==
  ASSUME NEW Y, NEW seq \in Seq(Y), NEW one \in Y, NEW two \in Y, NEW three \in Y
  PROVE  /\ Append(Append(Append(seq, one), two), three) \in Seq(Y)
         /\ Len(Append(Append(Append(seq, one), two), three)) = Len(seq) + 3
OBVIOUS

\* A text that is scanned without an error, up to the end of its last block.
Closed(lines) == Scanned(lines).ok /\ Scanned(lines).inline = ""

\* Of the settings the last is kept when they are scanned again.
LEMMA ScanSettings ==
  ASSUME NEW lines \in Seq(Line), Closed(lines)
  PROVE  /\ Sanitize(lines) \in Seq(Line)
         /\ Len(Sanitize(lines)) = Len(Scanned(lines).result) + 3
         /\ Scanned(Sanitize(lines)) = Keep(Scanned(lines), Directive("auth-nocache"))
<1> DEFINE scan == Scanned(lines)
           one == Directive("route-nopull")
           two == Directive("script-security")
           three == Directive("auth-nocache")
           text == Append(Append(Append(scan.result, one), two), three)
<1>1. scan \in Scan /\ scan.result \in Seq(Line) /\ Scanned(scan.result) = scan
  BY ScannedRecurs, ScanAgain DEF Scan, Closed
<1>2. one \in Line /\ two \in Line /\ three \in Line
  BY SettingsLines
<1>3. Sanitize(lines) = text
  BY <1>1, AppendSettings DEF Sanitize
<1>4. Step(scan, one) = scan /\ Step(scan, two) = scan /\ Step(scan, three) = Keep(scan, three)
  BY DEF Step, Outside, Directive, Rejected, IsRemoved, Removed, Closed
<1> HIDE DEF one, two, three, scan
<1>5. text \in Seq(Line) /\ Len(text) = Len(scan.result) + 3
  BY <1>1, <1>2, ThreeMore
<1>6. Append(scan.result, one) \in Seq(Line) /\ Scanned(Append(scan.result, one)) = scan
  BY <1>1, <1>2, <1>4, ScannedRecurs
<1>7. /\ Append(Append(scan.result, one), two) \in Seq(Line)
      /\ Scanned(Append(Append(scan.result, one), two)) = scan
  BY <1>2, <1>4, <1>6, ScannedRecurs
<1>8. Scanned(text) = Keep(scan, three)
  BY <1>2, <1>4, <1>7, ScannedRecurs
<1> QED BY <1>3, <1>5, <1>8 DEF scan, three

\* What has been sanitized can be sanitized again, when it is not too long.
LEMMA SanitizesAgain ==
  ASSUME NEW lines \in Seq(Line), Sanitizes(lines)
  PROVE  Sanitizes(Sanitize(lines)) <=> Len(Scanned(lines).result) + 3 <= MaxLines
<1> DEFINE scan == Scanned(lines)
<1>1. scan \in Scan /\ scan.ok /\ scan.inline = ""
  BY ScannedRecurs DEF Sanitizes
<1>2. /\ Len(Sanitize(lines)) = Len(scan.result) + 3
      /\ Scanned(Sanitize(lines)) = Keep(scan, Directive("auth-nocache"))
  BY ScanSettings DEF Sanitizes, Closed
<1>3. Len(scan.result) \in Nat
  <2>1. scan.result \in Seq(Line)
    BY <1>1 DEF Scan
  <2> QED BY <2>1
<1> HIDE DEF scan
<1>4. Keep(scan, Directive("auth-nocache")).ok /\ Keep(scan, Directive("auth-nocache")).inline = ""
  BY <1>1 DEF Keep, Scan
<1>5. Sanitizes(Sanitize(lines)) <=> Len(Sanitize(lines)) \in 1..MaxLines
  BY <1>2, <1>4 DEF Sanitizes
<1>6. \A n \in Nat : n + 3 \in 1..MaxLines <=> n + 3 <= MaxLines
  BY MaxLinesAssumption
<1>7. Sanitizes(Sanitize(lines)) <=> Len(scan.result) + 3 <= MaxLines
  BY <1>2, <1>3, <1>5, <1>6
<1> QED BY <1>7 DEF scan

-----------------------------------------------------------------------------
(* overrideOpenVPNRemote *)

Remotes(lines) == {i \in 1..Len(lines) : IsRemote(lines[i])}

\* What becomes of one line more.
Placed(gateway, lines, result, i) ==
  IF i \notin Remotes(lines) THEN Append(result, lines[i])
  ELSE IF \A j \in Remotes(lines) : i <= j THEN Append(result, Remote(gateway))
  ELSE result

\* A line of the override is a line.
LEMMA PlacedType ==
  ASSUME NEW gateway \in Words, NEW lines \in Seq(Line), NEW result \in Seq(Line),
         NEW i \in 1..Len(lines)
  PROVE  Placed(gateway, lines, result, i) \in Seq(Line)
<1>1. lines[i] \in Line
  OBVIOUS
<1>2. Remote(gateway) \in Line
  BY DEF Line
<1> QED BY <1>1, <1>2 DEF Placed

\* The fold, its step a function, and its first elements.
PlaceStep(gateway, lines) ==
  [p \in Seq(Line) \X (1..Len(lines)) |-> Placed(gateway, lines, p[1], p[2])]
Upto(k) == [i \in 1..k |-> i]
Kept(gateway, lines, k) == Foldl(PlaceStep(gateway, lines), <<>>, Upto(k))

\* The step maps a text and a place to a text.
LEMMA PlaceStepType ==
  ASSUME NEW gateway \in Words, NEW lines \in Seq(Line)
  PROVE  IsStep(PlaceStep(gateway, lines), Seq(Line), 1..Len(lines))
BY PlacedType DEF PlaceStep, IsStep

\* It is Placed.
LEMMA PlaceStepIs ==
  ASSUME NEW gateway, NEW lines, NEW result \in Seq(Line), NEW i \in 1..Len(lines)
  PROVE  PlaceStep(gateway, lines)[<<result, i>>] = Placed(gateway, lines, result, i)
BY DEF PlaceStep

\* The places up to k, one after the other.
LEMMA UptoType ==
  ASSUME NEW n \in Nat, NEW k \in 0..n
  PROVE  /\ Upto(k) \in Seq(1..n) /\ DOMAIN Upto(k) = 1..k
         /\ \A i \in 1..k : Upto(k)[i] = i
         /\ k < n => Upto(k + 1) = Append(Upto(k), k + 1) /\ k + 1 \in 1..n
<1>1. Upto(k) \in Seq(1..n) /\ DOMAIN Upto(k) = 1..k /\ \A i \in 1..k : Upto(k)[i] = i
  BY DEF Upto
<1>2. ASSUME k < n PROVE Upto(k + 1) = Append(Upto(k), k + 1) /\ k + 1 \in 1..n
  BY <1>2 DEF Upto
<1> QED BY <1>1, <1>2

\* What the override keeps, as a fold computed by a function.
LEMMA KeptFolds ==
  ASSUME NEW gateway \in Words, NEW lines \in Seq(Line)
  PROVE  LET Place(result, i) == Placed(gateway, lines, result, i)
         IN  FoldLeft(Place, <<>>, Upto(Len(lines))) = Kept(gateway, lines, Len(lines))
<1> DEFINE X == Seq(Line)
           n == Len(lines)
           seq == Upto(n)
           D == DOMAIN seq
           Place(result, i) == Placed(gateway, lines, result, i)
           Body(f, s) == IF s = {} THEN <<>> ELSE Place(f[s \ {Max(s)}], seq[Max(s)])
           P(f) == f = [s \in SUBSET D |-> Body(f, s)]
           c == CHOOSE f : P(f)
           step == PlaceStep(gateway, lines)
<1>0. n \in Nat /\ seq \in Seq(1..n) /\ D = 1..n /\ (\A i \in D : seq[i] = i) /\ <<>> \in X
  <2>1. n \in Nat /\ n \in 0..n /\ <<>> \in X
    OBVIOUS
  <2> QED BY <2>1, UptoType
<1>1. \A s \in SUBSET D : s # {} => seq[Max(s)] \in 1..n
  <2> HIDE DEF seq, D, n
  <2>1. \A s \in SUBSET D : s # {} => Max(s) \in D
    BY <1>0, MaxIn
  <2> QED BY <1>0, <2>1
<1>2. PICK F : IsFold(F, X, step, <<>>, seq)
  <2> HIDE DEF seq, step, X
  <2>1. IsStep(step, X, 1..n)
    BY PlaceStepType DEF X, step
  <2> HIDE DEF n
  <2> QED BY <1>0, <2>1, FoldIsDefined
<1>3. P(F)
  <2>1. ASSUME NEW s \in SUBSET D PROVE F[s] = Body(F, s)
    <3>1. F[s \ {Max(s)}] \in X
      BY <1>2 DEF IsFold
    <3>2. F[s] = IF s = {} THEN <<>> ELSE step[<<F[s \ {Max(s)}], seq[Max(s)]>>]
      BY <1>2 DEF IsFold
    <3> HIDE DEF seq, D
    <3> QED BY <1>1, <3>1, <3>2, PlaceStepIs
  <2>2. F = [s \in SUBSET D |-> F[s]]
    BY <1>2 DEF IsFold
  <2> HIDE DEF Body, D
  <2> QED BY <2>1, <2>2
<1>4. P(c)
  <2> HIDE DEF P
  <2> QED BY <1>3
<1>5. Follows(c, X, step, <<>>, seq)
  <2>1. \A s \in SUBSET D : c[s] = Body(c, s)
    <3>1. P(c) => \A s \in SUBSET D : c[s] = Body(c, s)
      <4> HIDE DEF c, Body, D
      <4> QED OBVIOUS
    <3> HIDE DEF P
    <3> QED BY <1>4, <3>1
  <2>2. {} \in SUBSET D
    OBVIOUS
  <2> HIDE DEF c, seq
  <2> QED BY <1>1, <2>1, <2>2, PlaceStepIs DEF Follows
<1>6. FoldLeft(Place, <<>>, seq) = c[D]
  BY DEF FoldLeft, MapThenFoldSet
<1>7. c[D] = Foldl(step, <<>>, seq)
  <2> HIDE DEF c, seq, step, X
  <2>1. IsStep(step, X, 1..n)
    BY PlaceStepType DEF X, step
  <2> HIDE DEF n
  <2> QED BY <1>0, <1>5, <2>1, FoldIs
<1> HIDE DEF c
<1> QED BY <1>6, <1>7 DEF Kept

\* The override is what is kept, with the gateway in front when no line of
\* the text names one.
LEMMA OverrideIs ==
  ASSUME NEW gateway \in Words, NEW lines \in Seq(Line)
  PROVE  OverrideRemote(gateway, lines) =
           IF Remotes(lines) = {} THEN <<Remote(gateway)>> \o Kept(gateway, lines, Len(lines))
           ELSE Kept(gateway, lines, Len(lines))
BY KeptFolds DEF OverrideRemote, Remotes, Placed, Upto

\* What is kept of no line and of one line more.
LEMMA KeptRecurs ==
  ASSUME NEW gateway \in Words, NEW lines \in Seq(Line)
  PROVE  /\ Kept(gateway, lines, 0) = <<>>
         /\ \A k \in 0..Len(lines) : Kept(gateway, lines, k) \in Seq(Line)
         /\ \A k \in 0..(Len(lines) - 1) :
              Kept(gateway, lines, k + 1) = Placed(gateway, lines, Kept(gateway, lines, k), k + 1)
<1> DEFINE n == Len(lines)
           X == Seq(Line)
           step == PlaceStep(gateway, lines)
<1>1. n \in Nat /\ IsStep(step, X, 1..n) /\ <<>> \in X
  BY PlaceStepType
<1>2. Upto(0) = <<>>
  BY DEF Upto
<1> HIDE DEF n, X, step
<1>3. Foldl(step, <<>>, <<>>) = <<>>
  BY <1>1, FoldlEmpty
<1>4. ASSUME NEW k \in 0..n PROVE Foldl(step, <<>>, Upto(k)) \in X
  BY <1>1, UptoType, FoldlType
<1>5. ASSUME NEW k \in 0..(n - 1)
      PROVE  Foldl(step, <<>>, Upto(k + 1)) = Placed(gateway, lines, Foldl(step, <<>>, Upto(k)), k + 1)
  <2>1. k \in 0..n /\ k < n
    BY <1>1
  <2>2. Upto(k) \in Seq(1..n) /\ Upto(k + 1) = Append(Upto(k), k + 1) /\ k + 1 \in 1..n
    BY <1>1, <2>1, UptoType
  <2>3. Foldl(step, <<>>, Append(Upto(k), k + 1)) = step[<<Foldl(step, <<>>, Upto(k)), k + 1>>]
    BY <1>1, <2>2, FoldlAppend
  <2>4. Foldl(step, <<>>, Upto(k)) \in X
    BY <1>4, <2>1
  <2> QED BY <2>2, <2>3, <2>4, PlaceStepIs DEF n, X, step
<1> QED BY <1>2, <1>3, <1>4, <1>5 DEF Kept, n, X, step

\* The text with the gateway is a text.
LEMMA OverriddenType ==
  ASSUME NEW config \in Config
  PROVE  Overridden(config) \in Seq(Line)
<1>1. config.host \in Text /\ config.lines \in Seq(Line)
  BY ConfigFields
<1>2. CASE config.host = ""
  BY <1>1, <1>2 DEF Overridden
<1>3. CASE config.host # ""
  <2> DEFINE kept == Kept(config.host, config.lines, Len(config.lines))
             first == Remote(config.host)
  <2>1. config.host \in Words
    BY <1>1, <1>3, GatewaysAssumption DEF Text
  <2>2. first \in Line
    BY <2>1 DEF Line
  <2>3. kept \in Seq(Line)
    <3>1. Len(config.lines) \in 0..Len(config.lines)
      BY <1>1, LenInNat
    <3> QED BY <1>1, <2>1, <3>1, KeptRecurs
  <2>4. Overridden(config) = IF Remotes(config.lines) = {} THEN <<first>> \o kept ELSE kept
    BY <1>1, <1>3, <2>1, OverrideIs DEF Overridden
  <2> HIDE DEF first, kept
  <2>5. <<first>> \o kept \in Seq(Line)
    BY <2>2, <2>3, PrependType
  <2> QED BY <2>3, <2>4, <2>5
<1> QED BY <1>2, <1>3

-----------------------------------------------------------------------------
(* Accepted if and only if sound *)

\* An OpenVPN profile is taken for its credentials and its text.
LEMMA OpenVPNSound ==
  ASSUME NEW config \in Config, config.type = "openvpn"
  PROVE  Sanitizes(Overridden(config)) /\ ValidOpenVPN(Build(config)) <=>
           SoundCredentials(config) /\ SoundText(config)
<1> DEFINE r == Build(config)
           text == Overridden(config)
<1>1. r.user = config.user /\ r.password = config.password /\ r.lines = Sanitize(text)
  BY BuildFields
<1>2. Sanitizes(text) => (Sanitizes(Sanitize(text)) <=> Len(Scanned(text).result) + 3 <= MaxLines)
  BY OverriddenType, SanitizesAgain
<1>3. SoundText(config) <=> Sanitizes(text) /\ Len(Scanned(text).result) + 3 <= MaxLines
  BY DEF SoundText
<1> HIDE DEF r, text
<1>4. Sanitizes(text) /\ Sanitizes(r.lines) <=> SoundText(config)
  BY <1>1, <1>2, <1>3
<1>5. SoundCredentials(config) <=>
        /\ config.user # "bad" /\ config.password # "bad"
        /\ config.user = "" <=> config.password = ""
  BY DEF SoundCredentials
<1> QED BY <1>1, <1>4, <1>5 DEF ValidOpenVPN, r, text

\* A profile connects if and only if nothing is wrong with it.
LEMMA ConnectsIffSound ==
  ASSUME NEW config \in Config
  PROVE  Builds(config) /\ Valid(Build(config)) <=>
           /\ SoundRoutes(config)
           /\ SoundCredentials(config)
           /\ config.type = "ipsec" => SoundCiphers(config.ipsec)
           /\ config.type = "openvpn" => SoundText(config)
<1> DEFINE r == Build(config)
           Parses == ParsesRoutes(config.routes)
           Sound == /\ SoundCredentials(config)
                    /\ config.type = "ipsec" => SoundCiphers(config.ipsec)
                    /\ config.type = "openvpn" => SoundText(config)
           Checked == Parses /\ ValidRoutes(r) /\ ValidSplitDNS(r)
<1>1. Checked <=> SoundRoutes(config)
  BY RoutesSound
<1>2. r.protocol = config.type /\ config.type \in Types
  BY BuildFields, ConfigFields
<1> HIDE DEF r
<1>3. CASE config.type \in {"openfortivpn", "openconnect"}
  <2>1. Builds(config) /\ Valid(r) <=> Checked /\ config.port # "" /\ ValidGateway(r)
    BY <1>2, <1>3 DEF Builds, Valid
  <2>2. config.port # "" /\ ValidGateway(r) <=> SoundCredentials(config)
    BY <1>3, GatewaySound DEF r
  <2>3. Sound <=> SoundCredentials(config)
    BY <1>3
  <2> HIDE DEF Checked, Sound
  <2>4. Builds(config) /\ Valid(r) <=> SoundRoutes(config) /\ Sound
    BY <1>1, <2>1, <2>2, <2>3
  <2> QED BY <2>4 DEF Sound, r
<1>4. CASE config.type = "openvpn"
  <2>1. Builds(config) /\ Valid(r) <=> Checked /\ Sanitizes(Overridden(config)) /\ ValidOpenVPN(r)
    BY <1>2, <1>4 DEF Builds, Valid
  <2>2. Sanitizes(Overridden(config)) /\ ValidOpenVPN(r) <=> SoundCredentials(config) /\ SoundText(config)
    BY <1>4, OpenVPNSound DEF r
  <2>3. Sound <=> SoundCredentials(config) /\ SoundText(config)
    BY <1>4
  <2> HIDE DEF Checked, Sound
  <2>4. Builds(config) /\ Valid(r) <=> SoundRoutes(config) /\ Sound
    BY <1>1, <2>1, <2>2, <2>3
  <2> QED BY <2>4 DEF Sound, r
<1>5. CASE config.type = "ipsec"
  <2> DEFINE Suites == BuildsIPsec(config.ipsec)
  <2>1. Builds(config) /\ Valid(r) <=> Checked /\ Suites /\ ValidIPsec(r)
    BY <1>2, <1>5 DEF Builds, Valid
  <2>2. Suites /\ ValidIPsec(r) <=> SoundCredentials(config) /\ SoundCiphers(config.ipsec)
    BY <1>5, IPsecSound DEF r
  <2>3. Sound <=> SoundCredentials(config) /\ SoundCiphers(config.ipsec)
    BY <1>5
  <2> HIDE DEF Checked, Sound, Suites
  <2>4. Builds(config) /\ Valid(r) <=> SoundRoutes(config) /\ Sound
    BY <1>1, <2>1, <2>2, <2>3
  <2> QED BY <2>4 DEF Sound, r
<1> QED BY <1>2, <1>3, <1>4, <1>5 DEF Types

\* What the controller builds from a sound profile is never refused, and an
\* unsound one never reaches the engine.
THEOREM AcceptedSound == Spec => []AcceptedIffSound
<1>1. Answered => AcceptedIffSound
  <2> SUFFICES ASSUME Answered, asked # 0
               PROVE  LET config == configs[asked]
                      IN  outcome = "accepted" <=>
                            /\ SoundRoutes(config)
                            /\ SoundCredentials(config)
                            /\ config.type = "ipsec" => SoundCiphers(config.ipsec)
                            /\ config.type = "openvpn" => SoundText(config)
    BY DEF AcceptedIffSound
  <2> DEFINE config == configs[asked]
  <2>1. config \in Config /\ (outcome = "accepted" <=> Builds(config) /\ Valid(Build(config)))
    BY FilesAssumption DEF Answered
  <2> HIDE DEF config
  <2>2. outcome = "accepted" <=>
          /\ SoundRoutes(config)
          /\ SoundCredentials(config)
          /\ config.type = "ipsec" => SoundCiphers(config.ipsec)
          /\ config.type = "openvpn" => SoundText(config)
    BY <2>1, ConnectsIffSound
  <2> QED BY <2>2 DEF config
<1> QED BY <1>1, AnswersHold, PTL

-----------------------------------------------------------------------------
(* How OpenVPN reads a text *)

Tag == Words \cup {""}

OutOfBlock == ""

\* Outside the blocks.
LEMMA TagType == OutOfBlock \in Tag
BY DEF Tag, OutOfBlock

\* Reads gives a tag for a tag.
LEMMA ReadsType ==
  ASSUME NEW tag \in Tag, NEW line \in Line
  PROVE  Reads(tag, line) \in Tag
BY LineKinds DEF Reads, Tag

\* The fold, its step a function.
ReadStep == [p \in Tag \X Line |-> Reads(p[1], p[2])]

\* The step maps a tag and a line to a tag.
LEMMA ReadStepType == IsStep(ReadStep, Tag, Line)
BY ReadsType DEF ReadStep, IsStep

\* It is Reads.
LEMMA ReadStepIs ==
  ASSUME NEW tag \in Tag, NEW line \in Line
  PROVE  ReadStep[<<tag, line>>] = Reads(tag, line)
BY DEF ReadStep

\* Read as a fold computed by a function.
LEMMA ReadFolds ==
  ASSUME NEW lines \in Seq(Line)
  PROVE  Read(lines) = Foldl(ReadStep, OutOfBlock, lines)
<1> DEFINE X == Tag
           D == DOMAIN lines
           Body(f, s) == IF s = {} THEN OutOfBlock
                         ELSE Reads(f[s \ {Max(s)}], lines[Max(s)])
           P(f) == f = [s \in SUBSET D |-> Body(f, s)]
           c == CHOOSE f : P(f)
<1>1. \A s \in SUBSET D : s # {} => lines[Max(s)] \in Line
  <2>1. Len(lines) \in Nat /\ D = 1..Len(lines)
    OBVIOUS
  <2>2. \A s \in SUBSET D : s # {} => Max(s) \in D
    BY <2>1, MaxIn
  <2> QED BY <2>1, <2>2
<1>2. PICK F : IsFold(F, X, ReadStep, OutOfBlock, lines)
  BY TagType, ReadStepType, FoldIsDefined
<1>3. P(F)
  <2>1. ASSUME NEW s \in SUBSET D PROVE F[s] = Body(F, s)
    <3>1. F[s \ {Max(s)}] \in X
      BY <1>2 DEF IsFold
    <3> QED BY <1>1, <1>2, <3>1, ReadStepIs DEF IsFold
  <2>2. F = [s \in SUBSET D |-> F[s]]
    BY <1>2 DEF IsFold
  <2> HIDE DEF Body, D
  <2> QED BY <2>1, <2>2
<1>4. P(c)
  <2> HIDE DEF P
  <2> QED BY <1>3
<1>5. Follows(c, X, ReadStep, OutOfBlock, lines)
  <2>1. \A s \in SUBSET D : c[s] = Body(c, s)
    <3>1. P(c) => \A s \in SUBSET D : c[s] = Body(c, s)
      <4> HIDE DEF c, Body, D
      <4> QED OBVIOUS
    <3> HIDE DEF P
    <3> QED BY <1>4, <3>1
  <2> HIDE DEF c
  <2> QED BY <1>1, <2>1, ReadStepIs DEF Follows
<1>6. Read(lines) = c[D]
  BY DEF Read, FoldLeft, MapThenFoldSet, OutOfBlock
<1>7. c[D] = Foldl(ReadStep, OutOfBlock, lines)
  <2> HIDE DEF c
  <2> QED BY <1>5, TagType, ReadStepType, FoldIs
<1> HIDE DEF c
<1> QED BY <1>6, <1>7

\* What is read of no line and of one line more.
LEMMA ReadRecurs ==
  /\ Read(<<>>) = ""
  /\ \A lines \in Seq(Line) : Read(lines) \in Tag
  /\ \A lines \in Seq(Line), line \in Line :
       Append(lines, line) \in Seq(Line) /\ Read(Append(lines, line)) = Reads(Read(lines), line)
<1>1. Read(<<>>) = ""
  <2>1. <<>> \in Seq(Line)
    OBVIOUS
  <2>2. Foldl(ReadStep, OutOfBlock, <<>>) = OutOfBlock
    BY TagType, ReadStepType, FoldlEmpty
  <2> QED BY <2>1, <2>2, ReadFolds DEF OutOfBlock
<1>2. ASSUME NEW lines \in Seq(Line) PROVE Read(lines) \in Tag
  BY ReadFolds, TagType, ReadStepType, FoldlType
<1>3. ASSUME NEW lines \in Seq(Line), NEW line \in Line
      PROVE  /\ Append(lines, line) \in Seq(Line)
             /\ Read(Append(lines, line)) = Reads(Read(lines), line)
  <2>1. Append(lines, line) \in Seq(Line)
    OBVIOUS
  <2>2. Foldl(ReadStep, OutOfBlock, Append(lines, line)) = ReadStep[<<Foldl(ReadStep, OutOfBlock, lines), line>>]
    BY TagType, ReadStepType, FoldlAppend
  <2>3. Read(Append(lines, line)) = ReadStep[<<Read(lines), line>>]
    BY <2>1, <2>2, ReadFolds
  <2> QED BY <1>2, <2>1, <2>3, ReadStepIs
<1> QED BY <1>1, <1>2, <1>3

\* The shortest and the longest prefix.
LEMMA WholePrefix ==
  ASSUME NEW Y, NEW seq \in Seq(Y)
  PROVE  SubSeq(seq, 1, 0) = <<>> /\ SubSeq(seq, 1, Len(seq)) = seq
OBVIOUS

\* An appended element leaves the shorter prefixes alone.
LEMMA PrefixOfMore ==
  ASSUME NEW Y, NEW seq \in Seq(Y), NEW y \in Y, NEW i \in 0..Len(seq)
  PROVE  SubSeq(Append(seq, y), 1, i) = SubSeq(seq, 1, i)
OBVIOUS

\* The next prefix is longer by one element.
LEMMA NextPrefix ==
  ASSUME NEW Y, NEW seq \in Seq(Y), NEW i \in 0..(Len(seq) - 1)
  PROVE  /\ SubSeq(seq, 1, i) \in Seq(Y) /\ seq[i + 1] \in Y
         /\ SubSeq(seq, 1, i + 1) = Append(SubSeq(seq, 1, i), seq[i + 1])
OBVIOUS

\* A line that OpenVPN reads as a directive, and one that names a gateway.
Counts(lines, line) == Read(lines) = "" /\ IsDirective(line)
Names(lines, line) == Counts(lines, line) /\ line.name \in {"remote", "--remote"}

\* What one line more adds to the directives and to the gateways.
LEMMA DirectivesAppend ==
  ASSUME NEW lines \in Seq(Line), NEW line \in Line
  PROVE  LET more == Append(lines, line)
             n == Len(lines)
         IN  /\ n \in Nat /\ Directives(lines) \subseteq 1..n /\ Gateways(lines) \subseteq 1..n
             /\ more[n + 1] = line /\ \A i \in 1..n : more[i] = lines[i]
             /\ Directives(more) = Directives(lines) \cup IF Counts(lines, line) THEN {n + 1} ELSE {}
             /\ Gateways(more) = Gateways(lines) \cup IF Names(lines, line) THEN {n + 1} ELSE {}
<1> DEFINE more == Append(lines, line)
           n == Len(lines)
<1>1. /\ n \in Nat /\ Len(more) = n + 1
      /\ more[n + 1] = line /\ \A i \in 1..n : more[i] = lines[i]
  OBVIOUS
<1>2. /\ SubSeq(lines, 1, n) = lines
      /\ \A i \in 0..n : SubSeq(more, 1, i) = SubSeq(lines, 1, i)
  BY WholePrefix, PrefixOfMore
<1> HIDE DEF more, n
<1>3. ASSUME NEW i \in 1..n PROVE i \in Directives(more) <=> i \in Directives(lines)
  <2>1. i - 1 \in 0..n /\ i \in 1..(n + 1)
    BY <1>1
  <2>2. InBlock(more, i) <=> InBlock(lines, i)
    BY <1>2, <2>1 DEF InBlock
  <2> QED BY <1>1, <2>1, <2>2 DEF Directives, n
<1>4. n + 1 \in Directives(more) <=> Counts(lines, line)
  <2>1. (n + 1) - 1 = n /\ n \in 0..n /\ n + 1 \in 1..(n + 1)
    BY <1>1
  <2>2. InBlock(more, n + 1) <=> Read(lines) # ""
    BY <1>2, <2>1 DEF InBlock
  <2> QED BY <1>1, <2>1, <2>2 DEF Directives, Counts
<1>5. Directives(more) \subseteq 1..(n + 1) /\ Directives(lines) \subseteq 1..n
  BY <1>1 DEF Directives, n
<1>6. \A i : i \in 1..(n + 1) <=> i \in 1..n \/ i = n + 1
  BY <1>1
<1>7. n + 1 \notin 1..n
  BY <1>1
<1>8. Directives(more) = Directives(lines) \cup IF Counts(lines, line) THEN {n + 1} ELSE {}
  BY <1>3, <1>4, <1>5, <1>6, <1>7
<1>9. ASSUME NEW i \in 1..n PROVE i \in Gateways(more) <=> i \in Gateways(lines)
  BY <1>1, <1>3 DEF Gateways
<1>10. n + 1 \in Gateways(more) <=> Names(lines, line)
  BY <1>1, <1>4 DEF Gateways, Names
<1>11. Gateways(more) \subseteq 1..(n + 1) /\ Gateways(lines) \subseteq 1..n
  BY <1>5 DEF Gateways
<1>12. Gateways(more) = Gateways(lines) \cup IF Names(lines, line) THEN {n + 1} ELSE {}
  BY <1>6, <1>7, <1>9, <1>10, <1>11
<1> QED BY <1>1, <1>5, <1>8, <1>11, <1>12 DEF more, n

\* A text that names no gateway, and one that names one, in a given line.
NoGateway(lines) == Gateways(lines) = {}
OnlyGateway(lines, remote) == \E i \in Gateways(lines) : Gateways(lines) = {i} /\ lines[i] = remote

\* What they become by one line more.
LEMMA GatewaysAppend ==
  ASSUME NEW lines \in Seq(Line), NEW line \in Line, NEW remote
  PROVE  LET more == Append(lines, line)
         IN  IF Names(lines, line)
             THEN /\ ~NoGateway(more)
                  /\ OnlyGateway(more, remote) <=> NoGateway(lines) /\ line = remote
             ELSE /\ NoGateway(more) <=> NoGateway(lines)
                  /\ OnlyGateway(more, remote) <=> OnlyGateway(lines, remote)
<1> DEFINE more == Append(lines, line)
           n == Len(lines)
<1>1. /\ n \in Nat /\ Gateways(lines) \subseteq 1..n
      /\ more[n + 1] = line /\ \A i \in 1..n : more[i] = lines[i]
      /\ Gateways(more) = Gateways(lines) \cup IF Names(lines, line) THEN {n + 1} ELSE {}
  BY DirectivesAppend
<1> HIDE DEF more, n
<1>2. CASE Names(lines, line)
  <2>1. Gateways(more) = Gateways(lines) \cup {n + 1} /\ n + 1 \notin Gateways(lines)
    BY <1>1, <1>2
  <2>2. OnlyGateway(more, remote) <=> NoGateway(lines) /\ line = remote
    BY <1>1, <2>1 DEF OnlyGateway, NoGateway
  <2> QED BY <1>2, <2>1, <2>2 DEF NoGateway, more
<1>3. CASE ~Names(lines, line)
  <2>1. Gateways(more) = Gateways(lines)
    BY <1>1, <1>3
  <2>2. OnlyGateway(more, remote) <=> OnlyGateway(lines, remote)
    BY <1>1, <2>1 DEF OnlyGateway
  <2> QED BY <1>3, <2>1, <2>2 DEF NoGateway, more
<1> QED BY <1>2, <1>3

\* A closing tag is known by its kind and its name.
LEMMA EndIs ==
  ASSUME NEW line \in Line, NEW tag
  PROVE  line = End(tag) <=> line.kind = "end" /\ line.tag = tag
<1>1. line = End(tag) => line.kind = "end" /\ line.tag = tag
  BY DEF End
<1>2. ASSUME line.kind = "end", line.tag = tag PROVE line = End(tag)
  <2>1. \A word : Begin(word).kind # "end" /\ Directive(word).kind # "end"
    BY DEF Begin, Directive
  <2>2. \A word : Remote(word).kind # "end" /\ DashedRemote(word).kind # "end"
    BY DEF Remote, DashedRemote
  <2>3. Comment.kind # "end"
    BY DEF Comment
  <2>4. \E word \in Words : line = End(word)
    BY <1>2, <2>1, <2>2, <2>3 DEF Line
  <2>5. \A word : End(word).tag = word
    BY DEF End
  <2> QED BY <1>2, <2>4, <2>5
<1> QED BY <1>1, <1>2

\* The scan knows the block a line is in as OpenVPN does; it drops directives
\* outside the blocks alone, and keeps none there that is not to stay.
LEMMA StepReads ==
  ASSUME NEW scan \in Scan, NEW line \in Line, Step(scan, line).ok
  PROVE  /\ scan.ok
         /\ Step(scan, line).inline = Reads(scan.inline, line)
         /\ \/ /\ Step(scan, line) = scan
               /\ scan.inline = "" /\ IsDirective(line) /\ line.name \in Removed
            \/ /\ Step(scan, line).result = Append(scan.result, line)
               /\ scan.inline = "" /\ IsDirective(line) => line.name \notin Rejected \cup Removed
<1> DEFINE kept == Keep(scan, line)
           longer == Append(scan.result, line)
<1>1. kept.ok = scan.ok /\ kept.inline = scan.inline /\ kept.result = longer
  BY DEF Keep, Scan
<1>2. \A tag : [kept EXCEPT !.inline = tag].inline = tag /\ [kept EXCEPT !.inline = tag].result = longer
  BY <1>1 DEF Keep, Scan
<1>3. ~Fail(scan).ok
  BY DEF Fail, Scan
<1>4. scan.ok
  BY DEF Step
<1>5. line = End(scan.inline) <=> line.kind = "end" /\ line.tag = scan.inline
  BY EndIs
<1> HIDE DEF kept, longer
<1>6. CASE scan.inline # ""
  <2>1. Step(scan, line) = IF line = End(scan.inline) THEN [kept EXCEPT !.inline = ""] ELSE kept
    BY <1>4, <1>5, <1>6 DEF Step, Inside, kept
  <2>2. Reads(scan.inline, line) = IF line = End(scan.inline) THEN "" ELSE scan.inline
    BY <1>6 DEF Reads
  <2> QED BY <1>1, <1>2, <1>4, <1>6, <2>1, <2>2 DEF longer
<1>7. CASE scan.inline = ""
  <2>1. Step(scan, line) = Outside(scan, line)
    BY <1>4, <1>7 DEF Step
  <2>2. Reads(scan.inline, line) = IF line.kind = "begin" THEN line.tag ELSE ""
    BY <1>7 DEF Reads
  <2>3. CASE line.kind = "comment"
    <3>1. Step(scan, line) = kept
      BY <2>1, <2>3 DEF Outside, kept
    <3> QED BY <1>1, <1>4, <1>7, <2>2, <2>3, <3>1 DEF longer, IsDirective
  <2>4. CASE line.kind = "begin"
    <3>1. Step(scan, line) = IF line.tag \in Supported THEN [kept EXCEPT !.inline = line.tag]
                             ELSE Fail(scan)
      BY <2>1, <2>4 DEF Outside, kept
    <3>2. Step(scan, line) = [kept EXCEPT !.inline = line.tag]
      BY <1>3, <3>1
    <3> QED BY <1>2, <1>4, <2>2, <2>4, <3>2 DEF longer, IsDirective
  <2>5. CASE line.kind = "end"
    <3>1. Step(scan, line) = Fail(scan)
      BY <2>1, <2>5 DEF Outside
    <3> QED BY <1>3, <3>1
  <2>6. CASE line.kind = "directive"
    <3>1. Step(scan, line) = IF line.name \in Rejected THEN Fail(scan)
                             ELSE IF line.name \in Removed THEN scan ELSE kept
      BY <2>1, <2>6 DEF Outside, kept, IsRemoved
    <3>2. line.name \notin Rejected
      BY <1>3, <3>1
    <3> QED BY <1>1, <1>4, <1>7, <2>2, <2>6, <3>1, <3>2 DEF longer, IsDirective
  <2> QED BY <2>3, <2>4, <2>5, <2>6, LineKinds
<1> QED BY <1>4, <1>6, <1>7

\* What a text has in common with what is kept of it.
Tame(lines) == \A i \in Directives(lines) : lines[i].name \notin Rejected \cup Removed
Agrees(lines) ==
  LET scan == Scanned(lines)
  IN  scan.ok =>
        /\ Read(lines) = scan.inline /\ Read(scan.result) = scan.inline
        /\ Tame(scan.result)
        /\ NoGateway(lines) => NoGateway(scan.result)
        /\ \A remote : OnlyGateway(lines, remote) => OnlyGateway(scan.result, remote)

\* A line that stays out of what is to go keeps a text tame.
LEMMA TameAppend ==
  ASSUME NEW lines \in Seq(Line), NEW line \in Line, Tame(lines),
         Counts(lines, line) => line.name \notin Rejected \cup Removed
  PROVE  Tame(Append(lines, line))
<1> DEFINE more == Append(lines, line)
           n == Len(lines)
<1>1. /\ n \in Nat /\ Directives(lines) \subseteq 1..n
      /\ more[n + 1] = line /\ \A i \in 1..n : more[i] = lines[i]
      /\ Directives(more) = Directives(lines) \cup IF Counts(lines, line) THEN {n + 1} ELSE {}
  BY DirectivesAppend
<1> HIDE DEF more, n
<1>2. ASSUME NEW i \in Directives(more) PROVE more[i].name \notin Rejected \cup Removed
  <2>1. CASE i \in Directives(lines)
    BY <1>1, <2>1 DEF Tame
  <2>2. CASE i \notin Directives(lines)
    BY <1>1, <1>2, <2>2
  <2> QED BY <2>1, <2>2
<1> QED BY <1>2 DEF Tame, more

\* By induction over the lines: while the scan has no error OpenVPN reads a text
\* and what is kept of it alike, and that is tame.
LEMMA ScanAgrees ==
  ASSUME NEW lines \in Seq(Line)
  PROVE  Agrees(lines)
<1> DEFINE T == {some \in Seq(Line) : Agrees(some)}
<1>1. <<>> \in T
  <2>1. Directives(<<>>) = {} /\ Gateways(<<>>) = {}
    BY DEF Directives, Gateways
  <2>2. Scanned(<<>>) = Start /\ Read(<<>>) = ""
    BY ScannedRecurs, ReadRecurs
  <2>3. Start.result = <<>> /\ Start.inline = ""
    BY DEF Start
  <2>4. Agrees(<<>>)
    BY <2>1, <2>2, <2>3 DEF Agrees, Tame, NoGateway, OnlyGateway
  <2>5. <<>> \in Seq(Line)
    OBVIOUS
  <2> QED BY <2>4, <2>5
<1>2. ASSUME NEW some \in Seq(Line), NEW line \in Line, some \in T
      PROVE  Append(some, line) \in T
  <2> DEFINE scan == Scanned(some)
             result == scan.result
             next == Step(scan, line)
             more == Append(some, line)
             longer == Append(result, line)
  <2>1. more \in Seq(Line) /\ Scanned(more) = next /\ scan \in Scan
    BY ScannedRecurs
  <2>2. result \in Seq(Line)
    BY <2>1 DEF Scan
  <2>3. Agrees(some)
    BY <1>2
  <2> SUFFICES Agrees(more)
    BY <2>1
  <2>4. Read(more) = Reads(Read(some), line) /\ Read(longer) = Reads(Read(result), line)
    BY <2>2, ReadRecurs
  <2> SUFFICES ASSUME next.ok
               PROVE  /\ Read(more) = next.inline /\ Read(next.result) = next.inline
                      /\ Tame(next.result)
                      /\ NoGateway(more) => NoGateway(next.result)
                      /\ \A remote : OnlyGateway(more, remote) => OnlyGateway(next.result, remote)
    BY <2>1 DEF Agrees
  <2>5. /\ scan.ok /\ next.inline = Reads(scan.inline, line)
        /\ \/ /\ next = scan
              /\ scan.inline = "" /\ IsDirective(line) /\ line.name \in Removed
           \/ /\ next.result = longer
              /\ scan.inline = "" /\ IsDirective(line) => line.name \notin Rejected \cup Removed
    BY <2>1, StepReads
  <2>6. /\ Read(some) = scan.inline /\ Read(result) = scan.inline /\ Tame(result)
        /\ NoGateway(some) => NoGateway(result)
        /\ \A remote : OnlyGateway(some, remote) => OnlyGateway(result, remote)
    BY <2>3, <2>5 DEF Agrees
  <2>7. \A remote : IF Names(some, line)
                    THEN /\ ~NoGateway(more)
                         /\ OnlyGateway(more, remote) <=> NoGateway(some) /\ line = remote
                    ELSE /\ NoGateway(more) <=> NoGateway(some)
                         /\ OnlyGateway(more, remote) <=> OnlyGateway(some, remote)
    BY GatewaysAppend
  <2>8. \A remote : IF Names(result, line)
                    THEN /\ ~NoGateway(longer)
                         /\ OnlyGateway(longer, remote) <=> NoGateway(result) /\ line = remote
                    ELSE /\ NoGateway(longer) <=> NoGateway(result)
                         /\ OnlyGateway(longer, remote) <=> OnlyGateway(result, remote)
    BY <2>2, GatewaysAppend
  <2>9. Names(some, line) <=> Names(result, line)
    BY <2>6 DEF Names, Counts
  <2>10. CASE next = scan /\ scan.inline = "" /\ IsDirective(line) /\ line.name \in Removed
    <3>1. ~Names(some, line)
      BY <2>10 DEF Names, Removed
    <3> HIDE DEF scan, next, more, longer
    <3> QED BY <2>4, <2>5, <2>6, <2>7, <2>10, <3>1
  <2>11. CASE /\ next.result = longer
              /\ scan.inline = "" /\ IsDirective(line) => line.name \notin Rejected \cup Removed
    <3>1. Counts(result, line) => line.name \notin Rejected \cup Removed
      BY <2>6, <2>11 DEF Counts
    <3>2. Tame(longer)
      BY <2>2, <2>6, <3>1, TameAppend
    <3> HIDE DEF scan, next, more, longer, result
    <3> QED BY <2>4, <2>5, <2>6, <2>7, <2>8, <2>9, <2>11, <3>2
  <2> QED BY <2>5, <2>10, <2>11
<1>3. Seq(Line) \subseteq T
  <2> HIDE DEF T
  <2> QED BY <1>1, <1>2, SeqInduction
<1> QED BY <1>3

\* The text of an override names the gateway, unless the text it is made from
\* has the word in an inline block or names one with dashes.
Clean(lines) ==
  \A i \in DOMAIN lines :
    /\ ~(InBlock(lines, i) /\ IsRemote(lines[i]))
    /\ ~(i \in Gateways(lines) /\ ~IsRemote(lines[i]))

\* What is kept of the first lines of a clean text.
KeptWell(gateway, lines, k) ==
  LET kept == Kept(gateway, lines, k)
  IN  /\ Read(kept) = Read(SubSeq(lines, 1, k))
      /\ IF \E i \in Remotes(lines) : i <= k THEN OnlyGateway(kept, Remote(gateway))
         ELSE NoGateway(kept)

\* By induction over the places of a clean text: what is kept reads like the
\* lines it comes from, and the gateway is the only one it names.
LEMMA KeptNames ==
  ASSUME NEW gateway \in Words, NEW lines \in Seq(Line), Clean(lines)
  PROVE  KeptWell(gateway, lines, Len(lines))
<1> DEFINE n == Len(lines)
           Kp(k) == Kept(gateway, lines, k)
           Pre(k) == SubSeq(lines, 1, k)
           S == {k \in Nat : k <= n => KeptWell(gateway, lines, k)}
<1>1. n \in Nat /\ DOMAIN lines = 1..n
  OBVIOUS
<1>2. 0 \in S
  <2>1. Kp(0) = <<>> /\ Pre(0) = <<>>
    BY KeptRecurs, WholePrefix
  <2>2. Gateways(<<>>) = {}
    BY DEF Directives, Gateways
  <2>3. ~ \E i \in Remotes(lines) : i <= 0
    BY DEF Remotes
  <2> QED BY <2>1, <2>2, <2>3 DEF KeptWell, NoGateway
<1>3. ASSUME NEW k \in Nat, k \in S, k + 1 <= n
      PROVE  KeptWell(gateway, lines, k + 1)
  <2> DEFINE line == lines[k + 1]
             kept == Kp(k)
             remote == Remote(gateway)
             next == Placed(gateway, lines, kept, k + 1)
             Before == \E i \in Remotes(lines) : i <= k
             Upon == \E i \in Remotes(lines) : i <= k + 1
  <2>1. k \in 0..(n - 1) /\ k \in 0..n /\ k + 1 \in 1..n /\ (k + 1) - 1 = k
    BY <1>1, <1>3
  <2>2. kept \in Seq(Line) /\ Kp(k + 1) = next
    BY <2>1, KeptRecurs
  <2>3. Pre(k) \in Seq(Line) /\ line \in Line /\ Pre(k + 1) = Append(Pre(k), line)
    BY <2>1, NextPrefix
  <2>4. remote \in Line /\ remote.kind = "directive" /\ remote.name = "remote"
    BY DEF Line, Remote
  <2>5. Read(kept) = Read(Pre(k)) /\ IF Before THEN OnlyGateway(kept, remote) ELSE NoGateway(kept)
    BY <1>3, <2>1 DEF KeptWell
  <2>6. IsRemote(line) <=> k + 1 \in Remotes(lines)
    BY <2>1 DEF Remotes
  <2>7. Upon <=> Before \/ IsRemote(line)
    BY <2>1, <2>6 DEF Remotes
  <2>8. InBlock(lines, k + 1) <=> Read(Pre(k)) # ""
    BY <2>1 DEF InBlock
  <2>9. IsRemote(line) => Read(Pre(k)) = ""
    BY <1>1, <2>1, <2>8 DEF Clean
  <2>10. ~IsRemote(line) => ~Names(kept, line)
    <3>1. k + 1 \in Gateways(lines) <=> Names(kept, line)
      BY <2>1, <2>5, <2>8 DEF Gateways, Directives, Names, Counts
    <3> QED BY <1>1, <2>1, <3>1 DEF Clean
  <2>11. Read(Pre(k + 1)) = Reads(Read(Pre(k)), line)
    BY <2>3, ReadRecurs
  <2> SUFFICES /\ Read(next) = Read(Pre(k + 1))
               /\ IF Upon THEN OnlyGateway(next, remote) ELSE NoGateway(next)
    BY <2>2 DEF KeptWell
  <2>12. IsRemote(line) => Read(Pre(k + 1)) = ""
    BY <2>9, <2>11 DEF Reads, IsRemote, IsDirective
  <2> HIDE DEF kept, remote, line, Kp, Pre, Before, Upon
  <2>13. CASE ~IsRemote(line)
    <3>1. next = Append(kept, line)
      BY <2>6, <2>13 DEF Placed, line
    <3> HIDE DEF next
    <3>2. Read(next) = Reads(Read(kept), line)
      BY <2>2, <2>3, <3>1, ReadRecurs
    <3>3. /\ NoGateway(next) <=> NoGateway(kept)
          /\ OnlyGateway(next, remote) <=> OnlyGateway(kept, remote)
      BY <2>2, <2>3, <2>10, <2>13, <3>1, GatewaysAppend
    <3> QED BY <2>5, <2>7, <2>11, <2>13, <3>2, <3>3
  <2>14. CASE IsRemote(line) /\ ~Before
    <3>0. \A j \in Remotes(lines) : k + 1 <= j
      BY <1>1, <2>1, <2>14 DEF Before, Remotes
    <3>1. next = Append(kept, remote)
      BY <2>6, <2>14, <3>0 DEF Placed, remote
    <3> HIDE DEF next
    <3>2. Read(next) = Reads(Read(kept), remote)
      BY <2>2, <2>4, <3>1, ReadRecurs
    <3>3. Read(kept) = ""
      BY <2>5, <2>9, <2>14
    <3>4. Read(next) = ""
      BY <2>4, <3>2, <3>3 DEF Reads
    <3>5. Names(kept, remote)
      BY <2>4, <3>3 DEF Names, Counts, IsDirective
    <3>6. OnlyGateway(next, remote) <=> NoGateway(kept) /\ remote = remote
      BY <2>2, <2>4, <3>1, <3>5, GatewaysAppend
    <3> QED BY <2>5, <2>7, <2>12, <2>14, <3>4, <3>6
  <2>15. CASE IsRemote(line) /\ Before
    <3>0. PICK j \in Remotes(lines) : ~(k + 1 <= j)
      BY <1>1, <2>1, <2>15 DEF Before, Remotes
    <3>1. next = kept
      BY <2>6, <2>15, <3>0 DEF Placed
    <3> QED BY <2>5, <2>7, <2>9, <2>12, <2>15, <3>1
  <2> QED BY <2>13, <2>14, <2>15
<1>4. \A k \in Nat : k \in S => k + 1 \in S
  <2>1. ASSUME NEW k \in Nat, k \in S PROVE k + 1 \in S
    <3> HIDE DEF n
    <3> QED BY <1>3, <2>1
  <2> QED BY <2>1
<1>5. n \in S
  <2> HIDE DEF S, n
  <2> QED BY <1>1, <1>2, <1>4, SetInduction
<1> QED BY <1>1, <1>5

\* A remote in front of a text that names no gateway.
LEMMA PrependAppend ==
  ASSUME NEW Y, NEW seq \in Seq(Y), NEW first \in Y, NEW last \in Y
  PROVE  <<first>> \o Append(seq, last) = Append(<<first>> \o seq, last)
OBVIOUS

InFront(remote, lines) ==
  LET text == <<remote>> \o lines
  IN  Read(text) = Read(lines) /\ (NoGateway(lines) => OnlyGateway(text, remote))

\* By induction over the lines: a remote in front changes no block and adds
\* one gateway.
LEMMA PrependNames ==
  ASSUME NEW gateway \in Words, NEW lines \in Seq(Line)
  PROVE  InFront(Remote(gateway), lines)
<1> DEFINE remote == Remote(gateway)
           T == {some \in Seq(Line) : InFront(remote, some)}
<1>0. remote \in Line /\ remote.kind = "directive" /\ remote.name = "remote"
  BY DEF Line, Remote
<1> HIDE DEF remote
<1>1. <<>> \in T
  <2> DEFINE text == Append(<<>>, remote)
  <2>1. <<>> \in Seq(Line) /\ <<remote>> \o <<>> = text
    BY <1>0
  <2>2. Read(<<>>) = "" /\ Read(text) = Reads(Read(<<>>), remote)
    BY <1>0, <2>1, ReadRecurs
  <2>3. Read(text) = ""
    BY <1>0, <2>2 DEF Reads
  <2>4. Gateways(<<>>) = {}
    BY DEF Directives, Gateways
  <2>5. Names(<<>>, remote)
    BY <1>0, <2>2 DEF Names, Counts, IsDirective
  <2>6. OnlyGateway(text, remote) <=> NoGateway(<<>>) /\ remote = remote
    BY <1>0, <2>1, <2>5, GatewaysAppend
  <2> HIDE DEF text
  <2>7. InFront(remote, <<>>)
    BY <2>1, <2>2, <2>3, <2>4, <2>6 DEF InFront, NoGateway
  <2> QED BY <2>1, <2>7
<1>2. ASSUME NEW some \in Seq(Line), NEW line \in Line, some \in T
      PROVE  Append(some, line) \in T
  <2> DEFINE text == <<remote>> \o some
             more == Append(some, line)
  <2>1. text \in Seq(Line)
    BY <1>0, PrependType
  <2>2. <<remote>> \o more = Append(text, line)
    BY <1>0, PrependAppend
  <2>3. Read(text) = Read(some) /\ (NoGateway(some) => OnlyGateway(text, remote))
    BY <1>2 DEF InFront
  <2> HIDE DEF text
  <2>4. Read(more) = Reads(Read(some), line) /\ Read(Append(text, line)) = Reads(Read(text), line)
    BY <2>1, ReadRecurs
  <2>5. Names(some, line) <=> Names(text, line)
    BY <2>3 DEF Names, Counts
  <2>6. IF Names(some, line) THEN ~NoGateway(more) ELSE NoGateway(more) <=> NoGateway(some)
    BY GatewaysAppend
  <2>7. ~Names(text, line) => (OnlyGateway(Append(text, line), remote) <=> OnlyGateway(text, remote))
    BY <2>1, GatewaysAppend
  <2> HIDE DEF more
  <2>8. /\ Read(Append(text, line)) = Read(more)
        /\ NoGateway(more) => OnlyGateway(Append(text, line), remote)
    BY <2>3, <2>4, <2>5, <2>6, <2>7
  <2>9. InFront(remote, more)
    BY <2>2, <2>8 DEF InFront
  <2>10. more \in Seq(Line)
    BY ReadRecurs DEF more
  <2> QED BY <2>9, <2>10 DEF more
<1>3. Seq(Line) \subseteq T
  <2> HIDE DEF T
  <2> QED BY <1>1, <1>2, SeqInduction
<1> QED BY <1>3 DEF remote

\* The text that is made from a clean one names the gateway and no other.
LEMMA OverrideNames ==
  ASSUME NEW gateway \in Words, NEW lines \in Seq(Line), Clean(lines)
  PROVE  OnlyGateway(OverrideRemote(gateway, lines), Remote(gateway))
<1> DEFINE n == Len(lines)
           kept == Kept(gateway, lines, n)
<1>1. n \in Nat /\ n \in 0..n /\ \A i \in Remotes(lines) : i <= n
  BY LenInNat DEF Remotes
<1>2. kept \in Seq(Line)
  BY <1>1, KeptRecurs
<1>3. IF \E i \in Remotes(lines) : i <= n THEN OnlyGateway(kept, Remote(gateway)) ELSE NoGateway(kept)
  BY KeptNames DEF KeptWell
<1>4. IF Remotes(lines) = {} THEN NoGateway(kept) ELSE OnlyGateway(kept, Remote(gateway))
  BY <1>1, <1>3
<1>5. NoGateway(kept) => OnlyGateway(<<Remote(gateway)>> \o kept, Remote(gateway))
  BY <1>2, PrependNames DEF InFront
<1>6. OverrideRemote(gateway, lines) = IF Remotes(lines) = {} THEN <<Remote(gateway)>> \o kept ELSE kept
  BY OverrideIs
<1> HIDE DEF kept
<1> QED BY <1>4, <1>5, <1>6

\* The settings name no gateway.
LEMMA SettingsNameNone ==
  ASSUME NEW lines \in Seq(Line), NEW remote, OnlyGateway(lines, remote)
  PROVE  OnlyGateway(lines \o Settings, remote)
<1> DEFINE one == Directive("route-nopull")
           two == Directive("script-security")
           three == Directive("auth-nocache")
<1>1. one \in Line /\ two \in Line /\ three \in Line
  BY SettingsLines
<1>2. \A some : ~Names(some, one) /\ ~Names(some, two) /\ ~Names(some, three)
  BY DEF Names, Directive
<1>3. lines \o Settings = Append(Append(Append(lines, one), two), three)
  BY AppendSettings
<1> HIDE DEF one, two, three
<1>4. Append(lines, one) \in Seq(Line) /\ OnlyGateway(Append(lines, one), remote)
  BY <1>1, <1>2, ReadRecurs, GatewaysAppend
<1>5. /\ Append(Append(lines, one), two) \in Seq(Line)
      /\ OnlyGateway(Append(Append(lines, one), two), remote)
  BY <1>1, <1>2, <1>4, ReadRecurs, GatewaysAppend
<1>6. OnlyGateway(Append(Append(Append(lines, one), two), three), remote)
  BY <1>1, <1>2, <1>5, GatewaysAppend
<1> QED BY <1>3, <1>6

-----------------------------------------------------------------------------
(* The text that reaches the engine *)

\* The text of the engine, by what has been kept of the profile's.
LEMMA EngineText ==
  ASSUME NEW lines \in Seq(Line), Closed(lines)
  PROVE  LET last == Directive("auth-nocache")
             front == Append(Scanned(lines).result, last)
         IN  /\ front \in Seq(Line) /\ Scanned(Append(lines, last)) = Keep(Scanned(lines), last)
             /\ Keep(Scanned(lines), last).result = front /\ Keep(Scanned(lines), last).ok
             /\ Sanitize(Sanitize(lines)) = front \o Settings
<1> DEFINE last == Directive("auth-nocache")
           scan == Scanned(lines)
           kept == Keep(scan, last)
           front == Append(scan.result, last)
<1>1. scan \in Scan /\ scan.result \in Seq(Line) /\ last \in Line
  BY ScannedRecurs, SettingsLines DEF Scan
<1>2. front \in Seq(Line)
  BY <1>1, ReadRecurs
<1>3. kept.result = front /\ kept.ok
  BY <1>1 DEF Keep, Scan, Closed
<1>4. Scanned(Append(lines, last)) = Step(scan, last)
  BY <1>1, ScannedRecurs
<1>5. Step(scan, last) = kept
  BY DEF Step, Outside, Directive, Rejected, IsRemoved, Removed, Closed
<1>6. Scanned(Sanitize(lines)) = kept
  BY ScanSettings
<1>7. Sanitize(Sanitize(lines)) = kept.result \o Settings
  BY <1>6 DEF Sanitize
<1> HIDE DEF last, scan, kept, front
<1>8. Sanitize(Sanitize(lines)) = front \o Settings
  BY <1>3, <1>7
<1> QED BY <1>2, <1>3, <1>4, <1>5, <1>8 DEF last, scan, kept, front

\* A text without its last three lines.
LEMMA FrontOf ==
  ASSUME NEW Y, NEW front \in Seq(Y), NEW one \in Y, NEW two \in Y, NEW three \in Y
  PROVE  LET text == Append(Append(Append(front, one), two), three)
         IN  SubSeq(text, 1, Len(text) - 3) = front
<1> DEFINE text == Append(Append(Append(front, one), two), three)
           n == Len(front)
<1>1. n \in Nat /\ Len(text) = n + 3 /\ (n + 3) - 3 = n
  OBVIOUS
<1>2. \A i \in 1..n : text[i] = front[i]
  OBVIOUS
<1>3. SubSeq(text, 1, n) = front
  <2>1. SubSeq(text, 1, n) = [i \in 1..n |-> front[i]]
    OBVIOUS
  <2>2. front = [i \in 1..n |-> front[i]]
    OBVIOUS
  <2> QED BY <2>1, <2>2
<1> HIDE DEF text, n
<1> QED BY <1>1, <1>3 DEF text, n

\* Sanitizing once more adds nothing and takes nothing away.
LEMMA SameLines ==
  ASSUME NEW lines \in Seq(Line), Closed(lines)
  PROVE  ToSet(Sanitize(Sanitize(lines))) = ToSet(Sanitize(lines))
<1> DEFINE last == Directive("auth-nocache")
           result == Scanned(lines).result
           front == Append(result, last)
           settings == <<Directive("route-nopull"), Directive("script-security"), last>>
<1>1. result \in Seq(Line) /\ last \in Line
  BY ScannedRecurs, SettingsLines DEF Scan
<1>2. front \in Seq(Line) /\ Sanitize(Sanitize(lines)) = front \o Settings
  BY EngineText
<1>3. Sanitize(lines) = result \o Settings
  BY DEF Sanitize
<1>4. Settings = settings /\ settings \in Seq(Line) /\ last \in ToSet(settings)
  <2>1. settings \in Seq(Line)
    BY SettingsLines
  <2>2. settings[3] = last /\ 3 \in DOMAIN settings
    OBVIOUS
  <2> HIDE DEF settings, last
  <2>3. last \in ToSet(settings)
    BY <2>2 DEF ToSet
  <2> QED BY <2>1, <2>3 DEF Settings, settings, last
<1> HIDE DEF last, result, settings
<1>5. front = result \o <<last>> /\ <<last>> \in Seq(Line) /\ ToSet(<<last>>) = {last}
  BY <1>1, ToSetSingle
<1> HIDE DEF front
<1>6. ToSet(front) = ToSet(result) \cup {last}
  <2> DEFINE single == <<last>>
  <2>1. single \in Seq(Line) /\ ToSet(single) = {last} /\ front = result \o single
    BY <1>5
  <2> HIDE DEF single
  <2>2. ToSet(result \o single) = ToSet(result) \cup ToSet(single)
    BY <1>1, <2>1, ToSetConcat
  <2> QED BY <2>1, <2>2
<1>7. ToSet(front \o Settings) = ToSet(front) \cup ToSet(settings)
  BY <1>2, <1>4, ToSetConcat
<1>8. ToSet(result \o Settings) = ToSet(result) \cup ToSet(settings)
  BY <1>1, <1>4, ToSetConcat
<1> QED BY <1>2, <1>3, <1>4, <1>6, <1>7, <1>8

\* The engine is given the gateway of the profile and no other, none of the
\* directives that were to go, and no line the controller has not sent.
LEMMA EngineTextOf ==
  ASSUME NEW config \in Config, Sanitizes(Overridden(config))
  PROVE  LET sent == Sanitize(Overridden(config))
             text == Sanitize(sent)
             front == SubSeq(text, 1, Len(text) - 3)
         IN  /\ \A i \in Directives(front) : front[i].name \notin Rejected \cup Removed
             /\ ToSet(text) = ToSet(sent)
             /\ \/ config.host = ""
                \/ \E i \in DOMAIN config.lines :
                     \/ InBlock(config.lines, i) /\ IsRemote(config.lines[i])
                     \/ i \in Gateways(config.lines) /\ ~IsRemote(config.lines[i])
                \/ \E i \in Gateways(text) :
                     Gateways(text) = {i} /\ text[i] = Remote(config.host)
<1> DEFINE lines == Overridden(config)
           sent == Sanitize(lines)
           text == Sanitize(sent)
           last == Directive("auth-nocache")
           front == Append(Scanned(lines).result, last)
           remote == Remote(config.host)
<1>1. lines \in Seq(Line) /\ Closed(lines)
  BY OverriddenType DEF Sanitizes, Closed
<1> HIDE DEF lines
<1>2. /\ front \in Seq(Line) /\ Scanned(Append(lines, last)).result = front
      /\ Scanned(Append(lines, last)).ok /\ text = front \o Settings
  BY <1>1, EngineText
<1>3. last \in Line /\ Append(lines, last) \in Seq(Line)
  BY <1>1, SettingsLines, ReadRecurs
<1>4. SubSeq(text, 1, Len(text) - 3) = front
  <2> DEFINE one == Directive("route-nopull")
             two == Directive("script-security")
             whole == Append(Append(Append(front, one), two), last)
  <2>1. one \in Line /\ two \in Line /\ last \in Line
    BY SettingsLines
  <2>2. text = whole
    BY <1>2, AppendSettings
  <2> HIDE DEF one, two, last, text, front
  <2>3. SubSeq(whole, 1, Len(whole) - 3) = front
    BY <1>2, <2>1, FrontOf
  <2> QED BY <2>2, <2>3
<1>5. ToSet(text) = ToSet(sent)
  BY <1>1, SameLines
<1>6. Tame(front)
  BY <1>2, <1>3, ScanAgrees DEF Agrees
<1>7. ~Names(lines, last)
  BY DEF Names, Directive
<1> HIDE DEF sent, text, last, front
<1>8. ASSUME config.host # "", Clean(config.lines) PROVE OnlyGateway(text, remote)
  <2>1. config.host \in Words /\ config.lines \in Seq(Line)
    BY <1>8, ConfigFields, GatewaysAssumption DEF Text
  <2>2. OnlyGateway(lines, remote)
    BY <1>8, <2>1, OverrideNames DEF lines, Overridden
  <2> HIDE DEF remote
  <2>3. OnlyGateway(Append(lines, last), remote)
    BY <1>1, <1>3, <1>7, <2>2, GatewaysAppend
  <2>4. OnlyGateway(front, remote)
    BY <1>2, <1>3, <2>3, ScanAgrees DEF Agrees
  <2> QED BY <1>2, <2>4, SettingsNameNone
<1>9. \/ config.host = ""
      \/ \E i \in DOMAIN config.lines :
           \/ InBlock(config.lines, i) /\ IsRemote(config.lines[i])
           \/ i \in Gateways(config.lines) /\ ~IsRemote(config.lines[i])
      \/ \E i \in Gateways(text) :
           Gateways(text) = {i} /\ text[i] = Remote(config.host)
  BY <1>8 DEF Clean, OnlyGateway
<1> QED BY <1>4, <1>5, <1>6, <1>9 DEF Tame, lines, sent, text

\* The engine gets no text it should not have.
THEOREM EngineTextTame == Spec => []EngineTextIsTame
<1>1. Answered => EngineTextIsTame
  <2> SUFFICES ASSUME Answered, outcome = "accepted", request.protocol = "openvpn"
               PROVE  EngineTextIsTame
    BY DEF EngineTextIsTame
  <2> DEFINE config == configs[asked]
  <2>1. config \in Config /\ Builds(config) /\ request = Build(config)
    BY FilesAssumption DEF Answered
  <2> HIDE DEF config
  <2>2. config.type = "openvpn" /\ request.lines = Sanitize(Overridden(config))
    BY <2>1, BuildFields
  <2>3. Sanitizes(Overridden(config))
    BY <2>1, <2>2 DEF Builds
  <2> QED BY <2>1, <2>2, <2>3, EngineTextOf DEF EngineTextIsTame, config
<1> QED BY <1>1, AnswersHold, PTL

-----------------------------------------------------------------------------
(* Views of the routes: the matches of an address *)

Flow == [profile : Nat, prefix : 0..Bits, base : Address]
None == <<>>

\* The empty list.
LEMMA NoneType == ASSUME NEW Y PROVE None \in Seq(Y)
BY DEF None

\* The matches in a list of routes.
Matches(address, flows) ==
  FoldLeft(LAMBDA hits, route : IF Covers(route, address) THEN Append(hits, route) ELSE hits,
           None, flows)

MatchStep(address) ==
  [p \in Seq(Flow) \X Flow |-> IF Covers(p[2], address) THEN Append(p[1], p[2]) ELSE p[1]]

\* The step maps matches and a route to matches.
LEMMA MatchStepType ==
  ASSUME NEW address
  PROVE  IsStep(MatchStep(address), Seq(Flow), Flow)
BY DEF MatchStep, IsStep

\* It appends the routes that cover the address.
LEMMA MatchStepIs ==
  ASSUME NEW address, NEW hits \in Seq(Flow), NEW route \in Flow
  PROVE  MatchStep(address)[<<hits, route>>] =
           IF Covers(route, address) THEN Append(hits, route) ELSE hits
BY DEF MatchStep

\* Matches as a fold computed by a function.
LEMMA MatchesFolds ==
  ASSUME NEW address, NEW flows \in Seq(Flow)
  PROVE  Matches(address, flows) = Foldl(MatchStep(address), None, flows)
<1> DEFINE X == Seq(Flow)
           D == DOMAIN flows
           Body(f, s) == IF s = {} THEN None
                         ELSE IF Covers(flows[Max(s)], address) THEN Append(f[s \ {Max(s)}], flows[Max(s)]) ELSE f[s \ {Max(s)}]
           P(f) == f = [s \in SUBSET D |-> Body(f, s)]
           c == CHOOSE f : P(f)
<1>0. None \in X /\ IsStep(MatchStep(address), X, Flow) /\ flows \in Seq(Flow)
  BY NoneType, MatchStepType
<1>1. \A s \in SUBSET D : s # {} => flows[Max(s)] \in Flow
  <2>1. Len(flows) \in Nat /\ D = 1..Len(flows)
    BY <1>0
  <2>2. \A s \in SUBSET D : s # {} => Max(s) \in D
    BY <2>1, MaxIn
  <2> QED BY <1>0, <2>1, <2>2
<1>2. PICK F : IsFold(F, X, MatchStep(address), None, flows)
  BY <1>0, FoldIsDefined
<1>3. P(F)
  <2>1. ASSUME NEW s \in SUBSET D PROVE F[s] = Body(F, s)
    <3>1. F[s \ {Max(s)}] \in X
      BY <1>2 DEF IsFold
    <3>2. F[s] = IF s = {} THEN None ELSE MatchStep(address)[<<F[s \ {Max(s)}], flows[Max(s)]>>]
      BY <1>2 DEF IsFold
    <3> QED BY <1>1, <3>1, <3>2, MatchStepIs
  <2>2. F = [s \in SUBSET D |-> F[s]]
    BY <1>2 DEF IsFold
  <2> HIDE DEF Body, D
  <2> QED BY <2>1, <2>2
<1>4. P(c)
  <2> HIDE DEF P
  <2> QED BY <1>3
<1>5. Follows(c, X, MatchStep(address), None, flows)
  <2>1. \A s \in SUBSET D : c[s] = Body(c, s)
    <3>1. P(c) => \A s \in SUBSET D : c[s] = Body(c, s)
      <4> HIDE DEF c, Body, D
      <4> QED OBVIOUS
    <3> HIDE DEF P
    <3> QED BY <1>4, <3>1
  <2> HIDE DEF c
  <2> QED BY <1>1, <2>1, MatchStepIs DEF Follows
<1>6. Matches(address, flows) = c[D]
  BY DEF Matches, FoldLeft, MapThenFoldSet
<1>7. c[D] = Foldl(MatchStep(address), None, flows)
  <2> HIDE DEF c, X
  <2> QED BY <1>0, <1>5, FoldIs
<1> HIDE DEF c
<1> QED BY <1>6, <1>7

\* The equations of Matches.
LEMMA MatchesRecurs ==
  ASSUME NEW address
  PROVE  /\ Matches(address, None) = None
         /\ \A flows \in Seq(Flow) : Matches(address, flows) \in Seq(Flow)
         /\ \A flows \in Seq(Flow), route \in Flow :
              /\ Append(flows, route) \in Seq(Flow)
              /\ Matches(address, Append(flows, route)) =
                   IF Covers(route, address) THEN Append(Matches(address, flows), route)
                   ELSE Matches(address, flows)
<1> DEFINE step == MatchStep(address)
<1>1. None \in Seq(Flow) /\ IsStep(step, Seq(Flow), Flow)
  BY NoneType, MatchStepType
<1>2. Matches(address, None) = None
  <2>1. Foldl(step, None, <<>>) = None
    <3> HIDE DEF step
    <3> QED BY <1>1, FoldlEmpty
  <2> QED BY <1>1, <2>1, MatchesFolds DEF None
<1>3. ASSUME NEW flows \in Seq(Flow) PROVE Matches(address, flows) \in Seq(Flow)
  BY <1>1, MatchesFolds, FoldlType
<1>4. ASSUME NEW flows \in Seq(Flow), NEW route \in Flow
      PROVE  /\ Append(flows, route) \in Seq(Flow)
             /\ Matches(address, Append(flows, route)) =
                  IF Covers(route, address) THEN Append(Matches(address, flows), route)
                  ELSE Matches(address, flows)
  <2>1. Append(flows, route) \in Seq(Flow)
    OBVIOUS
  <2>2. Foldl(step, None, Append(flows, route)) = step[<<Foldl(step, None, flows), route>>]
    BY <1>1, FoldlAppend
  <2>3. Matches(address, Append(flows, route)) = step[<<Matches(address, flows), route>>]
    BY <2>1, <2>2, MatchesFolds
  <2> QED BY <1>3, <2>1, <2>3, MatchStepIs
<1> QED BY <1>2, <1>3, <1>4

\* The best of a list of matches.
NoBest == [profile |-> 0, prefix |-> 0 - 1]
Best(flows) == FoldLeft(Better, NoBest, flows)

BestStep == [p \in (Flow \cup {NoBest}) \X Flow |-> Better(p[1], p[2])]

\* The step maps the best so far and a route to one of the two.
LEMMA BestStepType ==
  NoBest \in Flow \cup {NoBest} /\ IsStep(BestStep, Flow \cup {NoBest}, Flow)
BY DEF BestStep, IsStep, Better

\* It is Better.
LEMMA BestStepIs ==
  ASSUME NEW best \in Flow \cup {NoBest}, NEW route \in Flow
  PROVE  BestStep[<<best, route>>] = Better(best, route)
BY DEF BestStep

\* Best as a fold computed by a function.
LEMMA BestFolds ==
  ASSUME NEW flows \in Seq(Flow)
  PROVE  Best(flows) = Foldl(BestStep, NoBest, flows)
<1> DEFINE X == Flow \cup {NoBest}
           D == DOMAIN flows
           Body(f, s) == IF s = {} THEN NoBest
                         ELSE Better(f[s \ {Max(s)}], flows[Max(s)])
           P(f) == f = [s \in SUBSET D |-> Body(f, s)]
           c == CHOOSE f : P(f)
<1>0. NoBest \in X /\ IsStep(BestStep, X, Flow) /\ flows \in Seq(Flow)
  BY BestStepType
<1>1. \A s \in SUBSET D : s # {} => flows[Max(s)] \in Flow
  <2>1. Len(flows) \in Nat /\ D = 1..Len(flows)
    BY <1>0
  <2>2. \A s \in SUBSET D : s # {} => Max(s) \in D
    BY <2>1, MaxIn
  <2> QED BY <1>0, <2>1, <2>2
<1>2. PICK F : IsFold(F, X, BestStep, NoBest, flows)
  BY <1>0, FoldIsDefined
<1>3. P(F)
  <2>1. ASSUME NEW s \in SUBSET D PROVE F[s] = Body(F, s)
    <3>1. F[s \ {Max(s)}] \in X
      BY <1>2 DEF IsFold
    <3>2. F[s] = IF s = {} THEN NoBest ELSE BestStep[<<F[s \ {Max(s)}], flows[Max(s)]>>]
      BY <1>2 DEF IsFold
    <3> QED BY <1>1, <3>1, <3>2, BestStepIs
  <2>2. F = [s \in SUBSET D |-> F[s]]
    BY <1>2 DEF IsFold
  <2> HIDE DEF Body, D
  <2> QED BY <2>1, <2>2
<1>4. P(c)
  <2> HIDE DEF P
  <2> QED BY <1>3
<1>5. Follows(c, X, BestStep, NoBest, flows)
  <2>1. \A s \in SUBSET D : c[s] = Body(c, s)
    <3>1. P(c) => \A s \in SUBSET D : c[s] = Body(c, s)
      <4> HIDE DEF c, Body, D
      <4> QED OBVIOUS
    <3> HIDE DEF P
    <3> QED BY <1>4, <3>1
  <2> HIDE DEF c
  <2> QED BY <1>1, <2>1, BestStepIs DEF Follows
<1>6. Best(flows) = c[D]
  BY DEF Best, FoldLeft, MapThenFoldSet
<1>7. c[D] = Foldl(BestStep, NoBest, flows)
  <2> HIDE DEF c, X
  <2> QED BY <1>0, <1>5, FoldIs
<1> HIDE DEF c
<1> QED BY <1>6, <1>7

\* The equations of Best.
LEMMA BestRecurs ==
  /\ Best(<<>>) = NoBest
  /\ \A flows \in Seq(Flow) : Best(flows) \in Flow \cup {NoBest}
  /\ \A flows \in Seq(Flow), route \in Flow :
       /\ Append(flows, route) \in Seq(Flow)
       /\ Best(Append(flows, route)) = Better(Best(flows), route)
<1> DEFINE X == Flow \cup {NoBest}
<1>1. NoBest \in X /\ IsStep(BestStep, X, Flow)
  BY BestStepType
<1> HIDE DEF X
<1>2. Best(<<>>) = NoBest
  <2>1. <<>> \in Seq(Flow)
    OBVIOUS
  <2> QED BY <1>1, <2>1, BestFolds, FoldlEmpty
<1>3. ASSUME NEW flows \in Seq(Flow) PROVE Best(flows) \in X
  BY <1>1, BestFolds, FoldlType
<1>4. ASSUME NEW flows \in Seq(Flow), NEW route \in Flow
      PROVE  /\ Append(flows, route) \in Seq(Flow)
             /\ Best(Append(flows, route)) = Better(Best(flows), route)
  <2>1. Append(flows, route) \in Seq(Flow)
    OBVIOUS
  <2>2. Foldl(BestStep, NoBest, Append(flows, route)) = BestStep[<<Foldl(BestStep, NoBest, flows), route>>]
    BY <1>1, FoldlAppend
  <2>3. Best(Append(flows, route)) = BestStep[<<Best(flows), route>>]
    BY <2>1, <2>2, BestFolds
  <2> QED BY <1>3, <2>1, <2>3, BestStepIs DEF X
<1> QED BY <1>2, <1>3, <1>4 DEF X

\* The routes of all profiles of a file, when all of them are networks.
Routed(file) == \A i \in 1..Len(file) : file[i].routes \in Seq(Cidr)

RoutesIn(file) == [i \in DOMAIN file |-> file[i].routes]
FlowsOf(file, i) ==
  [j \in DOMAIN RoutesIn(file)[i] |->
     [profile |-> i, prefix |-> RoutesIn(file)[i][j].prefix, base |-> RoutesIn(file)[i][j].base]]
AllFlows(file) == FoldLeft(LAMBDA all, i : all \o FlowsOf(file, i), None, Upto(Len(file)))

\* The routes of one profile, each marked with its profile.
LEMMA FlowsOfType ==
  ASSUME NEW file \in Seq(Config), Routed(file), NEW i \in 1..Len(file)
  PROVE  /\ FlowsOf(file, i) \in Seq(Flow) /\ DOMAIN FlowsOf(file, i) = DOMAIN file[i].routes
         /\ \A flow \in ToSet(FlowsOf(file, i)) : flow.profile = i
<1> DEFINE routes == file[i].routes
           FlowOf(cidr) == [profile |-> i, prefix |-> cidr.prefix, base |-> cidr.base]
           flows == [j \in DOMAIN routes |-> FlowOf(routes[j])]
<1>1. routes \in Seq(Cidr) /\ i \in Nat
  BY DEF Routed
<1>2. \A cidr \in Cidr : FlowOf(cidr) \in Flow /\ FlowOf(cidr).profile = i
  BY <1>1 DEF Flow, Cidr
<1>3. FlowsOf(file, i) = flows
  BY DEF FlowsOf, RoutesIn
<1> HIDE DEF routes, FlowOf
<1>4. \A j \in DOMAIN routes : routes[j] \in Cidr
  BY <1>1
<1>5. flows \in Seq(Flow)
  <2>1. DOMAIN routes = 1..Len(routes) /\ Len(routes) \in Nat
    BY <1>1
  <2>2. flows \in [1..Len(routes) -> Flow]
    BY <1>2, <1>4, <2>1
  <2> HIDE DEF flows
  <2> QED BY <2>1, <2>2
<1>6. DOMAIN flows = DOMAIN routes /\ \A j \in DOMAIN flows : flows[j].profile = i
  BY <1>2, <1>4
<1> HIDE DEF flows
<1>7. \A flow \in ToSet(flows) : flow.profile = i
  BY <1>6 DEF ToSet
<1> QED BY <1>3, <1>5, <1>6, <1>7 DEF routes

\* A concatenation has the type of its parts.
LEMMA ConcatType ==
  ASSUME NEW Y, NEW left \in Seq(Y), NEW right \in Seq(Y)
  PROVE  left \o right \in Seq(Y)
OBVIOUS

ListStep(file) == [p \in Seq(Flow) \X (1..Len(file)) |-> p[1] \o FlowsOf(file, p[2])]

\* The step maps a list and a profile to a list.
LEMMA ListStepType ==
  ASSUME NEW file \in Seq(Config), Routed(file)
  PROVE  IsStep(ListStep(file), Seq(Flow), 1..Len(file))
BY FlowsOfType, ConcatType DEF ListStep, IsStep

\* It appends the routes of the profile.
LEMMA ListStepIs ==
  ASSUME NEW file, NEW all \in Seq(Flow), NEW i \in 1..Len(file)
  PROVE  ListStep(file)[<<all, i>>] = all \o FlowsOf(file, i)
BY DEF ListStep

\* The profiles of a file, by their places.
LEMMA UptoAll ==
  ASSUME NEW file \in Seq(Config)
  PROVE  Upto(Len(file)) \in Seq(1..Len(file))
BY LenInNat, UptoType

\* The list of all routes as a fold computed by a function.
LEMMA AllFlowsFolds ==
  ASSUME NEW file \in Seq(Config), Routed(file)
  PROVE  AllFlows(file) = Foldl(ListStep(file), None, Upto(Len(file)))
<1> DEFINE X == Seq(Flow)
           D == DOMAIN Upto(Len(file))
           Body(f, s) == IF s = {} THEN None
                         ELSE f[s \ {Max(s)}] \o FlowsOf(file, Upto(Len(file))[Max(s)])
           P(f) == f = [s \in SUBSET D |-> Body(f, s)]
           c == CHOOSE f : P(f)
<1>0. None \in X /\ IsStep(ListStep(file), X, (1..Len(file))) /\ Upto(Len(file)) \in Seq((1..Len(file)))
  BY NoneType, ListStepType, UptoAll
<1>1. \A s \in SUBSET D : s # {} => Upto(Len(file))[Max(s)] \in (1..Len(file))
  <2>1. Len(Upto(Len(file))) \in Nat /\ D = 1..Len(Upto(Len(file)))
    BY <1>0
  <2>2. \A s \in SUBSET D : s # {} => Max(s) \in D
    BY <2>1, MaxIn
  <2> QED BY <1>0, <2>1, <2>2
<1>2. PICK F : IsFold(F, X, ListStep(file), None, Upto(Len(file)))
  BY <1>0, FoldIsDefined
<1>3. P(F)
  <2>1. ASSUME NEW s \in SUBSET D PROVE F[s] = Body(F, s)
    <3>1. F[s \ {Max(s)}] \in X
      BY <1>2 DEF IsFold
    <3>2. F[s] = IF s = {} THEN None ELSE ListStep(file)[<<F[s \ {Max(s)}], Upto(Len(file))[Max(s)]>>]
      BY <1>2 DEF IsFold
    <3> QED BY <1>1, <3>1, <3>2, ListStepIs
  <2>2. F = [s \in SUBSET D |-> F[s]]
    BY <1>2 DEF IsFold
  <2> HIDE DEF Body, D
  <2> QED BY <2>1, <2>2
<1>4. P(c)
  <2> HIDE DEF P
  <2> QED BY <1>3
<1>5. Follows(c, X, ListStep(file), None, Upto(Len(file)))
  <2>1. \A s \in SUBSET D : c[s] = Body(c, s)
    <3>1. P(c) => \A s \in SUBSET D : c[s] = Body(c, s)
      <4> HIDE DEF c, Body, D
      <4> QED OBVIOUS
    <3> HIDE DEF P
    <3> QED BY <1>4, <3>1
  <2> HIDE DEF c
  <2> QED BY <1>1, <2>1, ListStepIs DEF Follows
<1>6. AllFlows(file) = c[D]
  BY DEF AllFlows, FoldLeft, MapThenFoldSet
<1>7. c[D] = Foldl(ListStep(file), None, Upto(Len(file)))
  <2> HIDE DEF c, X
  <2> QED BY <1>0, <1>5, FoldIs
<1> HIDE DEF c
<1> QED BY <1>6, <1>7

\* What is listed is what the profiles have.
ListedWell(file, k) ==
  LET listed == Foldl(ListStep(file), None, Upto(k))
  IN  /\ listed \in Seq(Flow)
      /\ \A flow : flow \in ToSet(listed) <=> \E i \in 1..k : flow \in ToSet(FlowsOf(file, i))

\* By induction over the profiles: the list has the routes of all of them and
\* no others.
LEMMA AllFlowsAre ==
  ASSUME NEW file \in Seq(Config), Routed(file)
  PROVE  /\ AllFlows(file) \in Seq(Flow)
         /\ \A flow : flow \in ToSet(AllFlows(file)) <=>
              \E i \in 1..Len(file) : flow \in ToSet(FlowsOf(file, i))
<1> DEFINE n == Len(file)
           step == ListStep(file)
           S == {k \in Nat : k <= n => ListedWell(file, k)}
<1>1. n \in Nat /\ IsStep(step, Seq(Flow), 1..n) /\ None \in Seq(Flow)
  BY NoneType, ListStepType
<1>2. 0 \in S
  <2>1. Upto(0) = <<>>
    BY DEF Upto
  <2>2. Foldl(step, None, <<>>) = None
    <3> HIDE DEF step, n
    <3> QED BY <1>1, FoldlEmpty
  <2>3. ToSet(None) = {}
    BY ToSetEmpty DEF None
  <2>4. ~ \E i \in 1..0 : TRUE
    OBVIOUS
  <2>5. ListedWell(file, 0)
    BY <1>1, <2>1, <2>2, <2>3, <2>4 DEF ListedWell
  <2> QED BY <2>5
<1>3. ASSUME NEW k \in Nat, k \in S, k + 1 <= n PROVE ListedWell(file, k + 1)
  <2> DEFINE listed == Foldl(step, None, Upto(k))
             new == FlowsOf(file, k + 1)
             more == Foldl(step, None, Upto(k + 1))
  <2>1. k \in 0..n /\ k < n /\ k <= n /\ k + 1 \in 1..n
    BY <1>1, <1>3
  <2>2. ListedWell(file, k)
    BY <1>3, <2>1
  <2>3. listed \in Seq(Flow) /\ new \in Seq(Flow)
    BY <2>1, <2>2, FlowsOfType DEF ListedWell
  <2>4. Upto(k) \in Seq(1..n) /\ Upto(k + 1) = Append(Upto(k), k + 1)
    BY <1>1, <2>1, UptoType
  <2>5. more = step[<<listed, k + 1>>]
    <3> HIDE DEF step, n
    <3>1. Foldl(step, None, Append(Upto(k), k + 1)) = step[<<Foldl(step, None, Upto(k)), k + 1>>]
      BY <1>1, <2>1, <2>4, FoldlAppend
    <3> QED BY <2>4, <3>1
  <2>6. more = listed \o new
    <3> HIDE DEF listed, more, new
    <3> QED BY <2>1, <2>3, <2>5, ListStepIs DEF new
  <2> HIDE DEF listed, new, step
  <2>7. more \in Seq(Flow) /\ ToSet(more) = ToSet(listed) \cup ToSet(new)
    BY <2>3, <2>6, ConcatType, ToSetConcat
  <2> HIDE DEF more
  <2>8. \A i : i \in 1..(k + 1) <=> i \in 1..k \/ i = k + 1
    OBVIOUS
  <2>9. \A flow : flow \in ToSet(listed) <=> \E i \in 1..k : flow \in ToSet(FlowsOf(file, i))
    BY <2>2 DEF ListedWell, listed, step
  <2>10. \A flow : flow \in ToSet(more) <=> \E i \in 1..(k + 1) : flow \in ToSet(FlowsOf(file, i))
    BY <2>7, <2>8, <2>9 DEF new
  <2> QED BY <2>7, <2>10 DEF ListedWell, more, step
<1>4. \A k \in Nat : k \in S => k + 1 \in S
  <2>1. ASSUME NEW k \in Nat, k \in S PROVE k + 1 \in S
    <3> HIDE DEF n
    <3> QED BY <1>3, <2>1
  <2> QED BY <2>1
<1>5. n \in S
  <2> HIDE DEF S, n
  <2> QED BY <1>1, <1>2, <1>4, SetInduction
<1>6. ListedWell(file, n)
  BY <1>1, <1>5
<1>7. AllFlows(file) = Foldl(step, None, Upto(n))
  BY AllFlowsFolds
<1> QED BY <1>6, <1>7 DEF ListedWell

\* The matches are the routes that contain the address.
LEMMA MatchesAre ==
  ASSUME NEW address, NEW flows \in Seq(Flow)
  PROVE  /\ Matches(address, flows) \in Seq(Flow)
         /\ ToSet(Matches(address, flows)) = {flow \in ToSet(flows) : Covers(flow, address)}
<1> DEFINE T == {some \in Seq(Flow) :
                   ToSet(Matches(address, some)) = {flow \in ToSet(some) : Covers(flow, address)}}
<1>1. <<>> \in T
  <2>1. <<>> \in Seq(Flow)
    OBVIOUS
  <2>2. Matches(address, <<>>) = <<>>
    BY MatchesRecurs DEF None
  <2> QED BY <2>1, <2>2, ToSetEmpty
<1>2. ASSUME NEW some \in Seq(Flow), NEW route \in Flow, some \in T
      PROVE  Append(some, route) \in T
  <2>1. /\ Append(some, route) \in Seq(Flow) /\ Matches(address, some) \in Seq(Flow)
        /\ Matches(address, Append(some, route)) =
             IF Covers(route, address) THEN Append(Matches(address, some), route)
             ELSE Matches(address, some)
    BY MatchesRecurs
  <2>2. ToSet(Append(some, route)) = ToSet(some) \cup {route}
    BY ToSetAppend
  <2>3. ToSet(Append(Matches(address, some), route)) = ToSet(Matches(address, some)) \cup {route}
    BY <2>1, ToSetAppend
  <2>4. ToSet(Matches(address, some)) = {flow \in ToSet(some) : Covers(flow, address)}
    BY <1>2
  <2> QED BY <2>1, <2>2, <2>3, <2>4
<1>3. Seq(Flow) \subseteq T
  <2> HIDE DEF T
  <2> QED BY <1>1, <1>2, SeqInduction
<1> QED BY <1>3, MatchesRecurs

\* The best of the matches is one of them, and none is longer.
IsBest(best, flows) ==
  IF flows = {} THEN best = NoBest
  ELSE best \in flows /\ \A flow \in flows : flow.prefix <= best.prefix

\* By induction over the matches: the best is a longest one, and there is one
\* unless there is no match.
LEMMA BestIs ==
  ASSUME NEW flows \in Seq(Flow)
  PROVE  IsBest(Best(flows), ToSet(flows))
<1> DEFINE T == {some \in Seq(Flow) : IsBest(Best(some), ToSet(some))}
<1>1. <<>> \in T
  <2>1. <<>> \in Seq(Flow)
    OBVIOUS
  <2>2. IsBest(Best(<<>>), ToSet(<<>>))
    BY BestRecurs, ToSetEmpty DEF IsBest
  <2> QED BY <2>1, <2>2
<1>2. ASSUME NEW some \in Seq(Flow), NEW route \in Flow, some \in T
      PROVE  Append(some, route) \in T
  <2> DEFINE more == Append(some, route)
             best == Best(some)
             next == Best(more)
  <2>1. more \in Seq(Flow) /\ next = Better(best, route) /\ ToSet(more) = ToSet(some) \cup {route}
    BY BestRecurs, ToSetAppend
  <2>2. IsBest(best, ToSet(some)) /\ ToSet(some) \subseteq Flow
    BY <1>2, ToSetMember
  <2>3. \A flow \in Flow : flow.prefix \in Nat
    BY BitsAssumption DEF Flow
  <2> HIDE DEF more, best, next
  <2>4. CASE ToSet(some) = {}
    <3>1. best.prefix = 0 - 1
      BY <2>2, <2>4 DEF IsBest, NoBest
    <3>2. route.prefix > best.prefix
      BY <2>3, <3>1
    <3>3. next = route /\ ToSet(more) = {route} /\ route.prefix <= route.prefix
      BY <2>1, <2>3, <2>4, <3>2 DEF Better
    <3>4. IsBest(next, ToSet(more))
      BY <3>3 DEF IsBest
    <3> QED BY <2>1, <3>4 DEF more, next
  <2>5. CASE ToSet(some) # {}
    <3>1. best \in ToSet(some) /\ \A flow \in ToSet(some) : flow.prefix <= best.prefix
      BY <2>2, <2>5 DEF IsBest
    <3>2. best.prefix \in Nat /\ route.prefix \in Nat /\ \A flow \in ToSet(some) : flow.prefix \in Nat
      BY <2>2, <2>3, <3>1
    <3>3. CASE route.prefix > best.prefix
      <4>1. next = route
        BY <2>1, <3>3 DEF Better
      <4>2. \A flow \in ToSet(some) : flow.prefix <= route.prefix
        BY <3>1, <3>2, <3>3
      <4>3. IsBest(next, ToSet(more))
        BY <2>1, <3>2, <4>1, <4>2 DEF IsBest
      <4> QED BY <2>1, <4>3 DEF more, next
    <3>4. CASE ~(route.prefix > best.prefix)
      <4>1. next = best /\ route.prefix <= best.prefix
        BY <2>1, <3>2, <3>4 DEF Better
      <4>2. IsBest(next, ToSet(more))
        BY <2>1, <3>1, <4>1 DEF IsBest
      <4> QED BY <2>1, <4>2 DEF more, next
    <3> QED BY <3>3, <3>4
  <2> QED BY <2>4, <2>5
<1>3. Seq(Flow) \subseteq T
  <2> HIDE DEF T
  <2> QED BY <1>1, <1>2, SeqInduction
<1> QED BY <1>3

-----------------------------------------------------------------------------
(* A connection is shown where it goes *)

\* What a profile with sound routes has installed.
LEMMA InstalledIs ==
  ASSUME NEW config \in Config, SoundRoutes(config)
  PROVE  /\ config.routes \in Seq(Cidr) /\ config.servers \in Seq(Address)
         /\ ToSet(Build(config).routes) = Networks(config)
<1> DEFINE routes == config.routes
           servers == config.servers
           masked == ParseRoutes(routes)
           all == Build(config).routes
<1>1. ParsesRoutes(routes)
  BY DEF SoundRoutes, ParsesRoutes
<1>2. /\ routes \in Seq(Cidr) /\ servers \in Seq(Server) /\ masked \in Seq(Cidr)
      /\ Len(masked) = Len(routes) /\ \A i \in DOMAIN routes : masked[i] = Mask(routes[i])
      /\ Extends(masked, servers, all)
  BY <1>1, BuiltRoutes
<1>3. \A i \in DOMAIN servers : servers[i] # Malformed
  BY DEF SoundRoutes
<1>4. \A i \in DOMAIN servers : servers[i] \in Address
  BY <1>2, <1>3 DEF Server
<1> HIDE DEF masked, all, routes
<1>5. DOMAIN masked = DOMAIN routes
  BY <1>2
<1>6. ToSet(masked) = {Mask(routes[i]) : i \in DOMAIN routes}
  BY <1>2, <1>5 DEF ToSet
<1>7. {RouteTo(servers[i]) : i \in DOMAIN servers} = {Host(servers[i]) : i \in DOMAIN servers}
  BY <1>3 DEF RouteTo
<1>8. servers \in Seq(Address)
  BY <1>2, <1>4
<1>9. ToSet(all) = Networks(config)
  BY <1>2, <1>6, <1>7 DEF Extends, Networks, routes
<1> QED BY <1>2, <1>8, <1>9 DEF all, routes

\* A route that is listed contains what the route of the profile contains.
LEMMA ListedIsRoute ==
  ASSUME NEW file \in Seq(Config), Routed(file), NEW i \in 1..Len(file),
         NEW j \in DOMAIN file[i].routes, NEW address
  PROVE  LET flow == FlowsOf(file, i)[j]
             cidr == file[i].routes[j]
         IN  /\ flow \in ToSet(FlowsOf(file, i)) /\ flow.profile = i
             /\ Mask(flow) = Mask(cidr) /\ Mask(cidr).prefix = flow.prefix
             /\ Covers(flow, address) <=> Covers(Mask(cidr), address)
<1> DEFINE flow == FlowsOf(file, i)[j]
           cidr == file[i].routes[j]
<1>1. cidr \in Cidr
  BY DEF Routed
<1>2. flow.profile = i /\ flow.prefix = cidr.prefix /\ flow.base = cidr.base
  BY DEF FlowsOf, RoutesIn
<1>3. flow \in ToSet(FlowsOf(file, i))
  <2>1. DOMAIN FlowsOf(file, i) = DOMAIN file[i].routes
    BY FlowsOfType
  <2> QED BY <2>1 DEF ToSet
<1> HIDE DEF flow, cidr
<1>4. Mask(flow) = Mask(cidr) /\ Mask(cidr).prefix = flow.prefix
  BY <1>2 DEF Mask
<1>5. Covers(flow, address) <=> Covers(cidr, address)
  BY <1>2, <1>4 DEF Covers
<1>6. Covers(Mask(cidr), address) <=> Covers(cidr, address)
  BY <1>1, MaskCovers
<1> QED BY <1>2, <1>3, <1>4, <1>5, <1>6 DEF flow, cidr

\* What is routed into the tunnels for an address, when all profiles are sound.
Sound(file) == \A i \in 1..Len(file) : SoundRoutes(file[i])
HitsOf(file, address) ==
  {hit \in UNION {{i} \X ToSet(Build(file[i]).routes) : i \in DOMAIN file} :
     Covers(hit[2], address)}

\* The routes of sound profiles are networks.
LEMMA SoundIsRouted ==
  ASSUME NEW file \in Seq(Config), Sound(file)
  PROVE  Routed(file)
<1>1. \A i \in 1..Len(file) : file[i] \in Config
  OBVIOUS
<1> QED BY <1>1, InstalledIs DEF Sound, Routed

\* The two views have the same matches, those of the servers apart.
LEMMA HitsAre ==
  ASSUME NEW file \in Seq(Config), Sound(file), NEW address \in Address,
         \A i \in 1..Len(file) : address \notin ToSet(file[i].servers),
         NEW hit
  PROVE  hit \in HitsOf(file, address) <=>
           \E flow \in ToSet(Matches(address, AllFlows(file))) :
             hit = <<flow.profile, Mask(flow)>>
<1> DEFINE n == Len(file)
           matches == ToSet(Matches(address, AllFlows(file)))
           Nets(i) == ToSet(Build(file[i]).routes)
<1>0. n \in Nat /\ DOMAIN file = 1..n /\ Routed(file)
  BY SoundIsRouted
<1>1. \A flow : flow \in matches <=>
        Covers(flow, address) /\ \E i \in 1..n : flow \in ToSet(FlowsOf(file, i))
  BY <1>0, AllFlowsAre, MatchesAre
<1>2. ASSUME NEW i \in 1..n
      PROVE  Nets(i) = Networks(file[i]) /\ file[i].servers \in Seq(Address)
  <2>1. file[i] \in Config /\ SoundRoutes(file[i])
    BY DEF Sound
  <2> QED BY <2>1, InstalledIs
<1> HIDE DEF matches, Nets
<1>3. hit \in HitsOf(file, address) <=>
        \E i \in 1..n : \E net \in Nets(i) : hit = <<i, net>> /\ Covers(net, address)
  BY <1>0 DEF HitsOf, Nets
<1> HIDE DEF n
<1>4. ASSUME NEW i \in 1..n, NEW net \in Nets(i), hit = <<i, net>>, Covers(net, address)
      PROVE  \E flow \in matches : hit = <<flow.profile, Mask(flow)>>
  <2>1. net \in Networks(file[i])
    BY <1>2
  <2>2. CASE \E k \in DOMAIN file[i].servers : net = Host(file[i].servers[k])
    <3>1. PICK k \in DOMAIN file[i].servers : net = Host(file[i].servers[k])
      BY <2>2
    <3>2. file[i].servers[k] \in Address /\ file[i].servers[k] \in ToSet(file[i].servers)
      BY <1>2 DEF ToSet
    <3>3. address = file[i].servers[k]
      BY <1>4, <3>1, <3>2, HostCovers
    <3> QED BY <3>2, <3>3 DEF n
  <2>3. CASE \E j \in DOMAIN file[i].routes : net = Mask(file[i].routes[j])
    <3>1. PICK j \in DOMAIN file[i].routes : net = Mask(file[i].routes[j])
      BY <2>3
    <3> DEFINE flow == FlowsOf(file, i)[j]
    <3>0. i \in 1..Len(file) /\ Routed(file)
      BY <1>0 DEF n
    <3>3. /\ flow \in ToSet(FlowsOf(file, i)) /\ flow.profile = i
          /\ Mask(flow) = Mask(file[i].routes[j])
          /\ Covers(flow, address) <=> Covers(Mask(file[i].routes[j]), address)
      BY <3>0, ListedIsRoute
    <3> HIDE DEF flow
    <3>2. /\ flow \in ToSet(FlowsOf(file, i)) /\ flow.profile = i /\ Mask(flow) = net
          /\ Covers(flow, address)
      BY <1>4, <3>1, <3>3
    <3> HIDE DEF flow
    <3> QED BY <1>1, <1>4, <3>2
  <2> QED BY <2>1, <2>2, <2>3 DEF Networks
<1>5. ASSUME NEW flow \in matches, hit = <<flow.profile, Mask(flow)>>
      PROVE  \E i \in 1..n : \E net \in Nets(i) : hit = <<i, net>> /\ Covers(net, address)
  <2>1. Covers(flow, address) /\ \E i \in 1..n : flow \in ToSet(FlowsOf(file, i))
    BY <1>1
  <2>2. PICK i \in 1..n : flow \in ToSet(FlowsOf(file, i))
    BY <2>1
  <2>3. PICK j \in DOMAIN file[i].routes : flow = FlowsOf(file, i)[j]
    <3>1. DOMAIN FlowsOf(file, i) = DOMAIN file[i].routes
      BY <1>0, FlowsOfType DEF n
    <3> QED BY <2>2, <3>1 DEF ToSet
  <2> DEFINE net == Mask(file[i].routes[j])
  <2>4. flow.profile = i /\ Mask(flow) = net /\ Covers(net, address)
    BY <1>0, <2>1, <2>3, ListedIsRoute DEF n
  <2>5. net \in Nets(i)
    BY <1>2 DEF Networks
  <2> HIDE DEF net
  <2> QED BY <1>5, <2>4, <2>5
<1> QED BY <1>3, <1>4, <1>5 DEF matches

\* Where no two matches share the longest prefix, the best is the longest.
LongestAt(flows) ==
  {i \in DOMAIN flows : \A j \in DOMAIN flows : flows[j].prefix <= flows[i].prefix}

\* Without a conflict a longest match is the best.
LEMMA OneLongest ==
  ASSUME NEW flows \in Seq(Flow), ~(Cardinality(LongestAt(flows)) > 1),
         NEW flow \in ToSet(flows), \A other \in ToSet(flows) : other.prefix <= flow.prefix
  PROVE  flow = Best(flows)
<1> DEFINE L == LongestAt(flows)
           best == Best(flows)
<1>1. best \in ToSet(flows) /\ \A other \in ToSet(flows) : other.prefix <= best.prefix
  BY BestIs DEF IsBest
<1>2. PICK i \in DOMAIN flows : flows[i] = flow
  BY DEF ToSet
<1>3. PICK k \in DOMAIN flows : flows[k] = best
  BY <1>1 DEF ToSet
<1>4. \A j \in DOMAIN flows : flows[j] \in ToSet(flows)
  BY DEF ToSet
<1> HIDE DEF best
<1>5. i \in L /\ k \in L
  BY <1>1, <1>2, <1>3, <1>4 DEF LongestAt
<1>6. IsFiniteSet(L)
  <2>1. DOMAIN flows = 1..Len(flows) /\ Len(flows) \in Nat
    OBVIOUS
  <2>2. L \in SUBSET (1..Len(flows))
    BY <2>1 DEF LongestAt
  <2> HIDE DEF L
  <2>3. IsFiniteSet(1..Len(flows))
    BY <2>1, FS_Interval
  <2> QED BY <2>2, <2>3, FS_Subset
<1>7. i = k
  <2> SUFFICES ASSUME i # k PROVE FALSE
    OBVIOUS
  <2> HIDE DEF L
  <2>1. /\ IsFiniteSet(L \ {i}) /\ Cardinality(L \ {i}) = Cardinality(L) - 1
        /\ Cardinality(L) \in Nat
    BY <1>5, <1>6, FS_RemoveElement, FS_CardinalityType
  <2>2. L \ {i} # {}
    BY <1>5
  <2>3. Cardinality(L \ {i}) \in Nat
    BY <2>1, FS_CardinalityType
  <2>4. Cardinality(L \ {i}) # 0
    BY <2>1, <2>2, FS_EmptySet
  <2> QED BY <2>1, <2>3, <2>4 DEF L
<1> QED BY <1>2, <1>3, <1>7 DEF best

\* A connection is shown under the profile of the longest route it is sent to.
ShownUnder(file, address) == Best(Matches(address, AllFlows(file))).profile

\* Where no conflict is reported, what is shown is where the kernel sends.
LEMMA ShownWhereSent ==
  ASSUME NEW file \in Seq(Config), Sound(file), NEW address \in Address,
         \A i \in 1..Len(file) : address \notin ToSet(file[i].servers),
         ~(Cardinality(LongestAt(Matches(address, AllFlows(file)))) > 1)
  PROVE  LET hits == HitsOf(file, address)
             longest == {hit \in hits : \A other \in hits : other[2].prefix <= hit[2].prefix}
         IN  {hit[1] : hit \in longest} =
               IF ShownUnder(file, address) = 0 THEN {} ELSE {ShownUnder(file, address)}
<1> DEFINE flows == Matches(address, AllFlows(file))
           matches == ToSet(flows)
           best == Best(flows)
           hits == HitsOf(file, address)
           longest == {hit \in hits : \A other \in hits : other[2].prefix <= hit[2].prefix}
           Hit(flow) == <<flow.profile, Mask(flow)>>
<1>1. /\ Routed(file) /\ flows \in Seq(Flow) /\ AllFlows(file) \in Seq(Flow)
      /\ matches = {flow \in ToSet(AllFlows(file)) : Covers(flow, address)}
  BY SoundIsRouted, AllFlowsAre, MatchesAre
<1>2. \A hit : hit \in hits <=> \E flow \in matches : hit = Hit(flow)
  BY HitsAre
<1>3. \A flow : Hit(flow)[1] = flow.profile /\ Hit(flow)[2].prefix = flow.prefix
  BY DEF Mask
<1>4. IsBest(best, matches)
  BY <1>1, BestIs
<1>5. \A flow \in matches : (\A other \in matches : other.prefix <= flow.prefix) => flow = best
  BY <1>1, OneLongest
<1>6. \A flow \in matches : flow.profile # 0
  <2> SUFFICES ASSUME NEW flow \in matches PROVE flow.profile # 0
    OBVIOUS
  <2>1. flow \in ToSet(AllFlows(file))
    BY <1>1
  <2>2. PICK i \in 1..Len(file) : flow \in ToSet(FlowsOf(file, i))
    BY <1>1, <2>1, AllFlowsAre
  <2>3. flow.profile = i
    BY <1>1, <2>2, FlowsOfType
  <2> QED BY <2>3
<1> HIDE DEF flows, matches, best, hits, Hit
<1>7. \A hit : hit \in longest <=>
        \E flow \in matches : hit = Hit(flow) /\ \A other \in matches : other.prefix <= flow.prefix
  BY <1>2, <1>3
<1> HIDE DEF longest
<1>8. CASE matches = {}
  <2>1. longest = {} /\ best.profile = 0
    BY <1>4, <1>7, <1>8 DEF IsBest, NoBest
  <2>2. {hit[1] : hit \in longest} = IF best.profile = 0 THEN {} ELSE {best.profile}
    BY <2>1
  <2> QED BY <2>2 DEF longest, hits, best, flows, ShownUnder
<1>9. CASE matches # {}
  <2>1. best \in matches /\ \A flow \in matches : flow.prefix <= best.prefix
    BY <1>4, <1>9 DEF IsBest
  <2>2. \A hit : hit \in longest <=> hit = Hit(best)
    BY <1>5, <1>7, <2>1
  <2>3. longest = {Hit(best)} /\ Hit(best)[1] = best.profile /\ best.profile # 0
    BY <1>3, <1>6, <2>1, <2>2
  <2>4. {hit[1] : hit \in longest} = IF best.profile = 0 THEN {} ELSE {best.profile}
    BY <2>3
  <2> QED BY <2>4 DEF longest, hits, best, flows, ShownUnder
<1> QED BY <1>8, <1>9

\* Where no conflict is reported, a connection is shown under the profile whose
\* tunnel the kernel sends it to.
THEOREM FlowsFollow == Spec => []FlowsFollowRoutes
<1>1. Answered => FlowsFollowRoutes
  <2> SUFFICES ASSUME Answered, \A i \in DOMAIN configs : SoundRoutes(configs[i]),
                      NEW address \in Address, ~Conflict(address),
                      address \notin UNION {ToSet(configs[i].servers) : i \in DOMAIN configs}
               PROVE  LET hits == {hit \in UNION {{i} \X Installed(i) : i \in DOMAIN configs} :
                                     Covers(hit[2], address)}
                          longest == {hit \in hits : \A other \in hits : other[2].prefix <= hit[2].prefix}
                      IN  {hit[1] : hit \in longest} =
                            IF FlowProfile(address) = 0 THEN {} ELSE {FlowProfile(address)}
    BY DEF FlowsFollowRoutes
  <2>1. configs \in Seq(Config)
    BY FilesAssumption DEF Answered
  <2>2. DOMAIN configs = 1..Len(configs)
    BY <2>1
  <2>3. Sound(configs)
    BY <2>2 DEF Sound
  <2>4. \A i \in 1..Len(configs) : address \notin ToSet(configs[i].servers)
    BY <2>2
  <2>5. Listed(FlowRoutes) = AllFlows(configs) /\ Listed(CheckedRoutes) = AllFlows(configs)
    <3>1. \A i \in 1..Len(configs) : ParsesRoutes(configs[i].routes)
      BY <2>3 DEF Sound, SoundRoutes, ParsesRoutes
    <3>2. FlowRoutes = RoutesIn(configs) /\ CheckedRoutes = RoutesIn(configs)
      BY <2>2, <3>1 DEF FlowRoutes, CheckedRoutes, RoutesIn
    <3>3. Listed(RoutesIn(configs)) = AllFlows(configs)
      BY <2>2 DEF Listed, AllFlows, FlowsOf, RoutesOf, Upto, None
    <3> QED BY <3>2, <3>3
  <2>6. /\ Hits(Listed(FlowRoutes), address) = Matches(address, AllFlows(configs))
        /\ Hits(Listed(CheckedRoutes), address) = Matches(address, AllFlows(configs))
    BY <2>5 DEF Hits, Matches, None
  <2>7. FlowProfile(address) = ShownUnder(configs, address)
    BY <2>6 DEF FlowProfile, ShownUnder, Best, NoBest
  <2>8. ~(Cardinality(LongestAt(Matches(address, AllFlows(configs)))) > 1)
    BY <2>6 DEF Conflict, LongestAt
  <2>9. HitsOf(configs, address) =
          {hit \in UNION {{i} \X Installed(i) : i \in DOMAIN configs} : Covers(hit[2], address)}
    BY DEF HitsOf, Installed
  <2> QED BY <2>1, <2>3, <2>4, <2>7, <2>8, <2>9, ShownWhereSent
<1> QED BY <1>1, AnswersHold, PTL

=============================================================================
