--------------------------- MODULE TunConfigProofs ---------------------------
(***************************************************************************)
(* Proofs about TunConfig, for any replies, local networks and bounds.     *)
(*                                                                         *)
(* The fields hold what the commands sent so far have asked for: exactly   *)
(* that if nothing was left in them (Collected), at least that in any case *)
(* (Covers).  openTun and NOACTION pass it on to the interface.            *)
(***************************************************************************)
EXTENDS TunConfig, WellFoundedInduction, TLAPS

\* The fields are what the first k commands of r ask for.
FieldsAre(r, k) ==
    /\ mLocalIP \in OrNone({c.ip : c \in First(r, k, "IFCONFIG")})
    /\ mLocalIPv6 \in OrNone({c.ip : c \in First(r, k, "IFCONFIG6")})
    /\ mDomain \in OrNone({c.domain : c \in First(r, k, "DNSDOMAIN")})
    /\ Lists(mDnslist, r, k)
    /\ mRoutes = IF At(r, k, "IFCONFIG") = {} THEN {} ELSE PushedRoutes(r, k)
    /\ \A i \in At(r, k, "IFCONFIG") : mMtu = r[i].mtu /\ mRemoteGW = r[i].gateway

\* The fields have at least what they ask for.
FieldsCover(r, k) ==
    /\ \A i \in At(r, k, "IFCONFIG") : mLocalIP = r[i].ip
    /\ \A i \in At(r, k, "IFCONFIG6") : mLocalIPv6 = r[i].ip
    /\ \A i \in At(r, k, "DNSSERVER") : r[i].server \in Range(mDnslist)
    /\ At(r, k, "IFCONFIG") # {} =>
          \A i \in Naming(r, k) : \E x \in mRoutes : x.net = r[i].net

Collecting == phase \in {"pushing", "opening"}

Collected ==
    ~left =>
        IF Collecting THEN FieldsAre(reply, sent)
        ELSE mLocalIP = None /\ mLocalIPv6 = None /\ mDomain = None /\ mDnslist = <<>> /\ mRoutes = {}

Covers == Collecting => FieldsCover(reply, sent)

\* The string openTun kept is that of the interface.
StringIsTuns ==
    tun # None =>
        mLastTunCfg = <<tun.config.ip, tun.config.ip6, tun.config.routes, tun.config.dns,
                        tun.config.domain, tun.config.mtu>>

\* The settings of a clean interface are those of its reply, its MTU included.
CleanTun ==
    tun # None /\ tun.clean =>
        /\ TunMatchesReply
        /\ At(tun.reply, Len(tun.reply), "IFCONFIG") # {}
        /\ \A i \in At(tun.reply, Len(tun.reply), "IFCONFIG") : tun.config.mtu = tun.reply[i].mtu

\* What is compared can be compared: it is a list of servers.
TunListsServers == tun # None => tun.config.dns \in Seq({c.server : c \in Arguments("DNSSERVER")})

TunInv ==
    TypeOK /\ Collected /\ Covers /\ StringIsTuns /\ CleanTun /\ TunListsServers /\ UpHasReply

-----------------------------------------------------------------------------
(* The first commands of a reply. *)

\* A set of naturals that has an element has a least one.
LEMMA LeastNatural ==
    ASSUME NEW T \in SUBSET Nat, T # {}
    PROVE  \E m \in T : \A k \in T : m <= k
<1>1. IsWellFoundedOn(OpToRel(<, Nat), Nat)
  BY NatLessThanWellFounded
<1>2. PICK m \in T : \A k \in T : <<k, m>> \notin OpToRel(<, Nat)
  BY <1>1, WFMin
<1>3. ASSUME NEW k \in T PROVE m <= k
  <2>1. k \in Nat /\ m \in Nat /\ ~(k < m)
    BY <1>2 DEF OpToRel
  <2> QED
    BY <2>1
<1> QED
  BY <1>3

\* A reply is a sequence of commands.
LEMMA ReplyIsSequence ==
    ASSUME NEW r \in Replies
    PROVE  r \in Seq(Commands) /\ Len(r) \in Nat /\ DOMAIN r = 1..Len(r)
BY RepliesAssumption

\* A command is an argument of its kind.
LEMMA CommandIsArgument ==
    ASSUME NEW r \in Replies, NEW i \in 1..Len(r)
    PROVE  r[i] \in Commands /\ r[i] \in Arguments(r[i].cmd)
BY ReplyIsSequence DEF Arguments

\* A command adds its position to those of its kind.
LEMMA AtNext ==
    ASSUME NEW r \in Replies, NEW k \in Nat, k < Len(r), NEW cmd
    PROVE  /\ r[k + 1].cmd = cmd => At(r, k + 1, cmd) = At(r, k, cmd) \cup {k + 1}
           /\ r[k + 1].cmd # cmd => At(r, k + 1, cmd) = At(r, k, cmd)
<1>1. 1..(k + 1) = 1..k \cup {k + 1}
  OBVIOUS
<1> QED
  BY <1>1 DEF At

\* Before anything is sent there is none.
LEMMA AtNone ==
    ASSUME NEW r, NEW cmd
    PROVE  At(r, 0, cmd) = {}
BY DEF At

\* A reply has one address of a kind.
LEMMA OneAddress ==
    ASSUME NEW r \in Replies, NEW k \in Nat, k <= Len(r),
           NEW cmd \in {"IFCONFIG", "IFCONFIG6"},
           NEW i \in At(r, k, cmd), NEW j \in At(r, k, cmd)
    PROVE  i = j
BY ReplyIsSequence, RepliesAssumption DEF At

\* There is a first one if there is any, and it is one.
LEMMA FirstIs ==
    ASSUME NEW r, NEW k \in Nat, NEW cmd
    PROVE  /\ At(r, k, cmd) # {} => First(r, k, cmd) # {}
           /\ At(r, k, cmd) = {} => First(r, k, cmd) = {}
           /\ \A c \in First(r, k, cmd) : \E i \in At(r, k, cmd) : c = r[i]
           /\ \A c, d \in First(r, k, cmd) : c = d
<1> DEFINE T == At(r, k, cmd)
<1>1. T \in SUBSET Nat
  BY DEF At
<1>2. T # {} => First(r, k, cmd) # {}
  BY <1>1, LeastNatural DEF First
<1>3. \A c, d \in First(r, k, cmd) : c = d
  BY <1>1 DEF First
<1> QED
  BY <1>2, <1>3 DEF First

\* The first command of a kind is the first one, later ones are not.
LEMMA FirstNext ==
    ASSUME NEW r \in Replies, NEW k \in Nat, k < Len(r), NEW cmd
    PROVE  /\ r[k + 1].cmd # cmd => First(r, k + 1, cmd) = First(r, k, cmd)
           /\ r[k + 1].cmd = cmd /\ At(r, k, cmd) = {} => First(r, k + 1, cmd) = {r[k + 1]}
           /\ At(r, k, cmd) # {} => First(r, k + 1, cmd) = First(r, k, cmd)
<1> DEFINE T == At(r, k, cmd)
           U == At(r, k + 1, cmd)
<1>1. T \in SUBSET (1..k)
  BY DEF At
<1>2. CASE r[k + 1].cmd # cmd
  BY <1>2, AtNext DEF First
<1>3. CASE r[k + 1].cmd = cmd
  <2>1. U = T \cup {k + 1}
    BY <1>3, AtNext
  <2>2. CASE T = {}
    BY <2>1, <2>2, <1>3 DEF First
  <2>3. CASE T # {}
    <3>1. {i \in U : \A j \in U : i <= j} = {i \in T : \A j \in T : i <= j}
      BY <2>1, <2>3, <1>1
    <3> QED
      BY <3>1, <2>3 DEF First
  <2> QED
    BY <2>2, <2>3, <1>3
<1> QED
  BY <1>2, <1>3

-----------------------------------------------------------------------------
(* The pushed DNS servers. *)

\* The positions T in increasing order.
Enumerates(at, n, T) ==
    /\ at \in [1..n -> T]
    /\ \A i, j \in 1..n : i < j => at[i] < at[j]
    /\ \A p \in T : \E i \in 1..n : at[i] = p

\* A list is an enumeration of the servers' positions.
LEMMA ListsIs ==
    ASSUME NEW r, NEW k \in Nat, NEW S, NEW servers \in Seq(S)
    PROVE  Lists(servers, r, k) <=>
             \E at : /\ Enumerates(at, Len(servers), At(r, k, "DNSSERVER"))
                     /\ \A i \in 1..Len(servers) : servers[i] = r[at[i]].server
<1>1. DOMAIN servers = 1..Len(servers)
  OBVIOUS
<1> QED
  BY <1>1 DEF Lists, Enumerates

\* None are listed by the empty list.
LEMMA ListsNone ==
    ASSUME NEW r
    PROVE  Lists(<<>>, r, 0)
<1>1. [i \in 1..0 |-> 0] \in [1..0 -> At(r, 0, "DNSSERVER")]
  OBVIOUS
<1>2. At(r, 0, "DNSSERVER") = {}
  BY AtNone
<1>3. Enumerates([i \in 1..0 |-> 0], 0, At(r, 0, "DNSSERVER"))
  BY <1>1, <1>2 DEF Enumerates
<1> DEFINE e == <<>>
<1>4. e \in Seq({}) /\ Len(e) = 0 /\ 0 \in Nat
  OBVIOUS
<1> HIDE DEF e
<1>5. \A i \in 1..Len(e) : e[i] = r[[j \in 1..0 |-> 0][i]].server
  BY <1>4
<1>6. Enumerates([i \in 1..0 |-> 0], Len(e), At(r, 0, "DNSSERVER"))
  BY <1>3, <1>4
<1>7. Lists(e, r, 0)
  BY <1>4, <1>5, <1>6, ListsIs
<1> QED
  BY <1>7 DEF e

\* A later position is enumerated last.
LEMMA EnumerationNext ==
    ASSUME NEW k \in Nat, NEW T \in SUBSET (1..k), NEW n \in Nat, NEW at, Enumerates(at, n, T)
    PROVE  Enumerates([i \in 1..(n + 1) |-> IF i = n + 1 THEN k + 1 ELSE at[i]],
                      n + 1, T \cup {k + 1})
<1> DEFINE now == [i \in 1..(n + 1) |-> IF i = n + 1 THEN k + 1 ELSE at[i]]
<1>a. \A i \in 1..n : i \in 1..(n + 1) /\ i # n + 1 /\ at[i] \in T
  BY DEF Enumerates
<1>b. n + 1 \in 1..(n + 1) /\ \A i \in 1..(n + 1) : i = n + 1 \/ i \in 1..n
  OBVIOUS
<1>1. /\ \A i \in 1..n : i \in 1..(n + 1) /\ now[i] = at[i] /\ at[i] \in T /\ now[i] \in 1..k
      /\ now[n + 1] = k + 1 /\ n + 1 \in 1..(n + 1)
      /\ \A i \in 1..(n + 1) : i = n + 1 \/ i \in 1..n
  BY <1>a, <1>b
<1>2. now \in [1..(n + 1) -> T \cup {k + 1}]
  BY <1>1
<1> HIDE DEF now
<1>3. \A i, j \in 1..(n + 1) : i < j => now[i] < now[j]
  <2> SUFFICES ASSUME NEW i \in 1..(n + 1), NEW j \in 1..(n + 1), i < j
               PROVE  now[i] < now[j]
    OBVIOUS
  <2>1. i \in 1..n
    OBVIOUS
  <2>2. CASE j = n + 1
    BY <2>1, <2>2, <1>1
  <2>3. CASE j \in 1..n
    BY <2>1, <2>3, <1>1 DEF Enumerates
  <2> QED
    BY <2>2, <2>3, <1>1
<1>4. ASSUME NEW p \in T \cup {k + 1} PROVE \E i \in 1..(n + 1) : now[i] = p
  <2>1. CASE p = k + 1
    BY <2>1, <1>1
  <2>2. CASE p \in T
    <3>1. PICK i \in 1..n : at[i] = p
      BY <2>2 DEF Enumerates
    <3> QED
      BY <3>1, <1>1
  <2> QED
    BY <2>1, <2>2
<1>5. Enumerates(now, n + 1, T \cup {k + 1})
  BY <1>2, <1>3, <1>4 DEF Enumerates
<1> QED
  BY <1>5 DEF now

\* The next server is appended.
LEMMA ListsNext ==
    ASSUME NEW r \in Replies, NEW k \in Nat, k < Len(r), NEW S,
           NEW servers \in Seq(S), Lists(servers, r, k), r[k + 1].server \in S
    PROVE  /\ r[k + 1].cmd # "DNSSERVER" => Lists(servers, r, k + 1)
           /\ r[k + 1].cmd = "DNSSERVER" => Lists(Append(servers, r[k + 1].server), r, k + 1)
<1>1. CASE r[k + 1].cmd # "DNSSERVER"
  BY <1>1, AtNext DEF Lists
<1>2. CASE r[k + 1].cmd = "DNSSERVER"
  <2> DEFINE n == Len(servers)
             T == At(r, k, "DNSSERVER")
             longer == Append(servers, r[k + 1].server)
  <2>1. PICK at : /\ Enumerates(at, n, T)
                  /\ \A i \in 1..n : servers[i] = r[at[i]].server
    BY ListsIs
  <2>2. At(r, k + 1, "DNSSERVER") = T \cup {k + 1} /\ T \in SUBSET (1..k)
    BY <1>2, AtNext DEF At
  <2>3. /\ longer \in Seq(S) /\ Len(longer) = n + 1 /\ n \in Nat
        /\ \A i \in 1..n : longer[i] = servers[i]
        /\ longer[n + 1] = r[k + 1].server
    OBVIOUS
  <2> DEFINE now == [i \in 1..(n + 1) |-> IF i = n + 1 THEN k + 1 ELSE at[i]]
  <2> HIDE DEF n, longer, T
  <2>4. Enumerates(now, n + 1, T \cup {k + 1})
    BY <2>1, <2>2, <2>3, EnumerationNext
  <2>5. ASSUME NEW i \in 1..(n + 1) PROVE longer[i] = r[now[i]].server
    <3>1. CASE i = n + 1
      BY <3>1, <2>3
    <3>2. CASE i # n + 1
      <4>1. i \in 1..n /\ now[i] = at[i]
        BY <3>2, <2>3
      <4> QED
        BY <4>1, <2>1, <2>3
    <3> QED
      BY <3>1, <3>2
  <2> HIDE DEF now
  <2>6. Lists(longer, r, k + 1)
    <3>1. /\ Enumerates(now, Len(longer), At(r, k + 1, "DNSSERVER"))
          /\ \A i \in 1..Len(longer) : longer[i] = r[now[i]].server
      BY <2>2, <2>3, <2>4, <2>5
    <3>2. k + 1 \in Nat
      OBVIOUS
    <3> QED
      BY <3>1, <3>2, <2>3, ListsIs
  <2> QED
    BY <1>2, <2>6 DEF longer
<1> QED
  BY <1>1, <1>2

\* Two enumerations of a set agree as far as the first goes, and the second
\* goes as far.
LEMMA EnumerationsAgree ==
    ASSUME NEW T \in SUBSET Nat, NEW m \in Nat, NEW n \in Nat, NEW at, NEW bt,
           Enumerates(at, m, T), Enumerates(bt, n, T)
    PROVE  m <= n /\ \A i \in 1..m : at[i] = bt[i]
<1> DEFINE D == {i \in 1..m : ~(i <= n /\ at[i] = bt[i])}
<1>1. D \in SUBSET Nat
  OBVIOUS
<1>2. ASSUME D # {} PROVE FALSE
  <2>1. PICK i \in D : \A j \in D : i <= j
    <3> HIDE DEF D
    <3> QED
      BY <1>1, <1>2, LeastNatural
  <2>2. i \in 1..m /\ \A j \in 1..m : j < i => j <= n /\ at[j] = bt[j]
    BY <2>1
  <2>3. PICK j \in 1..n : bt[j] = at[i]
    BY <2>2 DEF Enumerates
  <2>4. ~(j < i)
    <3> SUFFICES ASSUME j < i PROVE FALSE
      OBVIOUS
    <3>1. j \in 1..m /\ at[j] = at[i] /\ at[j] < at[i]
      BY <2>2, <2>3 DEF Enumerates
    <3>2. at[i] \in Nat
      BY <2>2 DEF Enumerates
    <3> QED
      BY <3>1, <3>2
  <2>5. i \in 1..n /\ bt[i] # at[i] /\ i < j
    BY <2>1, <2>2, <2>3, <2>4
  <2>6. bt[i] < at[i] /\ bt[i] \in T
    BY <2>3, <2>5 DEF Enumerates
  <2>7. PICK h \in 1..m : at[h] = bt[i]
    BY <2>6 DEF Enumerates
  <2>8. h < i
    <3> SUFFICES ASSUME ~(h < i) PROVE FALSE
      OBVIOUS
    <3>1. h = i \/ i < h
      BY <2>2
    <3>2. at[h] = at[i] \/ at[i] < at[h]
      BY <3>1, <2>2 DEF Enumerates
    <3>3. at[i] \in Nat /\ at[h] \in Nat
      BY <2>2 DEF Enumerates
    <3> QED
      BY <3>2, <3>3, <2>6, <2>7
  <2>9. h \in 1..n /\ bt[h] = bt[i] /\ bt[h] < bt[i]
    BY <2>2, <2>5, <2>7, <2>8 DEF Enumerates
  <2>10. bt[i] \in Nat
    BY <2>5 DEF Enumerates
  <2> QED
    BY <2>9, <2>10
<1>3. \A i \in 1..m : i <= n /\ at[i] = bt[i]
  BY <1>2
<1>4. m <= n
  BY <1>3
<1> QED
  BY <1>3, <1>4

\* What is listed is listed by one list.
LEMMA ListsOnce ==
    ASSUME NEW r, NEW k \in Nat, NEW S, NEW s \in Seq(S), NEW t \in Seq(S),
           Lists(s, r, k), Lists(t, r, k)
    PROVE  s = t
<1>1. Len(s) \in Nat /\ Len(t) \in Nat /\ At(r, k, "DNSSERVER") \in SUBSET Nat
  BY DEF At
<1>2. PICK at : /\ Enumerates(at, Len(s), At(r, k, "DNSSERVER"))
                /\ \A i \in 1..Len(s) : s[i] = r[at[i]].server
  BY ListsIs
<1>3. PICK bt : /\ Enumerates(bt, Len(t), At(r, k, "DNSSERVER"))
                /\ \A i \in 1..Len(t) : t[i] = r[bt[i]].server
  BY ListsIs
<1>4. Len(s) <= Len(t) /\ \A i \in 1..Len(s) : at[i] = bt[i]
  BY <1>1, <1>2, <1>3, EnumerationsAgree
<1>5. Len(t) <= Len(s)
  BY <1>1, <1>2, <1>3, EnumerationsAgree
<1>6. Len(s) = Len(t)
  BY <1>1, <1>4, <1>5
<1>7. \A i \in 1..Len(s) : s[i] = t[i]
  BY <1>2, <1>3, <1>4, <1>6
<1> QED
  BY <1>6, <1>7
-----------------------------------------------------------------------------
(* The pushed routes. *)

\* A network that is named is named first by some command.
LEMMA NamedFirst ==
    ASSUME NEW r, NEW k \in Nat, NEW i \in Naming(r, k)
    PROVE  \E f \in Naming(r, k) :
             /\ r[f].net = r[i].net
             /\ \A j \in Naming(r, k) : r[j].net = r[f].net => f <= j
<1> DEFINE T == {j \in Naming(r, k) : r[j].net = r[i].net}
<1>1. T \in SUBSET Nat /\ T # {}
  BY DEF Naming, At
<1>2. PICK f \in T : \A j \in T : f <= j
  <2> HIDE DEF T
  <2> QED
    BY <1>1, LeastNatural
<1> QED
  BY <1>2

\* Where the i-th command of r sends its network, by the first k.
Pushed(r, k, i) ==
    [net |-> r[i].net,
     included |-> r[i].gateway \in {"tun"} \cup {r[j].gateway : j \in At(r, k, "IFCONFIG")}]
FirstNaming(r, k) == {i \in Naming(r, k) : \A j \in Naming(r, k) : r[j].net = r[i].net => i <= j}

LEMMA PushedIs ==
    ASSUME NEW r, NEW k
    PROVE  PushedRoutes(r, k) = {Pushed(r, k, i) : i \in FirstNaming(r, k)}
BY DEF PushedRoutes, Pushed, FirstNaming

\* What is added is in, and nothing leaves.
LEMMA AddHas ==
    ASSUME NEW routes, NEW net, NEW included
    PROVE  routes \subseteq Add(routes, net, included) /\ \E x \in Add(routes, net, included) : x.net = net
<1>1. CASE \E x \in routes : x.net = net
  BY <1>1 DEF Add
<1>2. CASE ~ \E x \in routes : x.net = net
  <2> DEFINE y == [net |-> net, included |-> included]
  <2>1. Add(routes, net, included) = routes \cup {y}
    BY <1>2 DEF Add
  <2>2. y.net = net
    OBVIOUS
  <2> QED
    BY <2>1, <2>2
<1> QED
  BY <1>1, <1>2

\* The pushed networks are those that are named.
LEMMA PushedNets ==
    ASSUME NEW r, NEW k \in Nat, NEW net
    PROVE  (\E x \in PushedRoutes(r, k) : x.net = net) <=> (\E i \in Naming(r, k) : r[i].net = net)
<1>1. ASSUME NEW x \in PushedRoutes(r, k), x.net = net
      PROVE  \E i \in Naming(r, k) : r[i].net = net
  BY <1>1, PushedIs DEF Pushed, FirstNaming
<1>2. ASSUME NEW i \in Naming(r, k), r[i].net = net
      PROVE  \E x \in PushedRoutes(r, k) : x.net = net
  <2>1. PICK f \in FirstNaming(r, k) : r[f].net = net
    BY <1>2, NamedFirst DEF FirstNaming
  <2>2. Pushed(r, k, f).net = net
    BY <2>1 DEF Pushed
  <2> QED
    BY <2>1, <2>2, PushedIs
<1> QED
  BY <1>1, <1>2

\* A command of another kind pushes no network.
LEMMA PushedSame ==
    ASSUME NEW r \in Replies, NEW k \in Nat, k < Len(r),
           r[k + 1].cmd \notin {"IFCONFIG", "ROUTE"}
    PROVE  /\ PushedRoutes(r, k + 1) = PushedRoutes(r, k)
           /\ Naming(r, k + 1) = Naming(r, k)
<1>1. At(r, k + 1, "IFCONFIG") = At(r, k, "IFCONFIG") /\ At(r, k + 1, "ROUTE") = At(r, k, "ROUTE")
  BY AtNext
<1>2. Naming(r, k + 1) = Naming(r, k)
  BY <1>1 DEF Naming
<1> QED
  BY <1>1, <1>2 DEF PushedRoutes

\* The local address is the first command that may push a network.
LEMMA PushedByAddress ==
    ASSUME NEW r \in Replies, NEW k \in Nat, k < Len(r), r[k + 1].cmd = "IFCONFIG"
    PROVE  /\ At(r, k, "IFCONFIG") = {} /\ At(r, k + 1, "IFCONFIG") = {k + 1}
           /\ Naming(r, k + 1) = IF r[k + 1].net = None THEN {} ELSE {k + 1}
           /\ PushedRoutes(r, k + 1) =
                IF r[k + 1].net = None THEN {} ELSE {[net |-> r[k + 1].net, included |-> TRUE]}
<1>1. DOMAIN r = 1..Len(r) /\ Len(r) \in Nat
  BY ReplyIsSequence
<1>2. \A i \in 1..k : i \in DOMAIN r /\ k + 1 \in DOMAIN r /\ i # k + 1 /\ ~(k + 1 < i)
  BY <1>1
<1>3. At(r, k, "IFCONFIG") = {} /\ At(r, k, "ROUTE") = {}
  <2>1. ASSUME NEW i \in 1..k PROVE r[i].cmd # "IFCONFIG" /\ r[i].cmd # "ROUTE"
    <3>1. /\ r[i].cmd = r[k + 1].cmd /\ r[i].cmd \in {"IFCONFIG", "IFCONFIG6"} => i = k + 1
          /\ r[i].cmd = "ROUTE" /\ r[k + 1].cmd = "IFCONFIG" => k + 1 < i
      BY <1>2, RepliesAssumption
    <3> QED
      BY <1>2, <3>1
  <2> QED
    BY <2>1 DEF At
<1>4. At(r, k + 1, "IFCONFIG") = {k + 1} /\ At(r, k + 1, "ROUTE") = {}
  <2>1. At(r, k + 1, "IFCONFIG") = At(r, k, "IFCONFIG") \cup {k + 1}
    BY AtNext
  <2>2. At(r, k + 1, "ROUTE") = At(r, k, "ROUTE")
    BY AtNext
  <2> QED
    BY <1>3, <2>1, <2>2
<1>5. Naming(r, k + 1) = IF r[k + 1].net = None THEN {} ELSE {k + 1}
  BY <1>4 DEF Naming
<1>6. CASE r[k + 1].net = None
  BY <1>3, <1>4, <1>5, <1>6, PushedIs DEF FirstNaming
<1>7. CASE r[k + 1].net # None
  <2>1. FirstNaming(r, k + 1) = {k + 1}
    BY <1>5, <1>7 DEF FirstNaming
  <2>2. Pushed(r, k + 1, k + 1) = [net |-> r[k + 1].net, included |-> TRUE]
    BY <1>4 DEF Pushed
  <2> QED
    BY <1>3, <1>4, <1>5, <1>7, <2>1, <2>2, PushedIs
<1> QED
  BY <1>6, <1>7

\* A route after the local address is added unless its network is in.
LEMMA PushedByRoute ==
    ASSUME NEW r \in Replies, NEW k \in Nat, k < Len(r), r[k + 1].cmd = "ROUTE",
           NEW a \in At(r, k, "IFCONFIG")
    PROVE  /\ At(r, k + 1, "IFCONFIG") = At(r, k, "IFCONFIG")
           /\ Naming(r, k + 1) = Naming(r, k) \cup {k + 1}
           /\ PushedRoutes(r, k + 1) =
                Add(PushedRoutes(r, k), r[k + 1].net, r[k + 1].gateway \in {"tun", r[a].gateway})
<1>1. At(r, k + 1, "IFCONFIG") = At(r, k, "IFCONFIG")
  BY AtNext
<1>2. Naming(r, k + 1) = Naming(r, k) \cup {k + 1}
  BY <1>1, AtNext DEF Naming
<1>3. Naming(r, k) \subseteq 1..k
  BY DEF Naming, At
<1>4. \A i \in 1..(k + 1) : Pushed(r, k + 1, i) = Pushed(r, k, i)
  BY <1>1 DEF Pushed
<1>5. Pushed(r, k + 1, k + 1) =
        [net |-> r[k + 1].net, included |-> r[k + 1].gateway \in {"tun", r[a].gateway}]
  <2>1. {r[j].gateway : j \in At(r, k, "IFCONFIG")} = {r[a].gateway}
    <3>1. k <= Len(r)
      BY ReplyIsSequence
    <3>2. \A j \in At(r, k, "IFCONFIG") : j = a
      BY <3>1, OneAddress
    <3> QED
      BY <3>2
  <2>2. {"tun"} \cup {r[a].gateway} = {"tun", r[a].gateway}
    OBVIOUS
  <2>3. {"tun"} \cup {r[j].gateway : j \in At(r, k + 1, "IFCONFIG")} = {"tun", r[a].gateway}
    BY <1>1, <2>1, <2>2
  <2> QED
    BY <2>3, Zenon DEF Pushed
<1>8. \A i \in FirstNaming(r, k) : Pushed(r, k + 1, i) = Pushed(r, k, i)
  BY <1>3, <1>4 DEF FirstNaming
<1>9. /\ PushedRoutes(r, k) = {Pushed(r, k, i) : i \in FirstNaming(r, k)}
      /\ PushedRoutes(r, k + 1) = {Pushed(r, k + 1, i) : i \in FirstNaming(r, k + 1)}
  BY PushedIs
<1>6. CASE \E i \in Naming(r, k) : r[i].net = r[k + 1].net
  <2>1. FirstNaming(r, k + 1) = FirstNaming(r, k)
    BY <1>2, <1>3, <1>6 DEF FirstNaming
  <2>2. PushedRoutes(r, k + 1) = PushedRoutes(r, k)
    BY <1>8, <1>9, <2>1
  <2>3. \E x \in PushedRoutes(r, k) : x.net = r[k + 1].net
    BY <1>6, PushedNets
  <2> QED
    BY <1>1, <1>2, <2>2, <2>3 DEF Add
<1>7. CASE ~ \E i \in Naming(r, k) : r[i].net = r[k + 1].net
  <2>1. FirstNaming(r, k + 1) = FirstNaming(r, k) \cup {k + 1}
    BY <1>2, <1>3, <1>7 DEF FirstNaming
  <2>2. PushedRoutes(r, k + 1) = PushedRoutes(r, k) \cup {Pushed(r, k + 1, k + 1)}
    BY <1>8, <1>9, <2>1
  <2>3. ~ \E x \in PushedRoutes(r, k) : x.net = r[k + 1].net
    BY <1>7, PushedNets
  <2> QED
    BY <1>1, <1>2, <1>5, <2>2, <2>3 DEF Add
<1> QED
  BY <1>6, <1>7
-----------------------------------------------------------------------------
(* The commands collect what the reply asks for. *)

\* A command that is handled is the next one of the reply.
LEMMA NeedIs ==
    ASSUME TypeOK, NEW cmd, Need(cmd)
    PROVE  /\ reply \in Replies /\ sent \in Nat /\ sent < Len(reply) /\ sent + 1 \in 1..Len(reply)
           /\ reply[sent + 1].cmd = cmd
           /\ arg \in Commands /\ arg \in Arguments(cmd) /\ arg.cmd = cmd
           /\ Collecting /\ Collecting'
           /\ reply' = reply /\ sent' = sent + 1
<1>1. reply \in Replies /\ sent \in 0..Len(reply) /\ sent < Len(reply) /\ reply[sent + 1].cmd = cmd
  BY DEF Need, TypeOK
<1>2. Len(reply) \in Nat
  BY <1>1, ReplyIsSequence
<1>3. sent \in Nat /\ sent + 1 \in 1..Len(reply)
  BY <1>1, <1>2
<1>4. arg \in Commands /\ arg \in Arguments(cmd) /\ arg.cmd = cmd
  BY <1>1, <1>3, CommandIsArgument DEF arg
<1> QED
  BY <1>1, <1>3, <1>4 DEF Need, Collecting

\* Only if no address has been pushed is there none in clean fields.
LEMMA AddressIsPushed ==
    ASSUME TypeOK, NEW r \in Replies, NEW k \in Nat, k <= Len(r), FieldsAre(r, k)
    PROVE  mLocalIP = None <=> At(r, k, "IFCONFIG") = {}
<1>1. \A i \in At(r, k, "IFCONFIG") : i \in 1..Len(r) /\ r[i].cmd = "IFCONFIG"
  BY ReplyIsSequence DEF At
<1>2. \A i \in At(r, k, "IFCONFIG") : r[i] \in Commands /\ r[i].ip # None
  BY <1>1, CommandIsArgument, RepliesAssumption
<1>3. \A c \in First(r, k, "IFCONFIG") : c.ip # None
  BY <1>2, FirstIs
<1> QED
  BY <1>3, FirstIs DEF FieldsAre, OrNone

LEMMA DomainIsPushed ==
    ASSUME TypeOK, NEW r \in Replies, NEW k \in Nat, k <= Len(r), FieldsAre(r, k)
    PROVE  mDomain = None <=> At(r, k, "DNSDOMAIN") = {}
<1>1. \A i \in At(r, k, "DNSDOMAIN") : i \in 1..Len(r) /\ r[i].cmd = "DNSDOMAIN"
  BY ReplyIsSequence DEF At
<1>2. \A i \in At(r, k, "DNSDOMAIN") : r[i] \in Commands /\ r[i].domain # None
  BY <1>1, CommandIsArgument, RepliesAssumption
<1>3. \A c \in First(r, k, "DNSDOMAIN") : c.domain # None
  BY <1>2, FirstIs
<1> QED
  BY <1>3, FirstIs DEF FieldsAre, OrNone

\* setLocalIP.
LEMMA AddressCollected ==
    ASSUME TypeOK, setLocalIP
    PROVE  /\ FieldsCover(reply, sent) => FieldsCover(reply, sent)'
           /\ FieldsAre(reply, sent) => FieldsAre(reply, sent)'
<1> DEFINE r == reply
           k == sent
<1>1. /\ r \in Replies /\ k \in Nat /\ k < Len(r) /\ r[k + 1].cmd = "IFCONFIG"
      /\ reply' = r /\ sent' = k + 1
      /\ mLocalIP' = r[k + 1].ip /\ mMtu' = r[k + 1].mtu /\ mRemoteGW' = r[k + 1].gateway
      /\ mRoutes' = IF r[k + 1].net = None THEN mRoutes ELSE Add(mRoutes, r[k + 1].net, TRUE)
      /\ mLocalIPv6' = mLocalIPv6 /\ mDnslist' = mDnslist /\ mDomain' = mDomain
  BY NeedIs DEF setLocalIP, arg
<1> HIDE DEF r, k
<1>2. /\ At(r, k + 1, "IFCONFIG6") = At(r, k, "IFCONFIG6")
      /\ At(r, k + 1, "DNSSERVER") = At(r, k, "DNSSERVER")
      /\ First(r, k + 1, "IFCONFIG6") = First(r, k, "IFCONFIG6")
      /\ First(r, k + 1, "DNSDOMAIN") = First(r, k, "DNSDOMAIN")
  BY <1>1, AtNext, FirstNext
<1>3. /\ At(r, k, "IFCONFIG") = {} /\ At(r, k + 1, "IFCONFIG") = {k + 1}
      /\ Naming(r, k + 1) = IF r[k + 1].net = None THEN {} ELSE {k + 1}
      /\ PushedRoutes(r, k + 1) =
           IF r[k + 1].net = None THEN {} ELSE {[net |-> r[k + 1].net, included |-> TRUE]}
  BY <1>1, PushedByAddress
<1>4. First(r, k + 1, "IFCONFIG") = {r[k + 1]}
  BY <1>1, <1>3, FirstNext
<1>5. ASSUME FieldsCover(r, k) PROVE FieldsCover(reply, sent)'
  <2>1. r[k + 1].net # None => \E x \in mRoutes' : x.net = r[k + 1].net
    BY <1>1, AddHas
  <2> QED
    BY <1>1, <1>2, <1>3, <1>5, <2>1 DEF FieldsCover
<1>6. ASSUME FieldsAre(r, k) PROVE FieldsAre(reply, sent)'
  <2>1. mRoutes = {}
    BY <1>3, <1>6 DEF FieldsAre
  <2>2. mRoutes' = PushedRoutes(r, k + 1)
    BY <1>1, <1>3, <2>1 DEF Add
  <2>3. mLocalIP' \in OrNone({c.ip : c \in First(r, k + 1, "IFCONFIG")})
    BY <1>1, <1>4 DEF OrNone
  <2>4. Lists(mDnslist, r, k + 1)
    BY <1>2, <1>6 DEF FieldsAre, Lists
  <2>5. At(r, k + 1, "IFCONFIG") # {}
    BY <1>3
  <2> QED
    BY <1>1, <1>2, <1>3, <1>6, <2>2, <2>3, <2>4, <2>5 DEF FieldsAre
<1> QED
  BY <1>5, <1>6 DEF r, k

\* setLocalIPv6.
LEMMA Address6Collected ==
    ASSUME TypeOK, setLocalIPv6
    PROVE  /\ FieldsCover(reply, sent) => FieldsCover(reply, sent)'
           /\ FieldsAre(reply, sent) => FieldsAre(reply, sent)'
<1> DEFINE r == reply
           k == sent
<1>1. /\ r \in Replies /\ k \in Nat /\ k < Len(r) /\ r[k + 1].cmd = "IFCONFIG6"
      /\ reply' = r /\ sent' = k + 1
      /\ mLocalIPv6' = r[k + 1].ip
      /\ mLocalIP' = mLocalIP /\ mMtu' = mMtu /\ mRemoteGW' = mRemoteGW /\ mRoutes' = mRoutes
      /\ mDnslist' = mDnslist /\ mDomain' = mDomain
  BY NeedIs DEF setLocalIPv6, arg
<1> HIDE DEF r, k
<1>2. /\ At(r, k + 1, "IFCONFIG") = At(r, k, "IFCONFIG")
      /\ At(r, k + 1, "DNSSERVER") = At(r, k, "DNSSERVER")
      /\ First(r, k + 1, "IFCONFIG") = First(r, k, "IFCONFIG")
      /\ First(r, k + 1, "DNSDOMAIN") = First(r, k, "DNSDOMAIN")
      /\ PushedRoutes(r, k + 1) = PushedRoutes(r, k)
      /\ Naming(r, k + 1) = Naming(r, k)
  BY <1>1, AtNext, FirstNext, PushedSame
<1>3. At(r, k + 1, "IFCONFIG6") = {k + 1} /\ At(r, k, "IFCONFIG6") = {}
  <2>1. At(r, k + 1, "IFCONFIG6") = At(r, k, "IFCONFIG6") \cup {k + 1}
    BY <1>1, AtNext
  <2>2. k + 1 \in Nat /\ k + 1 <= Len(r)
    BY <1>1, ReplyIsSequence
  <2>3. \A i \in At(r, k + 1, "IFCONFIG6") : i = k + 1
    BY <1>1, <2>1, <2>2, OneAddress
  <2>4. k + 1 \notin At(r, k, "IFCONFIG6")
    BY <1>1 DEF At
  <2> QED
    BY <2>1, <2>3, <2>4
<1>4. First(r, k + 1, "IFCONFIG6") = {r[k + 1]}
  BY <1>1, <1>3, FirstNext
<1>5. ASSUME FieldsCover(r, k) PROVE FieldsCover(reply, sent)'
  BY <1>1, <1>2, <1>3, <1>5 DEF FieldsCover
<1>6. ASSUME FieldsAre(r, k) PROVE FieldsAre(reply, sent)'
  <2>3. mLocalIPv6' \in OrNone({c.ip : c \in First(r, k + 1, "IFCONFIG6")})
    BY <1>1, <1>4 DEF OrNone
  <2>4. Lists(mDnslist, r, k + 1)
    BY <1>2, <1>6 DEF FieldsAre, Lists
  <2> QED
    BY <1>1, <1>2, <1>6, <2>3, <2>4 DEF FieldsAre
<1> QED
  BY <1>5, <1>6 DEF r, k

\* addRoute.
LEMMA RouteCollected ==
    ASSUME TypeOK, addRoute
    PROVE  /\ FieldsCover(reply, sent) => FieldsCover(reply, sent)'
           /\ FieldsAre(reply, sent) => FieldsAre(reply, sent)'
<1> DEFINE r == reply
           k == sent
<1>1. /\ r \in Replies /\ k \in Nat /\ k < Len(r) /\ r[k + 1].cmd = "ROUTE" /\ k + 1 \in 1..Len(r)
      /\ reply' = r /\ sent' = k + 1
      /\ mRoutes' = IF mLocalIP = None THEN mRoutes
                    ELSE Add(mRoutes, r[k + 1].net, r[k + 1].gateway \in {"tun", mRemoteGW})
      /\ mLocalIP' = mLocalIP /\ mMtu' = mMtu /\ mRemoteGW' = mRemoteGW
      /\ mLocalIPv6' = mLocalIPv6 /\ mDnslist' = mDnslist /\ mDomain' = mDomain
  BY NeedIs DEF addRoute, arg
<1> HIDE DEF r, k
<1>2. /\ At(r, k + 1, "IFCONFIG") = At(r, k, "IFCONFIG")
      /\ At(r, k + 1, "IFCONFIG6") = At(r, k, "IFCONFIG6")
      /\ At(r, k + 1, "DNSSERVER") = At(r, k, "DNSSERVER")
      /\ First(r, k + 1, "IFCONFIG") = First(r, k, "IFCONFIG")
      /\ First(r, k + 1, "IFCONFIG6") = First(r, k, "IFCONFIG6")
      /\ First(r, k + 1, "DNSDOMAIN") = First(r, k, "DNSDOMAIN")
  BY <1>1, AtNext, FirstNext
<1>3. k <= Len(r)
  BY <1>1, ReplyIsSequence
<1>5. ASSUME FieldsCover(r, k) PROVE FieldsCover(reply, sent)'
  <2>1. ASSUME At(r, k, "IFCONFIG") # {}
        PROVE  \A i \in Naming(r, k + 1) : \E x \in mRoutes' : x.net = r[i].net
    <3>1. PICK a \in At(r, k, "IFCONFIG") : TRUE
      BY <2>1
    <3>2. mLocalIP # None
      <4>1. a \in 1..Len(r) /\ r[a].cmd = "IFCONFIG"
        BY <1>1, <1>3, ReplyIsSequence DEF At
      <4>2. mLocalIP = r[a].ip
        BY <1>5 DEF FieldsCover
      <4> QED
        BY <1>1, <4>1, <4>2, CommandIsArgument, RepliesAssumption
    <3>3. Naming(r, k + 1) = Naming(r, k) \cup {k + 1}
      BY <1>1, PushedByRoute
    <3>4. mRoutes \subseteq mRoutes' /\ \E x \in mRoutes' : x.net = r[k + 1].net
      BY <1>1, <3>2, AddHas
    <3>5. \A i \in Naming(r, k) : \E x \in mRoutes : x.net = r[i].net
      BY <1>5, <2>1 DEF FieldsCover
    <3> QED
      BY <3>3, <3>4, <3>5
  <2> QED
    BY <1>1, <1>2, <1>5, <2>1 DEF FieldsCover
<1>6. ASSUME FieldsAre(r, k) PROVE FieldsAre(reply, sent)'
  <2>1. mRoutes' = IF At(r, k + 1, "IFCONFIG") = {} THEN {} ELSE PushedRoutes(r, k + 1)
    <3>1. CASE At(r, k, "IFCONFIG") = {}
      <4>1. mLocalIP = None
        BY <1>1, <1>3, <1>6, <3>1, AddressIsPushed
      <4> QED
        BY <1>1, <1>2, <1>6, <3>1, <4>1 DEF FieldsAre
    <3>2. CASE At(r, k, "IFCONFIG") # {}
      <4>1. PICK a \in At(r, k, "IFCONFIG") : TRUE
        BY <3>2
      <4>2. mLocalIP # None
        BY <1>1, <1>3, <1>6, <3>2, AddressIsPushed
      <4>3. mRemoteGW = r[a].gateway /\ mRoutes = PushedRoutes(r, k)
        BY <1>6, <3>2 DEF FieldsAre
      <4>4. mRoutes' = Add(PushedRoutes(r, k), r[k + 1].net, r[k + 1].gateway \in {"tun", r[a].gateway})
        BY <1>1, <4>2, <4>3
      <4> QED
        BY <1>1, <1>2, <3>2, <4>4, PushedByRoute
    <3> QED
      BY <3>1, <3>2
  <2>2. Lists(mDnslist, r, k + 1)
    BY <1>2, <1>6 DEF FieldsAre, Lists
  <2> QED
    BY <1>1, <1>2, <1>6, <2>1, <2>2 DEF FieldsAre
<1> QED
  BY <1>5, <1>6 DEF r, k

\* addDNS.
LEMMA DnsCollected ==
    ASSUME TypeOK, addDNS
    PROVE  /\ FieldsCover(reply, sent) => FieldsCover(reply, sent)'
           /\ FieldsAre(reply, sent) => FieldsAre(reply, sent)'
<1> DEFINE r == reply
           k == sent
           S == {c.server : c \in Arguments("DNSSERVER")}
<1>1. /\ r \in Replies /\ k \in Nat /\ k < Len(r) /\ r[k + 1].cmd = "DNSSERVER"
      /\ reply' = r /\ sent' = k + 1
      /\ mDnslist' = Append(mDnslist, r[k + 1].server) /\ r[k + 1].server \in S
      /\ mLocalIP' = mLocalIP /\ mMtu' = mMtu /\ mRemoteGW' = mRemoteGW /\ mRoutes' = mRoutes
      /\ mLocalIPv6' = mLocalIPv6 /\ mDomain' = mDomain
  BY NeedIs DEF addDNS, arg
<1>a. mDnslist \in Seq(S)
  BY DEF TypeOK
<1> HIDE DEF r, k, S
<1>2. /\ At(r, k + 1, "IFCONFIG") = At(r, k, "IFCONFIG")
      /\ At(r, k + 1, "IFCONFIG6") = At(r, k, "IFCONFIG6")
      /\ At(r, k + 1, "DNSSERVER") = At(r, k, "DNSSERVER") \cup {k + 1}
      /\ First(r, k + 1, "IFCONFIG") = First(r, k, "IFCONFIG")
      /\ First(r, k + 1, "IFCONFIG6") = First(r, k, "IFCONFIG6")
      /\ First(r, k + 1, "DNSDOMAIN") = First(r, k, "DNSDOMAIN")
      /\ PushedRoutes(r, k + 1) = PushedRoutes(r, k)
      /\ Naming(r, k + 1) = Naming(r, k)
  BY <1>1, AtNext, FirstNext, PushedSame
<1>3. Range(mDnslist') = Range(mDnslist) \cup {r[k + 1].server}
  BY <1>1, <1>a DEF Range
<1>5. ASSUME FieldsCover(r, k) PROVE FieldsCover(reply, sent)'
  BY <1>1, <1>2, <1>3, <1>5 DEF FieldsCover
<1>6. ASSUME FieldsAre(r, k) PROVE FieldsAre(reply, sent)'
  <2>1. Lists(mDnslist, r, k)
    BY <1>6 DEF FieldsAre
  <2>2. Lists(mDnslist', r, k + 1)
    BY <1>1, <1>a, <2>1, ListsNext
  <2> QED
    BY <1>1, <1>2, <1>6, <2>2 DEF FieldsAre
<1> QED
  BY <1>5, <1>6 DEF r, k

\* setDomain.
LEMMA DomainCollected ==
    ASSUME TypeOK, setDomain
    PROVE  /\ FieldsCover(reply, sent) => FieldsCover(reply, sent)'
           /\ FieldsAre(reply, sent) => FieldsAre(reply, sent)'
<1> DEFINE r == reply
           k == sent
<1>1. /\ r \in Replies /\ k \in Nat /\ k < Len(r) /\ r[k + 1].cmd = "DNSDOMAIN"
      /\ reply' = r /\ sent' = k + 1
      /\ mDomain' = IF mDomain = None THEN r[k + 1].domain ELSE mDomain
      /\ mLocalIP' = mLocalIP /\ mMtu' = mMtu /\ mRemoteGW' = mRemoteGW /\ mRoutes' = mRoutes
      /\ mLocalIPv6' = mLocalIPv6 /\ mDnslist' = mDnslist
  BY NeedIs DEF setDomain, arg
<1> HIDE DEF r, k
<1>2. /\ At(r, k + 1, "IFCONFIG") = At(r, k, "IFCONFIG")
      /\ At(r, k + 1, "IFCONFIG6") = At(r, k, "IFCONFIG6")
      /\ At(r, k + 1, "DNSSERVER") = At(r, k, "DNSSERVER")
      /\ First(r, k + 1, "IFCONFIG") = First(r, k, "IFCONFIG")
      /\ First(r, k + 1, "IFCONFIG6") = First(r, k, "IFCONFIG6")
      /\ PushedRoutes(r, k + 1) = PushedRoutes(r, k)
      /\ Naming(r, k + 1) = Naming(r, k)
  BY <1>1, AtNext, FirstNext, PushedSame
<1>3. k <= Len(r)
  BY <1>1, ReplyIsSequence
<1>5. ASSUME FieldsCover(r, k) PROVE FieldsCover(reply, sent)'
  BY <1>1, <1>2, <1>5 DEF FieldsCover
<1>6. ASSUME FieldsAre(r, k) PROVE FieldsAre(reply, sent)'
  <2>1. mDomain' \in OrNone({c.domain : c \in First(r, k + 1, "DNSDOMAIN")})
    <3>1. mDomain = None <=> At(r, k, "DNSDOMAIN") = {}
      BY <1>1, <1>3, <1>6, DomainIsPushed
    <3>2. CASE mDomain = None
      <4>1. First(r, k + 1, "DNSDOMAIN") = {r[k + 1]}
        BY <1>1, <3>1, <3>2, FirstNext
      <4> QED
        BY <1>1, <3>2, <4>1 DEF OrNone
    <3>3. CASE mDomain # None
      <4>1. First(r, k + 1, "DNSDOMAIN") = First(r, k, "DNSDOMAIN")
        BY <1>1, <3>1, <3>3, FirstNext
      <4> QED
        BY <1>1, <1>6, <3>3, <4>1 DEF FieldsAre
    <3> QED
      BY <3>2, <3>3
  <2>2. Lists(mDnslist, r, k + 1)
    BY <1>2, <1>6 DEF FieldsAre, Lists
  <2> QED
    BY <1>1, <1>2, <1>6, <2>1, <2>2 DEF FieldsAre
<1> QED
  BY <1>5, <1>6 DEF r, k

\* Before anything is sent the fields have what it asks for, and empty fields
\* are that.
LEMMA NothingCollected ==
    ASSUME NEW r
    PROVE  /\ FieldsCover(r, 0)
           /\ mLocalIP = None /\ mLocalIPv6 = None /\ mDomain = None /\ mDnslist = <<>> /\ mRoutes = {}
              => FieldsAre(r, 0)
<1>1. \A cmd : At(r, 0, cmd) = {} /\ First(r, 0, cmd) = {}
  BY AtNone DEF First
<1>2. Lists(<<>>, r, 0)
  BY ListsNone
<1> QED
  BY <1>1, <1>2 DEF FieldsAre, FieldsCover, OrNone

-----------------------------------------------------------------------------
(* Types. *)

RouteType == [net : Nets \ {None}, included : BOOLEAN]

\* A route that is added is one.
LEMMA AddTyped ==
    ASSUME NEW routes \in SUBSET RouteType, NEW net \in Nets \ {None}, NEW included \in BOOLEAN
    PROVE  Add(routes, net, included) \in SUBSET RouteType
BY DEF Add, RouteType

LEMMA WithLanTyped ==
    ASSUME NEW routes \in SUBSET RouteType, NEW ip, NEW nets \in Lans
    PROVE  WithLan(routes, ip, nets) \in SUBSET RouteType
<1>1. \A n \in nets : n \in Nets \ {None}
  BY RepliesAssumption DEF Nets
<1>2. \A n \in nets : [net |-> n, included |-> FALSE] \in RouteType
  BY <1>1 DEF RouteType
<1> QED
  BY <1>2 DEF WithLan

\* A pushed network is one.
LEMMA ArgumentNet ==
    ASSUME NEW c \in Commands, c.cmd \in {"IFCONFIG", "ROUTE"}
    PROVE  c.net \in Nets
BY DEF Nets, Arguments

LEMMA InitTypes == Init => TypeOK
<1> SUFFICES ASSUME Init PROVE TypeOK
  OBVIOUS
<1>1. mDnslist \in Seq({c.server : c \in Arguments("DNSSERVER")}) /\ Len(mDnslist) <= MaxDns
  BY BoundsAssumption DEF Init
<1>2. reply \in Replies \cup {<<>>} /\ sent \in 0..Len(reply) /\ phase = "down" /\ reply = <<>>
  BY DEF Init
<1> QED
  BY <1>1, <1>2 DEF Init, TypeOK

\* A process that ends or pushes: the fields keep their types.
LEMMA FieldTypes ==
    ASSUME TypeOK, UNCHANGED <<mLocalIP, mLocalIPv6, mDnslist, mRoutes>>
    PROVE  /\ mLocalIP' \in {c.ip : c \in Arguments("IFCONFIG")} \cup {None}
           /\ mLocalIPv6' \in {c.ip : c \in Arguments("IFCONFIG6")} \cup {None}
           /\ mRoutes' \subseteq [net : Nets \ {None}, included : BOOLEAN]
           /\ mDnslist' \in Seq({c.server : c \in Arguments("DNSSERVER")}) /\ Len(mDnslist') <= MaxDns
BY DEF TypeOK

LEMMA NeedTypes ==
    ASSUME TypeOK, NEW cmd, Need(cmd), left \in BOOLEAN
    PROVE  /\ phase' \in {"down", "pushing", "opening", "up"}
           /\ reply' \in Replies \cup {<<>>} /\ sent' \in 0..Len(reply)'
           /\ lan' \in Lans /\ left' \in BOOLEAN
           /\ phase' = "down" => tun' = None /\ reply' = <<>>
           /\ phase' \in {"pushing", "opening"} => reply' \in Replies
           /\ phase' = "opening" => sent' = Len(reply)'
<1>1. reply \in Replies /\ sent \in Nat /\ sent + 1 \in 1..Len(reply)
  BY NeedIs
<1> QED
  BY <1>1 DEF Need, TypeOK

LEMMA TypeStep == TypeOK /\ [Next]_vars => TypeOK'
<1> SUFFICES ASSUME TypeOK, [Next]_vars PROVE TypeOK'
  OBVIOUS
<1>0. left \in BOOLEAN /\ mRoutes \in SUBSET RouteType /\ lan \in Lans
  BY DEF TypeOK, RouteType
<1>1. CASE PushReply
  <2>1. reply' \in Replies /\ Len(reply') \in Nat
    BY <1>1, ReplyIsSequence DEF PushReply
  <2>2. sent' \in 0..Len(reply')
    BY <1>1, <2>1 DEF PushReply
  <2> QED
    BY <1>1, <2>1, <2>2, FieldTypes DEF PushReply, fields, TypeOK
<1>a. ProcessEnds => Len(reply') = 0 /\ sent' \in 0..Len(reply')
  BY DEF ProcessEnds
<1>2. CASE ProcessExits
  <2>1. left' \in BOOLEAN
    BY <1>2 DEF ProcessExits
  <2> QED
    BY <1>2, <1>a, <2>1, FieldTypes DEF ProcessExits, ProcessEnds, fields, TypeOK
<1>3. ASSUME NEW nets \in Lans, OtherLan(nets) PROVE TypeOK'
  BY <1>3 DEF OtherLan, fields, TypeOK
<1>4. CASE setLocalIP
  <2>1. arg \in Arguments("IFCONFIG") /\ arg \in Commands /\ arg.cmd = "IFCONFIG"
    BY <1>4, NeedIs DEF setLocalIP
  <2>2. mRoutes' \in SUBSET RouteType
    <3>1. arg.net \in Nets
      BY <2>1, ArgumentNet
    <3> QED
      BY <1>4, <1>0, <3>1, AddTyped DEF setLocalIP
  <2>3. mLocalIP' \in {c.ip : c \in Arguments("IFCONFIG")}
    BY <1>4, <2>1 DEF setLocalIP
  <2>4. Need("IFCONFIG") /\ UNCHANGED <<mLocalIPv6, mDnslist>>
    BY <1>4 DEF setLocalIP
  <2> QED
    BY <1>0, <2>2, <2>3, <2>4, NeedTypes DEF TypeOK, RouteType
<1>5. CASE setLocalIPv6
  <2>1. arg \in Arguments("IFCONFIG6")
    BY <1>5, NeedIs DEF setLocalIPv6
  <2>2. mLocalIPv6' \in {c.ip : c \in Arguments("IFCONFIG6")}
    BY <1>5, <2>1 DEF setLocalIPv6
  <2>3. Need("IFCONFIG6") /\ UNCHANGED <<mLocalIP, mDnslist, mRoutes>>
    BY <1>5 DEF setLocalIPv6
  <2> QED
    BY <1>0, <2>2, <2>3, NeedTypes DEF TypeOK
<1>6. CASE addRoute
  <2>1. arg \in Commands /\ arg.cmd = "ROUTE"
    BY <1>6, NeedIs DEF addRoute
  <2>2. arg.net \in Nets \ {None}
    BY <2>1, ArgumentNet, RepliesAssumption
  <2>3. (arg.gateway \in {"tun", mRemoteGW}) \in BOOLEAN
    OBVIOUS
  <2>4. mRoutes' \in SUBSET RouteType
    <3>1. CASE mLocalIP = None
      BY <1>6, <1>0, <3>1 DEF addRoute
    <3>2. CASE mLocalIP # None
      <4>1. mRoutes' = Add(mRoutes, arg.net, arg.gateway \in {"tun", mRemoteGW})
        BY <1>6, <3>2 DEF addRoute
      <4> QED
        BY <1>0, <2>2, <2>3, <4>1, AddTyped
    <3> QED
      BY <3>1, <3>2
  <2>5. Need("ROUTE") /\ UNCHANGED <<mLocalIP, mLocalIPv6, mDnslist>>
    BY <1>6 DEF addRoute
  <2> QED
    BY <1>0, <2>4, <2>5, NeedTypes DEF TypeOK, RouteType
<1>7. CASE addDNS
  <2>1. arg \in Arguments("DNSSERVER")
    BY <1>7, NeedIs DEF addDNS
  <2> DEFINE S == {c.server : c \in Arguments("DNSSERVER")}
  <2>2. arg.server \in S
    BY <2>1
  <2>3. mDnslist \in Seq(S) /\ mDnslist' = Append(mDnslist, arg.server) /\ Len(mDnslist) < MaxDns
    BY <1>7 DEF addDNS, TypeOK
  <2> HIDE DEF S
  <2>4. mDnslist' \in Seq(S) /\ Len(mDnslist') <= MaxDns
    BY <2>2, <2>3, BoundsAssumption
  <2>5. Need("DNSSERVER") /\ UNCHANGED <<mLocalIP, mLocalIPv6, mRoutes>>
    BY <1>7 DEF addDNS
  <2> QED
    BY <1>0, <2>4, <2>5, NeedTypes DEF TypeOK, S
<1>8. CASE setDomain
  <2>1. Need("DNSDOMAIN") /\ UNCHANGED <<mLocalIP, mLocalIPv6, mDnslist, mRoutes>>
    BY <1>8 DEF setDomain
  <2> QED
    BY <1>0, <2>1, NeedTypes DEF TypeOK
<1>9. CASE getTunReopenStatus
  <2>1. UNCHANGED <<mLocalIP, mLocalIPv6, mDnslist, mRoutes, reply, sent, tun, lan>>
    BY <1>9 DEF getTunReopenStatus, fields
  <2>2. phase' \in {"up", "opening"} /\ left' \in BOOLEAN /\ reply \in Replies /\ sent = Len(reply)
    BY <1>0, <1>9 DEF getTunReopenStatus, Asking, TypeOK
  <2> QED
    BY <2>1, <2>2 DEF TypeOK
<1>10. CASE OpenTunRefused
  <2>1. mRoutes' \in SUBSET RouteType
    BY <1>0, <1>10, WithLanTyped DEF OpenTunRefused
  <2> QED
    BY <1>10, <1>a, <2>1 DEF OpenTunRefused, ProcessEnds, TypeOK, RouteType
<1>b. Cleared => /\ mLocalIP' = None /\ mLocalIPv6' = None /\ mRoutes' = {}
                 /\ mDnslist' \in Seq({c.server : c \in Arguments("DNSSERVER")})
                 /\ Len(mDnslist') <= MaxDns
  BY BoundsAssumption DEF Cleared
<1>11. CASE OpenTun
  <2>1. /\ Cleared /\ lan' = lan /\ left' = FALSE
        /\ \/ phase' = "up" /\ reply' = reply /\ sent' = sent
           \/ ProcessEnds
    BY <1>11 DEF OpenTun, Established
  <2>2. CASE phase' = "up" /\ reply' = reply /\ sent' = sent
    BY <1>b, <2>1, <2>2 DEF TypeOK
  <2>3. CASE ProcessEnds
    BY <1>a, <1>b, <2>1, <2>3 DEF ProcessEnds, TypeOK
  <2> QED
    BY <2>1, <2>2, <2>3
<1>12. CASE OpenTunCrashes
  BY <1>12, <1>a, <1>b DEF OpenTunCrashes, ProcessEnds, TypeOK
<1>13. CASE UNCHANGED vars
  BY <1>13 DEF vars, fields, TypeOK
<1> QED
  BY <1>1, <1>2, <1>3, <1>4, <1>5, <1>6, <1>7, <1>8, <1>9, <1>10, <1>11, <1>12, <1>13
  DEF Next, NeedCommand

-----------------------------------------------------------------------------
(* The interface. *)

\* A command is handled while the fields are collected; the interface stays.
LEMMA NeedStep ==
    ASSUME TypeOK, NeedCommand,
           ~(getTunReopenStatus \/ OpenTunRefused \/ OpenTun \/ OpenTunCrashes)
    PROVE  /\ UNCHANGED <<phase, left, tun, mLastTunCfg>> /\ phase = "pushing" /\ Collecting /\ Collecting'
           /\ FieldsCover(reply, sent) => FieldsCover(reply, sent)'
           /\ FieldsAre(reply, sent) => FieldsAre(reply, sent)'
<1>1. CASE setLocalIP
  BY <1>1, AddressCollected, NeedIs DEF setLocalIP, Need
<1>2. CASE setLocalIPv6
  BY <1>2, Address6Collected, NeedIs DEF setLocalIPv6, Need
<1>3. CASE addRoute
  BY <1>3, RouteCollected, NeedIs DEF addRoute, Need
<1>4. CASE addDNS
  BY <1>4, DnsCollected, NeedIs DEF addDNS, Need
<1>5. CASE setDomain
  BY <1>5, DomainCollected, NeedIs DEF setDomain, Need
<1> QED
  BY <1>1, <1>2, <1>3, <1>4, <1>5 DEF NeedCommand

LEMMA CollectedStep == TunInv /\ [Next]_vars => Collected' /\ Covers'
<1> SUFFICES ASSUME TunInv, [Next]_vars PROVE Collected' /\ Covers'
  OBVIOUS
<1>0. TypeOK /\ Collected /\ Covers
  BY DEF TunInv
<1>1. CASE PushReply
  <2>1. ~Collecting /\ Collecting' /\ sent' = 0 /\ left' = left /\ UNCHANGED fields
    BY <1>1 DEF PushReply, Collecting
  <2>2. FieldsCover(reply', 0) /\ (~left => FieldsAre(reply', 0))
    <3>1. ~left => /\ mLocalIP = None /\ mLocalIPv6 = None /\ mDomain = None
                   /\ mDnslist = <<>> /\ mRoutes = {}
      BY <1>0, <2>1 DEF Collected
    <3> QED
      BY <3>1, NothingCollected
  <2>3. FieldsCover(reply, sent)' <=> FieldsCover(reply', 0)
    BY <2>1 DEF FieldsCover, fields
  <2>4. FieldsAre(reply, sent)' <=> FieldsAre(reply', 0)
    BY <2>1 DEF FieldsAre, fields
  <2> QED
    BY <2>1, <2>2, <2>3, <2>4 DEF Collected, Covers
<1>2. CASE ProcessExits
  <2>1. ~Collecting' /\ UNCHANGED fields /\ (~left' => ~left /\ phase = "up")
    BY <1>2 DEF ProcessExits, ProcessEnds, Collecting
  <2>2. ~left' => ~left /\ ~Collecting
    BY <2>1 DEF Collecting
  <2> QED
    BY <1>0, <2>1, <2>2 DEF Collected, Covers, fields
<1>3. ASSUME NEW nets \in Lans, OtherLan(nets) PROVE Collected' /\ Covers'
  BY <1>0, <1>3 DEF OtherLan, fields, Collected, Covers, Collecting, FieldsAre, FieldsCover
<1>4. CASE NeedCommand /\ ~(getTunReopenStatus \/ OpenTunRefused \/ OpenTun \/ OpenTunCrashes)
  BY <1>0, <1>4, NeedStep DEF Collected, Covers
<1>5. CASE getTunReopenStatus
  <2>1. Collecting /\ UNCHANGED <<fields, reply, sent>>
    BY <1>5 DEF getTunReopenStatus, Asking, Collecting
  <2>2. (phase' = "up" /\ left' = TRUE) \/ (phase' = "opening" /\ left' = left)
    BY <1>5 DEF getTunReopenStatus
  <2>3. FieldsCover(reply, sent)' <=> FieldsCover(reply, sent)
    BY <2>1 DEF FieldsCover, fields
  <2>4. FieldsAre(reply, sent)' <=> FieldsAre(reply, sent)
    BY <2>1 DEF FieldsAre, fields
  <2> QED
    BY <1>0, <2>1, <2>2, <2>3, <2>4 DEF Collected, Covers, Collecting
<1>6. CASE OpenTunRefused
  BY <1>6 DEF OpenTunRefused, ProcessEnds, Collected, Covers, Collecting
<1>7. CASE OpenTun
  <2>1. ~Collecting' /\ Cleared
    BY <1>7 DEF OpenTun, Established, ProcessEnds, Collecting
  <2> QED
    BY <2>1 DEF Collected, Covers, Cleared
<1>8. CASE OpenTunCrashes
  BY <1>8 DEF OpenTunCrashes, ProcessEnds, Collected, Covers, Collecting, Cleared
<1>9. CASE UNCHANGED vars
  BY <1>0, <1>9 DEF vars, fields, Collected, Covers, Collecting, FieldsAre, FieldsCover
<1> QED
  BY <1>1, <1>2, <1>3, <1>4, <1>5, <1>6, <1>7, <1>8, <1>9 DEF Next, NeedCommand

\* What is not done to the interface leaves what is known of it.
LEMMA TunStays ==
    ASSUME StringIsTuns /\ CleanTun /\ TunListsServers, UNCHANGED <<tun, mLastTunCfg>>
    PROVE  StringIsTuns' /\ CleanTun' /\ TunListsServers'
BY DEF StringIsTuns, CleanTun, TunListsServers, TunMatchesReply

LEMMA NoTun ==
    ASSUME tun' = None
    PROVE  StringIsTuns' /\ CleanTun' /\ TunListsServers'
BY DEF StringIsTuns, CleanTun, TunListsServers

\* openTun establishes what the fields say.
LEMMA OpenTunBuilds ==
    ASSUME TunInv, OpenTun, phase' = "up"
    PROVE  StringIsTuns' /\ CleanTun' /\ TunListsServers' /\ UpHasReply'
<1> DEFINE all == WithLan(mRoutes, mLocalIP, lan)
<1>1. /\ TypeOK /\ Collected /\ Covers
      /\ mLocalIP # None /\ MayOpen
      /\ mLastTunCfg' = getTunConfigString(all)
      /\ tun' = [config |-> Built(all), reply |-> reply, lan |-> lan, clean |-> ~left]
      /\ reply' = reply /\ sent' = sent
  BY DEF TunInv, OpenTun, Established, ProcessEnds
<1> HIDE DEF all
<1>2. /\ tun'.config = Built(all) /\ tun'.reply = reply /\ tun'.lan = lan /\ tun'.clean = ~left
      /\ tun'.config.ip = mLocalIP /\ tun'.config.ip6 = mLocalIPv6 /\ tun'.config.routes = all
      /\ tun'.config.dns = mDnslist /\ tun'.config.domain = mDomain /\ tun'.config.mtu = mMtu
  BY <1>1 DEF Built
<1>3. Collecting /\ reply \in Replies /\ sent = Len(reply) /\ sent \in Nat
  <2>1. Collecting /\ reply \in Replies /\ sent = Len(reply)
    BY <1>1 DEF MayOpen, Asking, TypeOK, Collecting
  <2> QED
    BY <2>1, ReplyIsSequence
<1>4. StringIsTuns'
  BY <1>1, <1>2 DEF StringIsTuns, getTunConfigString
<1>5. TunListsServers'
  BY <1>1, <1>2 DEF TunListsServers, TypeOK
<1>6. mRoutes \subseteq all
  BY DEF all, WithLan
<1>7. UpHasReply'
  <2>1. FieldsCover(reply, Len(reply))
    BY <1>1, <1>3 DEF Covers
  <2>2. At(reply, Len(reply), "IFCONFIG") # {} =>
          \A i \in Naming(reply, Len(reply)) : \E x \in all : x.net = reply[i].net
    BY <1>6, <2>1 DEF FieldsCover
  <2> QED
    BY <1>1, <1>2, <2>1, <2>2 DEF UpHasReply, FieldsCover
<1>8. ASSUME ~left PROVE CleanTun'
  <2>1. FieldsAre(reply, Len(reply))
    BY <1>1, <1>3, <1>8 DEF Collected
  <2>2. At(reply, Len(reply), "IFCONFIG") # {}
    BY <1>1, <1>3, <2>1, AddressIsPushed
  <2>3. mRoutes = PushedRoutes(reply, Len(reply))
    BY <2>1, <2>2 DEF FieldsAre
  <2>4. all = mRoutes \cup LocalRoutes(mRoutes, lan)
    BY <1>1 DEF all, WithLan, LocalRoutes
  <2>5. TunMatchesReply'
    BY <1>2, <2>1, <2>3, <2>4 DEF TunMatchesReply, FieldsAre
  <2> QED
    BY <1>2, <2>1, <2>2, <2>5 DEF CleanTun, FieldsAre
<1>9. ASSUME left PROVE CleanTun'
  BY <1>2, <1>9 DEF CleanTun
<1> QED
  BY <1>4, <1>5, <1>7, <1>8, <1>9

\* NOACTION: the settings are those of the interface already.
LEMMA KeptHasReply ==
    ASSUME TunInv, getTunReopenStatus, phase' = "up"
    PROVE  UpHasReply'
<1>1. /\ TypeOK /\ Covers /\ StringIsTuns /\ tun # None /\ Asking
      /\ getTunConfigString(mRoutes) = mLastTunCfg
      /\ UNCHANGED <<reply, tun>>
  BY DEF TunInv, getTunReopenStatus
<1>2. /\ tun.config.ip = mLocalIP /\ tun.config.ip6 = mLocalIPv6 /\ tun.config.routes = mRoutes
      /\ tun.config.dns = mDnslist
  BY <1>1 DEF StringIsTuns, getTunConfigString
<1>3. FieldsCover(reply, Len(reply))
  BY <1>1 DEF Covers, Asking, Collecting
<1> QED
  BY <1>1, <1>2, <1>3 DEF UpHasReply, FieldsCover

LEMMA TunStep ==
    TunInv /\ [Next]_vars => StringIsTuns' /\ CleanTun' /\ TunListsServers' /\ UpHasReply'
<1> SUFFICES ASSUME TunInv, [Next]_vars
             PROVE  StringIsTuns' /\ CleanTun' /\ TunListsServers' /\ UpHasReply'
  OBVIOUS
<1>0. TypeOK /\ StringIsTuns /\ CleanTun /\ TunListsServers /\ UpHasReply
  BY DEF TunInv
<1>1. CASE PushReply
  <2>1. UNCHANGED <<tun, mLastTunCfg>> /\ phase' # "up"
    BY <1>1 DEF PushReply
  <2> QED
    BY <1>0, <2>1, TunStays DEF UpHasReply
<1>2. CASE ProcessExits
  BY <1>2, NoTun DEF ProcessExits, ProcessEnds, UpHasReply
<1>3. ASSUME NEW nets \in Lans, OtherLan(nets)
      PROVE  StringIsTuns' /\ CleanTun' /\ TunListsServers' /\ UpHasReply'
  <2>1. UNCHANGED <<tun, mLastTunCfg, phase, reply>>
    BY <1>3 DEF OtherLan
  <2> QED
    BY <1>0, <2>1, TunStays DEF UpHasReply
<1>4. CASE NeedCommand /\ ~(getTunReopenStatus \/ OpenTunRefused \/ OpenTun \/ OpenTunCrashes)
  <2>1. UNCHANGED <<tun, mLastTunCfg>> /\ phase' # "up"
    BY <1>0, <1>4, NeedStep
  <2> QED
    BY <1>0, <2>1, TunStays DEF UpHasReply
<1>5. CASE getTunReopenStatus
  <2>1. UNCHANGED <<tun, mLastTunCfg>>
    BY <1>5 DEF getTunReopenStatus
  <2>2. phase' # "up" => UpHasReply'
    BY DEF UpHasReply
  <2> QED
    BY <1>0, <1>5, <2>1, <2>2, TunStays, KeptHasReply
<1>6. CASE OpenTunRefused
  BY <1>6, NoTun DEF OpenTunRefused, ProcessEnds, UpHasReply
<1>7. CASE OpenTun
  <2>1. phase' = "up" \/ (tun' = None /\ phase' = "down")
    BY <1>7 DEF OpenTun, Established, ProcessEnds
  <2>2. CASE phase' = "up"
    BY <1>7, <2>2, OpenTunBuilds
  <2>3. CASE tun' = None /\ phase' = "down"
    BY <2>3, NoTun DEF UpHasReply
  <2> QED
    BY <2>1, <2>2, <2>3
<1>8. CASE OpenTunCrashes
  BY <1>8, NoTun DEF OpenTunCrashes, ProcessEnds, UpHasReply
<1>9. CASE UNCHANGED vars
  <2>1. UNCHANGED <<tun, mLastTunCfg, phase, reply>>
    BY <1>9 DEF vars
  <2> QED
    BY <1>0, <2>1, TunStays DEF UpHasReply
<1> QED
  BY <1>1, <1>2, <1>3, <1>4, <1>5, <1>6, <1>7, <1>8, <1>9 DEF Next, NeedCommand

LEMMA TunInvariant == Spec => []TunInv
<1>1. Init => TunInv
  <2> SUFFICES ASSUME Init PROVE TunInv
    OBVIOUS
  <2>1. TypeOK
    BY InitTypes
  <2>2. Collected /\ Covers
    BY DEF Init, Collected, Covers, Collecting
  <2>3. StringIsTuns /\ CleanTun /\ TunListsServers /\ UpHasReply
    BY DEF Init, StringIsTuns, CleanTun, TunListsServers, UpHasReply
  <2> QED
    BY <2>1, <2>2, <2>3 DEF TunInv
<1>2. TunInv /\ [Next]_vars => TunInv'
  BY TypeStep, CollectedStep, TunStep DEF TunInv
<1> QED
  BY <1>1, <1>2, PTL DEF Spec

-----------------------------------------------------------------------------
(* The theorems. *)

\* The fields, the reply being pushed and the interface have their types
\* (the fields of OpenVPNService.java:69-87).
THEOREM TunTypes == Spec => []TypeOK
<1>1. TunInv => TypeOK
  BY DEF TunInv
<1> QED
  BY <1>1, TunInvariant, PTL

\* An interface opened from clean fields has the settings of its reply and of
\* no process before it (openTun, OpenVPNService.java:485-597).
THEOREM SettingsAreOfReply == Spec => []TunMatchesReply
<1>1. TunInv => TunMatchesReply
  BY DEF TunInv, CleanTun, TunMatchesReply
<1> QED
  BY <1>1, TunInvariant, PTL

\* Whatever was left behind, what a process that is up has pushed is in its
\* interface, a kept one included (getTunReopenStatus,
\* OpenVPNService.java:843-857).
THEOREM SettingsAreThere == Spec => []UpHasReply
<1>1. TunInv => UpHasReply
  BY DEF TunInv
<1> QED
  BY <1>1, TunInvariant, PTL

\* Settings that two processes have asked for are equal.
LEMMA AsksTheSame ==
    ASSUME TunInv, Asking, tun # None, reply = tun.reply, tun.clean, ~left,
           LocalRoutes(PushedRoutes(reply, Len(reply)), tun.lan) = {}
    PROVE  getTunConfigString(mRoutes) = mLastTunCfg
<1> DEFINE r == reply
           k == Len(reply)
<1>1. /\ TypeOK /\ Collected /\ StringIsTuns /\ TunListsServers /\ CleanTun
      /\ r \in Replies /\ k \in Nat /\ FieldsAre(r, k)
  <2>1. TypeOK /\ Collected /\ StringIsTuns /\ TunListsServers /\ CleanTun
    BY DEF TunInv
  <2>2. Collecting /\ r \in Replies /\ sent = k
    BY <2>1 DEF Asking, Collecting, TypeOK
  <2> QED
    BY <2>1, <2>2, ReplyIsSequence DEF Collected
<1>2. /\ TunMatchesReply /\ At(r, k, "IFCONFIG") # {}
      /\ \A i \in At(r, k, "IFCONFIG") : tun.config.mtu = r[i].mtu
  BY <1>1 DEF CleanTun
<1>3. /\ tun.config.ip \in OrNone({c.ip : c \in First(r, k, "IFCONFIG")})
      /\ tun.config.ip6 \in OrNone({c.ip : c \in First(r, k, "IFCONFIG6")})
      /\ tun.config.domain \in OrNone({c.domain : c \in First(r, k, "DNSDOMAIN")})
      /\ Lists(tun.config.dns, r, k)
      /\ tun.config.routes = PushedRoutes(r, k)
  BY <1>2 DEF TunMatchesReply
<1> HIDE DEF r, k
<1>4. tun.config.ip = mLocalIP /\ tun.config.ip6 = mLocalIPv6 /\ tun.config.domain = mDomain
  <2>1. /\ \A c, d \in First(r, k, "IFCONFIG") : c = d
        /\ \A c, d \in First(r, k, "IFCONFIG6") : c = d
        /\ \A c, d \in First(r, k, "DNSDOMAIN") : c = d
    BY <1>1, FirstIs
  <2>2. /\ mLocalIP \in OrNone({c.ip : c \in First(r, k, "IFCONFIG")})
        /\ mLocalIPv6 \in OrNone({c.ip : c \in First(r, k, "IFCONFIG6")})
        /\ mDomain \in OrNone({c.domain : c \in First(r, k, "DNSDOMAIN")})
    BY <1>1 DEF FieldsAre
  <2>3. \A F : (\A c, d \in F : c = d) =>
               /\ \A x, y \in OrNone({c.ip : c \in F}) : x = y
               /\ \A x, y \in OrNone({c.domain : c \in F}) : x = y
    BY DEF OrNone
  <2> QED
    BY <1>3, <2>1, <2>2, <2>3
<1>5. tun.config.dns = mDnslist
  <2> DEFINE S == {c.server : c \in Arguments("DNSSERVER")}
  <2>1. tun.config.dns \in Seq(S) /\ mDnslist \in Seq(S)
    BY <1>1 DEF TunListsServers, TypeOK
  <2> HIDE DEF S
  <2>2. Lists(mDnslist, r, k)
    BY <1>1 DEF FieldsAre
  <2> QED
    BY <1>1, <1>3, <2>1, <2>2, ListsOnce
<1>6. tun.config.routes = mRoutes /\ tun.config.mtu = mMtu
  BY <1>1, <1>2, <1>3 DEF FieldsAre
<1> QED
  BY <1>1, <1>4, <1>5, <1>6 DEF StringIsTuns, getTunConfigString

\* A process that asks for the same again keeps its interface
\* (OpenVPNService.java:843-850).
THEOREM UnchangedTunIsKept == Spec => UnchangedIsKept
<1> DEFINE Same == /\ Asking /\ tun # None /\ reply = tun.reply
                   /\ tun.clean /\ ~left
                   /\ LocalRoutes(PushedRoutes(reply, Len(reply)), tun.lan) = {}
<1>1. TunInv /\ [Next]_vars => [Same => phase' # "opening"]_vars
  <2> SUFFICES ASSUME TunInv, Next, Same, phase' = "opening" PROVE FALSE
    OBVIOUS
  <2>1. phase = "pushing" /\ phase' # phase /\ tun # None
    BY DEF Asking
  <2>2. ~(PushReply \/ ProcessExits \/ \E nets \in Lans : OtherLan(nets))
    BY <2>1 DEF PushReply, ProcessExits, ProcessEnds, OtherLan
  <2>3. ~(setLocalIP \/ setLocalIPv6 \/ addRoute \/ addDNS \/ setDomain)
    BY <2>1 DEF setLocalIP, setLocalIPv6, addRoute, addDNS, setDomain, Need
  <2>4. ~(OpenTunRefused \/ OpenTun \/ OpenTunCrashes)
    BY <2>1 DEF OpenTunRefused, OpenTun, OpenTunCrashes, Established, ProcessEnds, MayOpen
  <2>5. getTunReopenStatus
    BY <2>2, <2>3, <2>4 DEF Next, NeedCommand
  <2>6. getTunConfigString(mRoutes) = mLastTunCfg
    BY AsksTheSame
  <2> QED
    BY <2>5, <2>6 DEF getTunReopenStatus
<1> QED
  BY <1>1, TunInvariant, PTL DEF Spec, UnchangedIsKept
=============================================================================
