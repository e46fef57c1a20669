------------------------------ MODULE TunConfig ------------------------------
(***************************************************************************)
(* The configuration of the VPN interface (OpenVPNService.java): what the  *)
(* process pushes with NEED-OK is collected in fields of the service until *)
(* openTun hands it to Android; a process that still has an interface      *)
(* first asks getTunReopenStatus whether it may keep it.  The fields       *)
(* outlive the process.                                                    *)
(*                                                                         *)
(* Everything here runs on the management thread, one command at a time.   *)
(* Networks are members of Nets that do not overlap (NetworkSpace computes *)
(* what overlapping ones come to).                                         *)
(***************************************************************************)
EXTENDS Naturals, Sequences, SequencesExt

CONSTANTS
    Replies,        \* what the process may push: sequences of commands
    Lans,           \* the sets of local networks the device may be on
    mAllowLocalLAN, \* the profile's setting: local networks bypass the VPN
    None,           \* an unset field
    MaxDns          \* bound on DNS servers left behind by earlier processes

ASSUME BoundsAssumption == mAllowLocalLAN \in BOOLEAN /\ MaxDns \in Nat

Commands == UNION {Range(r) : r \in Replies}

\* A reply pushes one address of a kind, before the routes; no argument is
\* missing but the network of an address that is alone.
ASSUME RepliesAssumption ==
    /\ Replies \subseteq Seq(Commands)
    /\ \A r \in Replies : \A i, j \in DOMAIN r :
        /\ r[i].cmd = r[j].cmd /\ r[i].cmd \in {"IFCONFIG", "IFCONFIG6"} => i = j
        /\ r[i].cmd = "ROUTE" /\ r[j].cmd = "IFCONFIG" => j < i
    /\ \A c \in Commands :
        /\ c.cmd = "IFCONFIG" => c.ip # None
        /\ c.cmd = "ROUTE" => c.net # None
        /\ c.cmd = "DNSDOMAIN" => c.domain # None
    /\ None \notin UNION Lans

VARIABLES
    mLocalIP, mLocalIPv6, mDnslist, mDomain, mMtu, mRemoteGW,
    mRoutes,        \* NetworkSpace: networks, each included or excluded
    mLastTunCfg,
    phase,          \* the process: "down", "pushing", "opening" or "up"
    reply, sent,    \* the reply it is pushing, and how much of it is sent
    tun,            \* the interface it has: its settings and where they are from
    lan,            \* the local networks the device is on
    left            \* some reply's settings may have been left in the fields

fields == <<mLocalIP, mLocalIPv6, mDnslist, mDomain, mMtu, mRemoteGW, mRoutes>>
vars == <<fields, mLastTunCfg, phase, reply, sent, tun, lan, left>>

Cleared == /\ mLocalIP' = None /\ mLocalIPv6' = None /\ mDomain' = None
           /\ mDnslist' = <<>> /\ mRoutes' = {}

Init ==
    /\ mLocalIP = None /\ mLocalIPv6 = None /\ mDomain = None
    /\ mDnslist = <<>> /\ mRoutes = {}
    /\ mMtu = 0 /\ mRemoteGW = None /\ mLastTunCfg = None
    /\ phase = "down" /\ reply = <<>> /\ sent = 0 /\ tun = None
    /\ lan \in Lans
    /\ left = FALSE

\* TreeSet.add: a network that is in stays what it was.
Add(routes, net, included) ==
    IF \E r \in routes : r.net = net THEN routes
    ELSE routes \cup {[net |-> net, included |-> included]}

\* addLocalNetworksToRoutes: the local networks, unless they are included.
WithLan(routes, ip, nets) ==
    routes \cup IF mAllowLocalLAN /\ ip # None
                THEN {[net |-> n, included |-> FALSE] :
                        n \in {n \in nets : \A r \in routes : r.net # n}}
                ELSE {}

-----------------------------------------------------------------------------
(* The process (external): it connects, pushes the reply in order, asks and  *)
(* opens; it may exit at any time and is started again.                      *)

PushReply ==
    /\ phase \in {"down", "up"}
    /\ phase' = "pushing"
    /\ reply' \in Replies /\ sent' = 0
    /\ UNCHANGED <<fields, mLastTunCfg, tun, lan, left>>

ProcessEnds == phase' = "down" /\ tun' = None /\ reply' = <<>> /\ sent' = 0

\* What it has not had time to hand over stays in the fields.
ProcessExits ==
    /\ phase # "down"
    /\ ProcessEnds
    /\ left' = (left \/ phase # "up")
    /\ UNCHANGED <<fields, mLastTunCfg, lan>>

OtherLan(nets) ==
    /\ nets # lan /\ lan' = nets
    /\ UNCHANGED <<fields, mLastTunCfg, phase, reply, sent, tun, left>>

-----------------------------------------------------------------------------
(* processNeedCommand. *)

Need(cmd) ==
    /\ phase = "pushing" /\ sent < Len(reply)
    /\ reply[sent + 1].cmd = cmd
    /\ sent' = sent + 1
    /\ UNCHANGED <<mLastTunCfg, phase, reply, tun, lan, left>>
arg == reply[sent + 1]

\* "it does not route traffic to the VPNs own network mask": a route is added
\* unless the address is alone.
setLocalIP ==
    /\ Need("IFCONFIG")
    /\ mLocalIP' = arg.ip /\ mMtu' = arg.mtu /\ mRemoteGW' = arg.gateway
    /\ mRoutes' = IF arg.net = None THEN mRoutes ELSE Add(mRoutes, arg.net, TRUE)
    /\ UNCHANGED <<mLocalIPv6, mDnslist, mDomain>>

setLocalIPv6 ==
    /\ Need("IFCONFIG6")
    /\ mLocalIPv6' = arg.ip
    /\ UNCHANGED <<mLocalIP, mDnslist, mDomain, mMtu, mRemoteGW, mRoutes>>

\* A route through the interface or its gateway is included, any other one
\* excluded; without a local address it is refused.
addRoute ==
    /\ Need("ROUTE")
    /\ mRoutes' = IF mLocalIP = None THEN mRoutes
                  ELSE Add(mRoutes, arg.net, arg.gateway \in {"tun", mRemoteGW})
    /\ UNCHANGED <<mLocalIP, mLocalIPv6, mDnslist, mDomain, mMtu, mRemoteGW>>

addDNS ==
    /\ Need("DNSSERVER")
    /\ Len(mDnslist) < MaxDns
    /\ mDnslist' = Append(mDnslist, arg.server)
    /\ UNCHANGED <<mLocalIP, mLocalIPv6, mDomain, mMtu, mRemoteGW, mRoutes>>

setDomain ==
    /\ Need("DNSDOMAIN")
    /\ mDomain' = IF mDomain = None THEN arg.domain ELSE mDomain
    /\ UNCHANGED <<mLocalIP, mLocalIPv6, mDnslist, mMtu, mRemoteGW, mRoutes>>

\* Mutant of getTunConfigString: the DNS servers are not compared.
getTunConfigStringNoDns(routes) ==
    <<mLocalIP, mLocalIPv6, routes, mDomain, mMtu>>

\* What is compared: the fields, with these routes.
getTunConfigString(routes) ==
    <<mLocalIP, mLocalIPv6, routes, mDnslist, mDomain, mMtu>>

Asking == phase = "pushing" /\ sent = Len(reply)

\* PERSIST_TUN_ACTION, if there is an interface: NOACTION keeps it.
getTunReopenStatus ==
    /\ Asking /\ tun # None
    /\ IF getTunConfigString(mRoutes) = mLastTunCfg
       THEN phase' = "up" /\ left' = TRUE
       ELSE phase' = "opening" /\ UNCHANGED left
    /\ UNCHANGED <<fields, mLastTunCfg, reply, sent, tun, lan>>

MayOpen == phase = "opening" \/ (Asking /\ tun = None)

\* Before openTun clears the fields: not a tun device, no address, or one that
\* the builder refuses.  The process is told "cancel" and gives up.
OpenTunRefused ==
    /\ MayOpen
    /\ mRoutes' \in {mRoutes, WithLan(mRoutes, mLocalIP, lan)}
    /\ ProcessEnds
    /\ left' = TRUE
    /\ UNCHANGED <<mLocalIP, mLocalIPv6, mDnslist, mDomain, mMtu, mRemoteGW, mLastTunCfg, lan>>

\* What the builder is given.
Built(routes) ==
    [ip |-> mLocalIP, ip6 |-> mLocalIPv6, routes |-> routes, dns |-> mDnslist,
     domain |-> mDomain, mtu |-> mMtu]

\* establish() with these routes; or it fails, and the process gives up.
Established(routes) ==
    \/ /\ phase' = "up"
       /\ tun' = [config |-> Built(routes), reply |-> reply, lan |-> lan, clean |-> ~left]
       /\ UNCHANGED <<reply, sent>>
    \/ ProcessEnds

\* Mutant of OpenTun: the DNS servers are not cleared.
OpenTunKeepsDns ==
    /\ MayOpen /\ mLocalIP # None
    /\ LET all == WithLan(mRoutes, mLocalIP, lan) IN
       /\ mLastTunCfg' = getTunConfigString(all)
       /\ Established(all)
    /\ mLocalIP' = None /\ mLocalIPv6' = None /\ mDomain' = None /\ mRoutes' = {}
    /\ UNCHANGED <<mDnslist, mMtu, mRemoteGW, lan>>
    /\ left' = FALSE

\* Mutant of OpenTun: the routes are not cleared.
OpenTunKeepsRoutes ==
    /\ MayOpen /\ mLocalIP # None
    /\ LET all == WithLan(mRoutes, mLocalIP, lan) IN
       /\ mLastTunCfg' = getTunConfigString(all)
       /\ Established(all)
       /\ mRoutes' = all
    /\ mLocalIP' = None /\ mLocalIPv6' = None /\ mDomain' = None /\ mDnslist' = <<>>
    /\ UNCHANGED <<mMtu, mRemoteGW, lan>>
    /\ left' = FALSE

\* openTun gets to establish().
OpenTun ==
    /\ MayOpen /\ mLocalIP # None
    /\ LET all == WithLan(mRoutes, mLocalIP, lan) IN
       /\ mLastTunCfg' = getTunConfigString(all)
       /\ Established(all)
    /\ Cleared
    /\ UNCHANGED <<mMtu, mRemoteGW, lan>>
    /\ left' = FALSE

\* Without an IPv4 address the log of the settings dereferences null: the
\* application dies and starts with empty fields.
OpenTunCrashes ==
    /\ MayOpen /\ mLocalIP = None /\ mLocalIPv6 # None
    /\ Cleared
    /\ mMtu' = 0 /\ mRemoteGW' = None /\ mLastTunCfg' = None
    /\ ProcessEnds
    /\ left' = FALSE
    /\ UNCHANGED lan

NeedCommand ==
    \/ setLocalIP \/ setLocalIPv6 \/ addRoute \/ addDNS \/ setDomain
    \/ getTunReopenStatus
    \/ OpenTunRefused \/ OpenTun \/ OpenTunCrashes

Next ==
    \/ PushReply
    \/ ProcessExits
    \/ \E nets \in Lans : OtherLan(nets)
    \/ NeedCommand

Spec == Init /\ [][Next]_vars

-----------------------------------------------------------------------------
\* Positions of the commands of one kind among the first k of a reply, and of
\* those that name a network.
At(r, k, cmd) == {i \in 1..k : r[i].cmd = cmd}
Naming(r, k) == At(r, k, "ROUTE") \cup {i \in At(r, k, "IFCONFIG") : r[i].net # None}

\* The first of them, if there is one, and what it leaves in a field.
First(r, k, cmd) ==
    {r[i] : i \in {i \in At(r, k, cmd) : \A j \in At(r, k, cmd) : i <= j}}
OrNone(args) == IF args = {} THEN {None} ELSE args

\* servers lists the pushed DNS servers in order.
Lists(servers, r, k) ==
    \E at \in [DOMAIN servers -> At(r, k, "DNSSERVER")] :
        /\ \A i, j \in DOMAIN servers : i < j => at[i] < at[j]
        /\ \A p \in At(r, k, "DNSSERVER") : \E i \in DOMAIN servers : at[i] = p
        /\ \A i \in DOMAIN servers : servers[i] = r[at[i]].server

\* The pushed networks; the first command that names one decides where it
\* goes: into the interface if that is its gateway or the local address's is.
PushedRoutes(r, k) ==
    {[net |-> r[i].net,
      included |-> r[i].gateway \in {"tun"} \cup {r[j].gateway : j \in At(r, k, "IFCONFIG")}] :
        i \in {i \in Naming(r, k) : \A j \in Naming(r, k) : r[j].net = r[i].net => i <= j}}

\* The local networks that bypass the VPN next to these routes.
LocalRoutes(routes, nets) ==
    {[net |-> n, included |-> FALSE] :
        n \in {n \in nets : mAllowLocalLAN /\ \A p \in routes : p.net # n}}

Arguments(cmd) == {c \in Commands : c.cmd = cmd}
Nets == {c.net : c \in Arguments("IFCONFIG") \cup Arguments("ROUTE")} \cup UNION Lans

(* Types: what is in the fields was pushed by some process.                  *)
TypeOK ==
    /\ mLocalIP \in {c.ip : c \in Arguments("IFCONFIG")} \cup {None}
    /\ mLocalIPv6 \in {c.ip : c \in Arguments("IFCONFIG6")} \cup {None}
    /\ mRoutes \subseteq [net : Nets \ {None}, included : BOOLEAN]
    /\ mDnslist \in Seq({c.server : c \in Arguments("DNSSERVER")}) /\ Len(mDnslist) <= MaxDns
    /\ phase \in {"down", "pushing", "opening", "up"}
    /\ reply \in Replies \cup {<<>>} /\ sent \in 0..Len(reply)
    /\ lan \in Lans /\ left \in BOOLEAN
    /\ phase = "down" => tun = None /\ reply = <<>>
    /\ phase \in {"pushing", "opening"} => reply \in Replies
    /\ phase = "opening" => sent = Len(reply)

(* An interface opened when nothing was left in the fields has the settings  *)
(* of the reply it was opened for and of no process before it: openTun       *)
(* resets what it used (OpenVPNService.java:582-588).                        *)
TunMatchesReply ==
    tun # None /\ tun.clean =>
        LET r == tun.reply
            k == Len(tun.reply)
            pushed == PushedRoutes(r, k)
        IN  /\ tun.config.ip \in OrNone({c.ip : c \in First(r, k, "IFCONFIG")})
            /\ tun.config.ip6 \in OrNone({c.ip : c \in First(r, k, "IFCONFIG6")})
            /\ tun.config.domain \in OrNone({c.domain : c \in First(r, k, "DNSDOMAIN")})
            /\ Lists(tun.config.dns, r, k)
            /\ tun.config.routes = pushed \cup LocalRoutes(pushed, tun.lan)

(* Whatever was left in the fields, a process that is up, on a new interface *)
(* or on the one getTunReopenStatus let it keep, has the addresses and the   *)
(* DNS servers of its reply, and every network of it is routed or excluded.  *)
UpHasReply ==
    phase = "up" =>
        LET Of(cmd) == At(reply, Len(reply), cmd) IN
        /\ \A i \in Of("IFCONFIG") : tun.config.ip = reply[i].ip
        /\ \A i \in Of("IFCONFIG6") : tun.config.ip6 = reply[i].ip
        /\ \A i \in Of("DNSSERVER") : reply[i].server \in Range(tun.config.dns)
        /\ Of("IFCONFIG") # {} =>
              \A i \in Naming(reply, Len(reply)) : \E r \in tun.config.routes : r.net = reply[i].net

(* "two identical configurations produce the same result"                    *)
(* (OpenVPNService.java:468-469): the same reply again, after an interface   *)
(* opened for it, keeps the interface -- if nothing was left in the fields   *)
(* and no local network was excluded, which the string compared lacks.       *)
UnchangedIsKept ==
    [][/\ Asking /\ tun # None /\ reply = tun.reply
       /\ tun.clean /\ ~left
       /\ LocalRoutes(PushedRoutes(reply, Len(reply)), tun.lan) = {}
       => phase' # "opening"]_vars
=============================================================================
