----------------------------- MODULE MCTunConfig -----------------------------
(* Three networks, one of them also a local one, and five replies: two in a  *)
(* subnet that differ in the DNS server, one with an address that is alone   *)
(* and an excluded route, one that routes the local network and names it     *)
(* again, and one with IPv6 only.                                            *)
EXTENDS TunConfig

Ifconfig(ip, net, mtu, gateway) ==
    [cmd |-> "IFCONFIG", ip |-> ip, net |-> net, mtu |-> mtu, gateway |-> gateway]
Route(net, gateway) == [cmd |-> "ROUTE", net |-> net, gateway |-> gateway]
Dns(server) == [cmd |-> "DNSSERVER", server |-> server]
Domain(domain) == [cmd |-> "DNSDOMAIN", domain |-> domain]
Ifconfig6(ip) == [cmd |-> "IFCONFIG6", ip |-> ip]

AllReplies ==
    {<<Dns("d1"), Ifconfig("a", "vpn", 1500, "gw"), Route("far", "gw")>>,
     <<Dns("d2"), Ifconfig("a", "vpn", 1500, "gw"), Route("far", "gw")>>,
     <<Domain("x"), Dns("d1"), Dns("d2"), Ifconfig("b", None, 1400, "gw"), Ifconfig6("a6"),
       Route("far", "other")>>,
     <<Dns("d1"), Ifconfig("a", "vpn", 1500, "gw"), Route("home", "tun"), Route("vpn", "other"),
       Route("home", "other")>>,
     <<Dns("d2"), Ifconfig6("a6"), Route("far", "tun")>>}
LocalNets == {{}, {"home"}}
=============================================================================
