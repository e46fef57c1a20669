---------------------------- MODULE NetworkSpace ----------------------------
(***************************************************************************)
(* NetworkSpace.java: included and excluded networks are collected in a    *)
(* sorted set, and generateIPList turns them into disjoint networks, from  *)
(* which the included ones become the routes of the VPN interface.         *)
(*                                                                         *)
(* An ipAddress is [first, mask, included] over Width-bit addresses (32    *)
(* for IPv4, 128 for IPv6); netAddress only matters through its masked     *)
(* first address.  compareTo and equals ignore included.                   *)
(*                                                                         *)
(* generateIPList is one action per turn of its loop.  The order in which  *)
(* java.util.PriorityQueue returns networks that compare equal is not      *)
(* specified, so Poll chooses.                                             *)
(***************************************************************************)
EXTENDS Naturals, FiniteSets, Bags

CONSTANTS
    Width,      \* address bits
    MaxNets     \* bound on the networks collected before generateIPList

ASSUME NetworkSpaceAssumption == Width \in Nat \ {0} /\ MaxNets \in Nat \ {0}

VARIABLES
    mIpAddresses,   \* the collected networks
    networks,       \* the PriorityQueue, a bag
    currentNet,     \* Null when there is none
    ipsDone,
    phase           \* "collect", "generate" (in generateIPList), "done"

vars == <<mIpAddresses, networks, currentNet, ipsDone, phase>>

Addresses == 0..(2^Width - 1)
ipAddress == [first : 0..2^Width, mask : 0..(Width + 1), included : BOOLEAN]

\* The networks a caller can pass: the base address is masked.
Networks == {n \in ipAddress : /\ n.mask <= Width
                               /\ n.first \in Addresses
                               /\ n.first % 2^(Width - n.mask) = 0}

Null == [first |-> 0, mask |-> Width + 2, included |-> FALSE]

getFirstAddress(n) == n.first

\* getMaskedAddress sets no bit of a network whose mask exceeds the width.
getLastAddress(n) ==
    IF n.mask > Width THEN n.first ELSE n.first + 2^(Width - n.mask) - 1

\* Mutant of Before: of two networks with one base the larger comes first.
LargerFirst(n, m) == n.first < m.first \/ (n.first = m.first /\ n.mask < m.mask)

\* compareTo: by first address, the smaller network first.
Before(n, m) == n.first < m.first \/ (n.first = m.first /\ n.mask > m.mask)
equals(n, m) == n.first = m.first /\ n.mask = m.mask

FirstHalf(n) == [n EXCEPT !.mask = n.mask + 1]
SecondHalf(n) == [FirstHalf(n) EXCEPT !.first = getLastAddress(FirstHalf(n)) + 1]

Adds(set, n) == IF \E m \in set : equals(n, m) THEN set ELSE set \cup {n}

Contains(bag, n) == \E m \in BagToSet(bag) : equals(n, m)
Queued(bag, n) == bag (+) SetToBag({n})
QueuedOnce(bag, n) == IF Contains(bag, n) THEN bag ELSE Queued(bag, n)

\* What poll() may return.
Polls(bag) == {n \in BagToSet(bag) : \A m \in BagToSet(bag) : ~Before(m, n)}
Polled(bag, n) == bag (-) SetToBag({n})

-----------------------------------------------------------------------------
Init ==
    /\ mIpAddresses = {}
    /\ networks = EmptyBag
    /\ currentNet = Null
    /\ ipsDone = {}
    /\ phase = "collect"

\* addIP and addIPv6: TreeSet.add keeps the network that is already there.
addIP(n) ==
    /\ phase = "collect"
    /\ Cardinality(mIpAddresses) < MaxNets
    /\ mIpAddresses' = Adds(mIpAddresses, n)
    /\ UNCHANGED <<networks, currentNet, ipsDone, phase>>

\* generateIPList up to its loop.
StartGenerate ==
    /\ phase = "collect"
    /\ mIpAddresses # {}
    /\ \E n \in Polls(SetToBag(mIpAddresses)) :
          /\ currentNet' = n
          /\ networks' = Polled(SetToBag(mIpAddresses), n)
    /\ phase' = "generate"
    /\ UNCHANGED <<mIpAddresses, ipsDone>>

\* The queue is empty: currentNet is the last one done, and the list is final.
LastNet ==
    /\ phase = "generate"
    /\ networks = EmptyBag
    /\ ipsDone' = Adds(ipsDone, currentNet)
    /\ currentNet' = Null
    /\ phase' = "done"
    /\ UNCHANGED <<mIpAddresses, networks>>

\* One turn of the loop with a next network n: the queue is rest afterwards.
Turn(n, rest) ==
    /\ phase = "generate"
    /\ n \in Polls(networks)
    /\ rest = Polled(networks, n)
    /\ UNCHANGED <<mIpAddresses, phase>>

\* Mutant of Overlaps: sharing only the last address is taken for no overlap.
OverlapsMore(n) == getLastAddress(currentNet) > getFirstAddress(n)

Overlaps(n) == getLastAddress(currentNet) >= getFirstAddress(n)
SmallerSameBase(n) == currentNet.first = n.first /\ currentNet.mask >= n.mask

\* No overlap.
NextIsLater(n, rest) ==
    /\ Turn(n, rest)
    /\ ~Overlaps(n)
    /\ ipsDone' = Adds(ipsDone, currentNet)
    /\ currentNet' = n
    /\ networks' = rest

\* currentNet is in the next network, of the same type: forget currentNet.
ForgetCurrent(n, rest) ==
    /\ Turn(n, rest)
    /\ Overlaps(n) /\ SmallerSameBase(n) /\ currentNet.included = n.included
    /\ currentNet' = n
    /\ networks' = rest
    /\ UNCHANGED ipsDone

\* Mutant of RequeueHalves: only the half that holds currentNet is kept.
RequeueFirstHalf(n, rest) == QueuedOnce(rest, FirstHalf(n))

\* Mutant of RequeueHalves: the network itself goes back, not its halves.
RequeueWhole(n, rest) == Queued(rest, n)

\* The halves of the next network n that go back to the queue.
RequeueHalves(n, rest) ==
    LET second == QueuedOnce(rest, SecondHalf(n))
    IN  IF getLastAddress(FirstHalf(n)) = getLastAddress(currentNet)
        THEN second ELSE QueuedOnce(second, FirstHalf(n))

\* currentNet is in the next network, of the other type: split the next one.
SplitNext(n, rest) ==
    /\ Turn(n, rest)
    /\ Overlaps(n) /\ SmallerSameBase(n) /\ currentNet.included # n.included
    /\ networks' = RequeueHalves(n, rest)
    /\ UNCHANGED <<currentNet, ipsDone>>

\* The next network is in currentNet, of the same type: ignore it.
IgnoreNext(n, rest) ==
    /\ Turn(n, rest)
    /\ Overlaps(n) /\ ~SmallerSameBase(n) /\ currentNet.included = n.included
    /\ networks' = rest
    /\ UNCHANGED <<currentNet, ipsDone>>

\* The next network is in currentNet, of the other type: split currentNet.
SplitCurrent(n, rest) ==
    /\ Turn(n, rest)
    /\ Overlaps(n) /\ ~SmallerSameBase(n) /\ currentNet.included # n.included
    /\ networks' = IF SecondHalf(currentNet).mask = n.mask
                   THEN Queued(rest, n)
                   ELSE Queued(Queued(rest, SecondHalf(currentNet)), n)
    /\ currentNet' = FirstHalf(currentNet)
    /\ UNCHANGED ipsDone

LoopTurn(n, rest) ==
    \/ NextIsLater(n, rest) \/ ForgetCurrent(n, rest) \/ SplitNext(n, rest)
    \/ IgnoreNext(n, rest) \/ SplitCurrent(n, rest)

generateIPList ==
    StartGenerate \/ LastNet
      \/ \E n \in BagToSet(networks) : LoopTurn(n, Polled(networks, n))

\* openTun clears the networks when the interface has been configured.
clear ==
    /\ phase = "done"
    /\ mIpAddresses' = {}
    /\ ipsDone' = {}
    /\ phase' = "collect"
    /\ UNCHANGED <<networks, currentNet>>

Next == (\E n \in Networks : addIP(n)) \/ generateIPList \/ clear

\* The loop runs to its end on one thread; openTun and its callers owe nothing.
Spec == Init /\ [][Next]_vars /\ WF_vars(generateIPList)

-----------------------------------------------------------------------------
getPositiveIPList == {n \in ipsDone : n.included}

Covers(n, a) == n.first <= a /\ a <= getLastAddress(n)
CoveredBy(set) == {a \in Addresses : \E n \in set : Covers(n, a)}

\* The reference: the most specific network that holds the address decides.
Wanted(a) ==
    \E n \in mIpAddresses :
        /\ Covers(n, a) /\ n.included
        /\ \A m \in mIpAddresses : Covers(m, a) => m.mask <= n.mask

\* The networks that the loop has not finished.
Pending == IF phase = "generate" THEN BagToSet(networks) \cup {currentNet} ELSE {}

TypeOK ==
    /\ mIpAddresses \subseteq Networks
    /\ \A n \in BagToSet(networks) : n \in ipAddress
    /\ currentNet \in ipAddress \cup {Null}
    /\ ipsDone \subseteq ipAddress
    /\ phase \in {"collect", "generate", "done"}

\* No turn of the loop drops an address that some network holds: forgetting,
\* ignoring and not re-adding a half only drop what another network still holds.
NoAddressLost ==
    phase # "collect" => CoveredBy(mIpAddresses) \subseteq CoveredBy(ipsDone \cup Pending)

\* Finished networks are disjoint and end before everything still to come, so
\* the interface never gets two routes for an address.
DoneIsDisjoint ==
    /\ \A n, m \in ipsDone : n = m \/ getLastAddress(n) < m.first \/ getLastAddress(m) < n.first
    /\ \A n \in ipsDone, m \in Pending : getLastAddress(n) < m.first

\* n is strictly inside m, as address ranges.
Inside(n, m) ==
    m.first <= n.first /\ getLastAddress(n) <= getLastAddress(m) /\ m.mask < n.mask

\* The other half of the network m is half of.
Buddy(m) == LET size == 2^(Width - m.mask)
            IN  [m EXCEPT !.first = IF (m.first \div size) % 2 = 0
                                    THEN m.first + size ELSE m.first - size]

\* An exception, a network inside one of the other type, and its buddy hold no
\* further network.
ExceptionsAreApart ==
    \A m, p \in mIpAddresses :
        (Inside(m, p) /\ m.included # p.included) =>
            \A n \in mIpAddresses : ~Inside(n, m) /\ ~Inside(n, Buddy(m))

RoutesAreWanted == CoveredBy(getPositiveIPList) = {a \in Addresses : Wanted(a)}

\* generateIPList routes an address into the VPN exactly when the most specific
\* network wants it, unless an exception has exceptions of its own.
RoutesMatch == (phase = "done" /\ ExceptionsAreApart) => RoutesAreWanted

\* The loop ends: every split makes progress.
Terminates == phase = "generate" ~> phase = "done"
=============================================================================
