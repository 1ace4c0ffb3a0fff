------------------------- MODULE NetworkConfiguration -------------------------
(***************************************************************************)
(* system::SystemNetworkConfiguration (src/framework/                      *)
(* SystemNetworkConfiguration.cpp): the lists of network interfaces and of *)
(* routes, filled by net::NetlinkRequester (src/framework/                 *)
(* NetlinkInterface.cpp) from three replies of the kernel, linked with     *)
(* each other by pointers, and searched and refilled by                    *)
(* GetBestRouteForIpAddress.                                               *)
(*                                                                         *)
(* One thread uses the object.  A pointer is the number of the list node   *)
(* it points to, 0 the null pointer.  The kernel sends a reply message by  *)
(* message in datagrams of any length, may change its tables between two   *)
(* replies, and may stop answering.                                        *)
(***************************************************************************)
EXTENDS Integers, SequencesExt

CONSTANTS Links,      \* links: [index, listed]; listed: up, and of a type asked for
          Addresses,  \* addresses: [index, family]
          Routes,     \* routes: [index, family, dst, priority, source]
          Sizes,      \* bound: a reply has Sizes[request] entries at most
          Capacity    \* Capacity[request] messages fill the buffer for a reply

Requests == {"links", "addresses", "routes"}
Families == {"unspec", "inet", "inet6"}

ASSUME NetworkAssumption ==
  /\ \A l \in Links : l.index \in Nat /\ l.listed \in BOOLEAN
  /\ \A a \in Addresses : a.index \in Nat /\ a.family \in {"inet", "inet6"}
  /\ \A r \in Routes :
       /\ r.index \in Nat /\ r.family \in {"inet", "inet6"} /\ r.priority \in Nat
       /\ r.dst \in {"default", "match", "other", "prohibited"} /\ r.source \in BOOLEAN
  /\ Sizes \in [Requests -> Nat] /\ Capacity \in [Requests -> Nat]

VARIABLES
  interfaces, routes,  \* networkInterfacesInfo, networkRoutesInfo
  interfaceFamily,
  made,                \* the number of the last list node
  pc,                  \* what the object is doing
  call,                \* the call in progress: its name, and the family of its IP address
  asked,               \* has the request been sent?
  socket, buffer,      \* the messages that the socket and the buffer for a reply hold
  cursor,              \* the iterator of the loops in Initialize
  best, alreadyUpdate, \* locals of GetBestRouteForIpAddress
  answer               \* what the last call returned

lists   == <<interfaces, routes, made>>
netlink == <<asked, socket, buffer>>
locals  == <<best, alreadyUpdate>>
vars    == <<lists, interfaceFamily, pc, call, netlink, cursor, locals, answer>>

Init ==
  /\ interfaces = <<>> /\ routes = <<>> /\ made = 0 /\ interfaceFamily = "unspec"
  /\ pc = "new" /\ call = [name |-> "none", ip |-> "none"]
  /\ asked = FALSE /\ socket = <<>> /\ buffer = <<>>
  /\ cursor = 1 /\ best = 0 /\ alreadyUpdate = FALSE /\ answer = [ok |-> FALSE, route |-> 0]

Return(ok, route) == pc' = "idle" /\ answer' = [ok |-> ok, route |-> route]

\* Initialize returns FALSE; a lookup whose Update fails returns nullptr.
Fail == Return(FALSE, 0)
Answer(route) == Return(route # 0, route)

-----------------------------------------------------------------------------
(* The lists                                                               *)

\* The interface of a route or an address: the first of these positions.
Found(list, index, family) ==
  {i \in DOMAIN list : list[i].index = index /\ list[i].family \in {"unspec", family}}
First(positions) == CHOOSE i \in positions : \A j \in positions : i <= j

NewInterface(link, n) ==
  [node |-> n, index |-> link.index,
   family |-> IF interfaceFamily = "inet6" THEN "inet6" ELSE "unspec",
   addresses |-> [inet |-> <<>>, inet6 |-> <<>>],
   routes |-> [inet |-> <<>>, inet6 |-> <<>>], default |-> 0]

NewRoute(route, n) ==
  [node |-> n, index |-> route.index, family |-> route.family, dst |-> route.dst,
   priority |-> route.priority, owner |-> 0,
   source |-> IF route.source THEN "kernel" ELSE "none"]

OfFamily(entry) == interfaceFamily \in {"unspec", entry.family}

\* The elements of a sequence that are in a set, in their order.
Kept(s, set) ==
  LET kept[n \in 0 .. Len(s)] ==
        IF n = 0 THEN <<>>
        ELSE IF s[n] \in set THEN Append(kept[n - 1], s[n]) ELSE kept[n - 1]
  IN  kept[Len(s)]

\* An address goes to the interface of its index; without one it is dropped.
OwnAddresses(i, family) ==
  {a \in Addresses :
     /\ OfFamily(a) /\ a.family = family
     /\ LET found == Found(interfaces, a.index, family) IN found # {} /\ First(found) = i}

Enriched(i, entries) ==
  [interfaces[i] EXCEPT !.addresses =
     [family \in {"inet", "inet6"} |-> @[family] \o Kept(entries, OwnAddresses(i, family))]]

\* What the parser of a reply does with the entries before its end: those that
\* are wanted, in their order, at the end of the list.
ParseLinks(entries) ==
  LET wanted == Kept(entries, {l \in Links : l.listed})
  IN  /\ interfaces' = interfaces \o [i \in DOMAIN wanted |-> NewInterface(wanted[i], made + i)]
      /\ made' = made + Len(wanted)
      /\ UNCHANGED routes

ParseAddresses(entries) ==
  /\ interfaces' = [i \in DOMAIN interfaces |-> Enriched(i, entries)]
  /\ UNCHANGED <<routes, made>>

ParseRoutes(entries) ==
  LET wanted == Kept(entries, {r \in Routes : OfFamily(r) /\ r.dst # "prohibited"})
  IN  /\ routes' = routes \o [i \in DOMAIN wanted |-> NewRoute(wanted[i], made + i)]
      /\ made' = made + Len(wanted)
      /\ UNCHANGED interfaces

-----------------------------------------------------------------------------
(* Requests to the kernel                                                  *)

Table(request) ==
  CASE request = "links" -> Links
    [] request = "addresses" -> Addresses
    [] request = "routes" -> Routes

Entry(x) == [type |-> "new", entry |-> x]
End(t)   == [type |-> t]

\* The kernel lists every link once.
Listings(request) ==
  {s \in SeqOf(Table(request), Sizes[request]) :
     request = "links" => \A i, j \in DOMAIN s : s[i].index = s[j].index => i = j}

\* A reply ends with Done, unless there is an error or a message that the parsers
\* do not know.
Reply(entries, t) == [i \in DOMAIN entries |-> Entry(entries[i])] \o <<End(t)>>

Replies(request) ==
  {Reply(entries, t) : entries \in Listings(request), t \in {"done", "error"}}
  \cup {<<End("other"), End("done")>>}

\* The requester is destroyed, and its socket with what that still holds.
Closed == asked' = FALSE /\ socket' = <<>> /\ buffer' = <<>>

\* The request is sent.
SendRequest ==
  /\ pc \in Requests /\ ~asked
  /\ pc = "addresses" => interfaces # <<>>
  /\ asked' = TRUE
  /\ \E reply \in Replies(pc) : socket' = socket \o reply
  /\ UNCHANGED <<lists, interfaceFamily, pc, call, buffer, cursor, locals, answer>>

\* ... or is not: there is no socket, it fails, or there is nothing to enrich.
SendRequestFails ==
  /\ pc \in Requests /\ ~asked
  /\ Fail /\ Closed
  /\ UNCHANGED <<lists, interfaceFamily, call, cursor, locals>>

\* NetlinkReceiveFunctor.
Complete(messages) == \E i \in DOMAIN messages : messages[i].type \in {"done", "error"}

\* Mutant: an error message ends a reply as Done does.
SucceedsAnyEnd(messages) == \A i \in DOMAIN messages : messages[i].type # "other"

\* What the parsers return: the first message that is no entry decides.
Succeeds(messages) ==
  \E i \in DOMAIN messages :
    messages[i].type = "done" /\ \A j \in 1 .. i - 1 : messages[j].type = "new"

\* The entries before it.
Entries(messages) ==
  LET n == Cardinality({i \in DOMAIN messages : \A j \in 1 .. i : messages[j].type = "new"})
  IN  [i \in 1 .. n |-> messages[i].entry]

\* The next request begins with an empty buffer, on the same socket.
Proceed ==
  /\ pc' = CASE pc = "links" -> "addresses" [] pc = "addresses" -> "routes" [] pc = "routes" -> "attach"
  /\ asked' = FALSE /\ buffer' = <<>> /\ cursor' = 1 /\ UNCHANGED answer

\* The next datagram, of k messages.  What does not fit into the buffer is lost,
\* and a full buffer ends the reception before the functor has seen it.
RecvPart(k) ==
  /\ pc \in Requests
  /\ LET messages == buffer \o SubSeq(socket, 1, k)
     IN  IF Len(messages) >= Capacity[pc] THEN Fail /\ Closed /\ UNCHANGED <<lists, cursor>>
         ELSE IF Complete(messages)
         THEN /\ CASE pc = "links" -> ParseLinks(Entries(messages))
                   [] pc = "addresses" -> ParseAddresses(Entries(messages))
                   [] pc = "routes" -> ParseRoutes(Entries(messages))
              /\ IF Succeeds(messages) THEN Proceed /\ socket' = SubSeq(socket, k + 1, Len(socket))
                 ELSE Fail /\ Closed /\ UNCHANGED cursor
         ELSE /\ buffer' = messages /\ socket' = SubSeq(socket, k + 1, Len(socket))
              /\ UNCHANGED <<lists, pc, asked, cursor, answer>>
  /\ UNCHANGED <<interfaceFamily, call, locals>>

\* The wait or the time limit ends, or recv fails.
RecvTimeout ==
  /\ pc \in Requests /\ asked
  /\ Fail /\ Closed
  /\ UNCHANGED <<lists, interfaceFamily, call, cursor, locals>>

-----------------------------------------------------------------------------
(* Initialize and Update                                                   *)

Initialize(family) ==
  /\ pc = "new"
  /\ call' = [name |-> "Initialize", ip |-> "none"]
  /\ IF family \in Families
     THEN interfaceFamily' = family /\ pc' = "links" /\ UNCHANGED answer
     ELSE UNCHANGED interfaceFamily /\ Return(FALSE, 0)
  /\ UNCHANGED <<lists, netlink, cursor, locals>>

\* Where the iterator of a loop is after it has been set to the result of erase
\* and moved on: behind the next element or, in a circular list, at the front
\* again when it has erased the last one.
AfterErase(list) == IF cursor = Len(list) THEN 1 ELSE cursor + 1

\* front() of an empty list of addresses is whatever is there.
SourceOf(route, interface) ==
  LET own == interface.addresses[route.family]
  IN  IF route.source # "none" THEN route.source
      ELSE IF own = <<>> THEN "garbage" ELSE "own"

Attached(interface, route) ==
  [interface EXCEPT !.routes[route.family] = Append(@, route.node),
                    !.default = IF route.dst = "default" /\ route.family = "inet"
                                THEN route.node ELSE @]

AttachRoute ==
  /\ pc = "attach" /\ cursor <= Len(routes)
  /\ LET route == routes[cursor]
         found == Found(interfaces, route.index, route.family)
         i     == First(found)
     IN  IF found = {}
         THEN /\ routes' = RemoveAt(routes, cursor) /\ cursor' = AfterErase(routes)
              /\ UNCHANGED interfaces
         ELSE /\ interfaces' = [interfaces EXCEPT ![i] = Attached(@, route)]
              /\ routes' = [routes EXCEPT ![cursor].owner = interfaces[i].node,
                                          ![cursor].source = SourceOf(route, interfaces[i])]
              /\ cursor' = cursor + 1
  /\ UNCHANGED <<made, interfaceFamily, pc, call, netlink, locals, answer>>

AttachDone ==
  /\ pc = "attach" /\ cursor > Len(routes)
  /\ pc' = "prune" /\ cursor' = 1
  /\ UNCHANGED <<lists, interfaceFamily, call, netlink, locals, answer>>

\* Mutant: an interface is removed unless it has routes of both families.
WithoutRoutesOfOne(interface) ==
  interface.routes.inet = <<>> \/ interface.routes.inet6 = <<>>

WithoutRoutes(interface) ==
  interface.routes.inet = <<>> /\ interface.routes.inet6 = <<>>

PruneInterface ==
  /\ pc = "prune" /\ cursor <= Len(interfaces)
  /\ IF WithoutRoutes(interfaces[cursor])
     THEN interfaces' = RemoveAt(interfaces, cursor) /\ cursor' = AfterErase(interfaces)
     ELSE cursor' = cursor + 1 /\ UNCHANGED interfaces
  /\ UNCHANGED <<routes, made, interfaceFamily, pc, call, netlink, locals, answer>>

PruneDone ==
  /\ pc = "prune" /\ cursor > Len(interfaces)
  /\ IF call.name = "Initialize" THEN Return(TRUE, 0) ELSE pc' = "scan" /\ UNCHANGED answer
  /\ UNCHANGED <<lists, interfaceFamily, call, netlink, cursor, locals>>

\* The nodes of a list that is cleared are free, and their numbers are used again
\* after the next Update.
Nodes == Sizes["links"] + Sizes["routes"]
Update ==
  /\ interfaces' = <<>> /\ routes' = <<>> /\ made' = IF made < Nodes THEN Nodes ELSE 0
  /\ interfaceFamily' = "unspec" /\ pc' = "links"

-----------------------------------------------------------------------------
(* GetBestRouteForIpAddress                                                *)

Lookup(ip) ==
  /\ pc = "idle"
  /\ call' = [name |-> "Lookup", ip |-> ip]
  /\ alreadyUpdate' = FALSE
  /\ IF interfaces = <<>> \/ ip = "none"
     THEN Answer(0) /\ best' = 0
     ELSE pc' = "scan" /\ best' = interfaces[1].default /\ UNCHANGED answer
  /\ UNCHANGED <<lists, interfaceFamily, netlink, cursor>>

Live(n)     == \E i \in DOMAIN routes : routes[i].node = n
Route(n)    == routes[CHOOSE i \in DOMAIN routes : routes[i].node = n]
Priority(n) == IF Live(n) THEN Route(n).priority ELSE 0

\* What a loop that replaces its route only by one of a lower priority ends with.
Best(numbers) ==
  LET some == {i \in DOMAIN numbers : numbers[i] # 0}
      least == {i \in some : \A j \in some : Priority(numbers[i]) <= Priority(numbers[j])}
  IN  IF some = {} THEN 0 ELSE numbers[First(least)]

Candidates ==
  Kept(FlattenSeq([i \in DOMAIN interfaces |-> interfaces[i].routes.inet]),
       {routes[i].node : i \in {i \in DOMAIN routes : routes[i].dst = "match"}})
DefaultRoute == Best(<<best>> \o [i \in DOMAIN interfaces |-> interfaces[i].default])

NotImplemented == call.ip = "inet6" \/ \E i \in DOMAIN interfaces : interfaces[i].family = "inet6"

\* Mutant: the lists are updated although there is a default route.
NothingMatches == Candidates = <<>>

NothingFound == Candidates = <<>> /\ DefaultRoute = 0

\* Mutant: alreadyUpdate is not set.
ScanAgain ==
  /\ pc = "scan"
  /\ best' = DefaultRoute
  /\ IF NotImplemented THEN Answer(0) /\ UNCHANGED <<lists, interfaceFamily>>
     ELSE IF NothingFound THEN Update /\ UNCHANGED answer
     ELSE /\ Answer(IF Candidates = <<>> THEN DefaultRoute ELSE Best(Candidates))
          /\ UNCHANGED <<lists, interfaceFamily>>
  /\ UNCHANGED <<call, netlink, cursor, alreadyUpdate>>

\* One round of the loop; best keeps its value over Update.
Scan ==
  /\ pc = "scan"
  /\ best' = DefaultRoute
  /\ IF NotImplemented \/ (NothingFound /\ alreadyUpdate)
     THEN Answer(0) /\ UNCHANGED <<lists, interfaceFamily, alreadyUpdate>>
     ELSE IF NothingFound
     THEN Update /\ alreadyUpdate' = TRUE /\ UNCHANGED answer
     ELSE /\ Answer(IF Candidates = <<>> THEN DefaultRoute ELSE Best(Candidates))
          /\ UNCHANGED <<lists, interfaceFamily, alreadyUpdate>>
  /\ UNCHANGED <<call, netlink, cursor>>

-----------------------------------------------------------------------------
Step ==
  \/ SendRequest \/ SendRequestFails \/ RecvTimeout
  \/ \E k \in 1 .. Len(socket) : RecvPart(k)
  \/ AttachRoute \/ AttachDone \/ PruneInterface \/ PruneDone \/ Scan

Next ==
  \/ \E family \in Families \cup {"other"} : Initialize(family)
  \/ \E ip \in {"inet", "inet6", "none"} : Lookup(ip)
  \/ Step

\* The thread inside a call runs on.
Spec == Init /\ [][Next]_vars /\ WF_vars(Step)

-----------------------------------------------------------------------------
(* Properties                                                              *)

Elements(list) == {list[i] : i \in DOMAIN list}

(* Whatever the kernel's replies leave out, whatever the loops erase and   *)
(* whichever request fails, no pointer dangles: a route that an interface  *)
(* lists is in the list of routes and names that interface as its owner,   *)
(* an owner is in the list of interfaces and lists its route, and the      *)
(* source address of a route is the kernel's or one of its owner's, if it  *)
(* has any (SystemNetworkConfiguration.cpp:45-82, 89-90).                  *)
PointersLive ==
  /\ \A interface \in Elements(interfaces), family \in {"inet", "inet6"} :
       \A n \in Elements(interface.routes[family]) :
         Live(n) /\ Route(n).owner = interface.node /\ Route(n).family = family
  /\ \A interface \in Elements(interfaces) :
       interface.default # 0 => interface.default \in Elements(interface.routes.inet)
  /\ \A route \in Elements(routes) :
       route.owner # 0 =>
         \E interface \in Elements(interfaces) :
           /\ interface.node = route.owner
           /\ route.node \in Elements(interface.routes[route.family])
           /\ route.source = "own" => interface.addresses[route.family] # <<>>
           /\ route.source # "none"

(* "Method that returns the best network route for selected IP address"    *)
(* (SystemNetworkConfiguration.hpp:74).  The route that is returned exists, *)
(* also after Update, and has an owner.  If routes match it is one of      *)
(* them and none of them is better.  Else it is a default route; a better  *)
(* one has been overwritten by another default route of its interface      *)
(* (SystemNetworkConfiguration.cpp:59-61), one that is no better than the  *)
(* route returned.  nullptr means that there is none, or that IPv6 comes   *)
(* into it.                                                                *)
BestRoute ==
  pc = "idle" /\ call.name = "Lookup" /\ call.ip # "none" =>
    LET routed   == {r \in Elements(routes) : r.owner # 0 /\ r.family = "inet"}
        matches  == {r \in routed : r.dst = "match"}
        defaults == {r \in routed : r.dst = "default"}
    IN  IF answer.route = 0
        THEN NotImplemented \/ \A r \in routed : r.dst = "other"
        ELSE \E r \in routed :
               /\ r.node = answer.route
               /\ IF matches # {} THEN r \in matches /\ \A q \in matches : r.priority <= q.priority
                  ELSE /\ r \in defaults
                       /\ \A q \in defaults :
                            q.priority < r.priority =>
                              \E other \in defaults \ {q} :
                                other.owner = q.owner /\ r.priority <= other.priority

(* The next request is sent when all of the last reply is there, up to its *)
(* Done: since nothing compares sequence numbers, an answer must not find  *)
(* the rest of another in front of it (NetlinkInterface.cpp:60-70,         *)
(* 495-509).                                                               *)
AllReceived  == socket' = <<>> /\ Last(socket).type = "done"
RepliesWhole == [][(pc \in Requests /\ pc' \notin {pc, "idle"}) => AllReceived]_vars

(* Every call returns, although the loops of Initialize start again at the *)
(* front when they have erased the last element, and a lookup starts again *)
(* after Update (SystemNetworkConfiguration.cpp:45-82, 107-144).           *)
CallsReturn == (pc \notin {"new", "idle"}) ~> (pc = "idle")
=============================================================================
