------------------------- MODULE ConfigurationProofs -------------------------
(* What holds of Configuration for every file: the types, and that the     *)
(* routes of a file that was accepted lead to consumers that exist.        *)
EXTENDS Configuration, TLAPS

USE DEF Sections, DataSections, Inside

(* A partial function that is given one more value is one.                 *)
LEMMA PartialGrows ==
    ASSUME NEW S, NEW T, NEW f, IsPartial(f, S, T), NEW x \in S, NEW y \in T
    PROVE  /\ IsPartial(Insert(f, x, y), S, T)
           /\ DOMAIN Insert(f, x, y) = DOMAIN f \cup {x}
  BY DEF IsPartial, Insert

LEMMA HostsGrow ==
    ASSUME NEW f, IsPartial(f, Members, SUBSET Members), NEW x \in Members
    PROVE  /\ IsPartial(Insert(f, x, {}), Members, SUBSET Members)
           /\ x \in DOMAIN Insert(f, x, {})
  BY DEF IsPartial, Insert

LEMMA PartialEmpty ==
    ASSUME NEW S, NEW T
    PROVE  IsPartial(Empty, S, T) /\ DOMAIN Empty = {}
  BY DEF IsPartial, Empty

(* A client stays one when one of its fields changes.                      *)
LEMMA ClientStarts == IsClient(NewClient)
  BY PartialEmpty DEF IsClient, NewClient

LEMMA ClientChanges ==
    ASSUME NEW c, IsClient(c), NEW x
    PROVE  /\ x \subseteq Types => IsClient([c EXCEPT !.auth = x])
           /\ x \subseteq {<<r[2], r[3]>> : r \in Routes} => IsClient([c EXCEPT !.routes = x])
           /\ IsPartial(x, Members, SUBSET Members) => IsClient([c EXCEPT !.allowed = x])
           /\ [c EXCEPT !.allowed = x].allowed = x
           /\ [c EXCEPT !.auth = x].allowed = c.allowed
           /\ [c EXCEPT !.routes = x].allowed = c.allowed
  BY DEF IsClient

(* A map from names to clients stays one when one client changes, or a new *)
(* one comes.                                                              *)
ClientsOk(m) ==
    /\ m = [c \in DOMAIN m |-> m[c]] /\ DOMAIN m \subseteq Names
    /\ \A c \in DOMAIN m : IsClient(m[c])

LEMMA ClientsChange ==
    ASSUME NEW m, ClientsOk(m), NEW c \in DOMAIN m, NEW x, IsClient(x)
    PROVE  /\ ClientsOk([m EXCEPT ![c] = x])
           /\ DOMAIN [m EXCEPT ![c] = x] = DOMAIN m
           /\ [m EXCEPT ![c] = x][c] = x
  BY DEF ClientsOk

LEMMA ClientsGrow ==
    ASSUME NEW m, ClientsOk(m), NEW c \in Names
    PROVE  ClientsOk(Insert(m, c, NewClient)) /\ DOMAIN Insert(m, c, NewClient) = DOMAIN m \cup {c}
  BY ClientStarts DEF ClientsOk, Insert

-----------------------------------------------------------------------------
(* The types                                                               *)

LEMMA NoIdIsNoStar == NoId # "*"
  BY DEF NoId

LEMMA BoundIsNat == MaxElements \in Nat
  BY ConfigurationAssumption

(* The maps of an empty file have their types.                             *)
LEMMA EmptyMaps ==
    ASSUME NEW g, NEW i, g = [s \in Sections |-> {}], i = [s \in DataSections |-> Empty]
    PROVE  /\ g \in [Sections -> SUBSET (Groups \cup {NoId})]
           /\ i = [s \in DataSections |-> i[s]]
           /\ \A s \in DataSections : IsPartial(i[s], Names, Types)
           /\ ClientsOk(Empty)
<1>1. g \in [Sections -> SUBSET (Groups \cup {NoId})] /\ i = [s \in DataSections |-> i[s]]
  OBVIOUS
<1>2. \A s \in DataSections : IsPartial(i[s], Names, Types)
  BY PartialEmpty
<1>3. Empty = [c \in DOMAIN Empty |-> Empty[c]] /\ DOMAIN Empty = {}
  BY DEF Empty
<1>4. ClientsOk(Empty)
  BY <1>3 DEF ClientsOk
<1> QED
  BY <1>1, <1>2, <1>4

LEMMA InitIsTyped == Init => TypeOK
<1> SUFFICES ASSUME Init PROVE TypeOK
  OBVIOUS
<1>1. open = "start" /\ group = NoId /\ host = NoId /\ routes = {} /\ late = FALSE /\ elements = 0
  BY DEF Init
<1>2. /\ groups \in [Sections -> SUBSET (Groups \cup {NoId})]
      /\ items = [s \in DataSections |-> items[s]]
      /\ \A s \in DataSections : IsPartial(items[s], Names, Types)
      /\ ClientsOk(clients)
  BY EmptyMaps DEF Init
<1>3. /\ open \in {"start", "refused"} /\ routes \subseteq Routes
      /\ elements \in 0..MaxElements
  BY <1>1, BoundIsNat
<1>4. group \in Groups \cup {NoId} /\ host \in Members \cup {NoId}
  BY <1>1
<1>5. late \in BOOLEAN
  BY <1>1
<1> QED
  BY <1>2, <1>3, <1>4, <1>5 DEF TypeOK, ClientsOk

LEMMA RefusedIsTyped == Refuse => TypeOK'
<1> SUFFICES ASSUME Refuse PROVE TypeOK'
  OBVIOUS
<1>1. /\ open' = "refused" /\ group' = NoId /\ host' = NoId /\ routes' = {}
      /\ late' = FALSE /\ elements' = 0
  BY DEF Refuse
<1>2. /\ groups' \in [Sections -> SUBSET (Groups \cup {NoId})]
      /\ items' = [s \in DataSections |-> items'[s]]
      /\ \A s \in DataSections : IsPartial(items'[s], Names, Types)
      /\ ClientsOk(clients')
  BY EmptyMaps DEF Refuse
<1>3. /\ open' \in {"start", "refused"} /\ routes' \subseteq Routes
      /\ elements' \in 0..MaxElements
  BY <1>1, BoundIsNat
<1>4. group' \in Groups \cup {NoId} /\ host' \in Members \cup {NoId}
  BY <1>1
<1>5. late' \in BOOLEAN
  BY <1>1
<1> QED
  BY <1>2, <1>3, <1>4, <1>5 DEF TypeOK, ClientsOk

LEMMA NextIsTyped == TypeOK /\ [Next]_vars => TypeOK'
<1> SUFFICES ASSUME TypeOK, [Next]_vars PROVE TypeOK'
  OBVIOUS
<1> USE DEF TypeOK
<1>0. ClientsOk(clients)
  BY DEF ClientsOk
<1>1. ASSUME NEW s \in Sections, NEW id \in Groups \cup {NoId}, ParseSection(s, id)
      PROVE  TypeOK'
  <2>1. open' \in DOMAIN Parent /\ open' \notin Inside /\ group' \in Groups \cup {NoId}
    BY <1>1 DEF ParseSection, Parent
  <2>2. groups' \in [Sections -> SUBSET (Groups \cup {NoId})]
    BY <1>1 DEF ParseSection
  <2> QED
    BY <1>1, <2>1, <2>2 DEF ParseSection
<1>2. ASSUME NEW id \in Members, NEW type \in Types, ParseData(id, type)
      PROVE  TypeOK'
  <2> DEFINE new == Insert(items[open], <<group, id>>, type)
  <2>1. open \in DataSections /\ items' = [items EXCEPT ![open] = new]
    BY <1>2 DEF ParseData
  <2>2. IsPartial(new, Names, Types)
    BY <2>1, PartialGrows DEF Names
  <2>3. /\ items' = [s \in DataSections |-> items'[s]]
        /\ \A s \in DataSections : IsPartial(items'[s], Names, Types)
    <3> HIDE DEF new
    <3> QED
      BY <2>1, <2>2
  <2>4. groups' \in [Sections -> SUBSET (Groups \cup {NoId})]
    BY <1>2 DEF ParseData
  <2>5. elements' \in 0..MaxElements
    BY <1>2, BoundIsNat DEF ParseData, Counted
  <2> QED
    BY <1>2, <2>3, <2>4, <2>5 DEF ParseData, locals
<1>3. ASSUME NEW id \in Members, ParseClient(id)
      PROVE  TypeOK'
  <2>1. <<group, id>> \in Names
    BY DEF Names
  <2>2. ClientsOk(clients') /\ client' \in DOMAIN clients'
    <3>1. clients' = Insert(clients, <<group, id>>, NewClient) /\ client' = <<group, id>>
      BY <1>3 DEF ParseClient
    <3>2. /\ ClientsOk(Insert(clients, <<group, id>>, NewClient))
          /\ <<group, id>> \in DOMAIN Insert(clients, <<group, id>>, NewClient)
      <4> HIDE DEF TypeOK
      <4> QED
        BY <1>0, <2>1, ClientsGrow
    <3> QED
      BY <3>1, <3>2
  <2>3. groups' \in [Sections -> SUBSET (Groups \cup {NoId})]
    BY <1>3 DEF ParseClient
  <2>4. elements' \in 0..MaxElements
    BY <1>3, BoundIsNat DEF ParseClient, Counted
  <2>5. late' \in BOOLEAN
    BY <1>3 DEF ParseClient
  <2>6. open' = "client" /\ UNCHANGED <<group, host, items, routes>>
    BY <1>3 DEF ParseClient
  <2> QED
    BY <2>2, <2>3, <2>4, <2>5, <2>6 DEF ClientsOk, Parent
<1>4. ASSUME NEW t \in {"aaa_data", "hosts"}, ParsePart(t)
      PROVE  TypeOK'
  BY <1>4 DEF ParsePart, Parent, locals, maps
<1>5. ASSUME NEW type \in Types, ParseAAAModule(type)
      PROVE  TypeOK'
  <2> DEFINE new == [clients[client] EXCEPT !.auth = @ \cup {type}]
  <2>1. open = "aaa_data" /\ client \in DOMAIN clients /\ clients' = [clients EXCEPT ![client] = new]
    BY <1>5 DEF ParseAAAModule
  <2>2. IsClient(clients[client]) /\ clients[client].auth \subseteq Types
    BY <2>1 DEF IsClient
  <2>3. IsClient(new)
    BY <2>2, ClientChanges
  <2>4. ClientsOk(clients') /\ client \in DOMAIN clients'
    <3> HIDE DEF new
    <3> QED
      BY <1>0, <2>1, <2>3, ClientsChange
  <2>5. elements' \in 0..MaxElements
    BY <1>5, BoundIsNat DEF ParseAAAModule, Counted
  <2>6. UNCHANGED <<open, locals, groups, items, routes, late>>
    BY <1>5 DEF ParseAAAModule
  <2> QED
    BY <2>1, <2>4, <2>5, <2>6 DEF ClientsOk, locals
<1>6. ASSUME NEW name \in Members, ParseHost(name)
      PROVE  TypeOK'
  <2> DEFINE hosts == Insert(clients[client].allowed, name, {})
             new == [clients[client] EXCEPT !.allowed = hosts]
  <2>1. open = "hosts" /\ client \in DOMAIN clients /\ clients' = [clients EXCEPT ![client] = new]
    BY <1>6 DEF ParseHost
  <2>2. IsClient(clients[client]) /\ IsPartial(clients[client].allowed, Members, SUBSET Members)
    BY <2>1 DEF IsClient
  <2>3. IsPartial(hosts, Members, SUBSET Members) /\ name \in DOMAIN hosts
    BY <2>2, HostsGrow
  <2>4. IsClient(new) /\ new.allowed = hosts
    <3> HIDE DEF hosts
    <3> QED
      BY <2>2, <2>3, ClientChanges
  <2>5. ClientsOk(clients') /\ client \in DOMAIN clients' /\ clients'[client] = new
    <3> HIDE DEF new
    <3> QED
      BY <1>0, <2>1, <2>4, ClientsChange
  <2>6. elements' \in 0..MaxElements
    BY <1>6, BoundIsNat DEF ParseHost, Counted
  <2>7. open' = "host" /\ host' = name /\ UNCHANGED <<group, client, groups, items, routes, late>>
    BY <1>6 DEF ParseHost
  <2> HIDE DEF new, hosts
  <2> QED
    BY <2>3, <2>4, <2>5, <2>6, <2>7 DEF ClientsOk, Parent
<1>7. ASSUME NEW name \in Members, ParseService(name)
      PROVE  TypeOK'
  <2> DEFINE hosts == [clients[client].allowed EXCEPT ![host] = @ \cup {name}]
             new == [clients[client] EXCEPT !.allowed = hosts]
  <2>1. /\ open = "host" /\ client \in DOMAIN clients
        /\ host \in DOMAIN clients[client].allowed
        /\ clients' = [clients EXCEPT ![client] = new]
    BY <1>7 DEF ParseService
  <2>2. IsClient(clients[client]) /\ IsPartial(clients[client].allowed, Members, SUBSET Members)
    BY <2>1 DEF IsClient
  <2>3. IsPartial(hosts, Members, SUBSET Members) /\ host \in DOMAIN hosts
    BY <2>1, <2>2 DEF IsPartial
  <2>4. IsClient(new) /\ new.allowed = hosts
    <3> HIDE DEF hosts
    <3> QED
      BY <2>2, <2>3, ClientChanges
  <2>5. ClientsOk(clients') /\ client \in DOMAIN clients' /\ clients'[client] = new
    <3> HIDE DEF new
    <3> QED
      BY <1>0, <2>1, <2>4, ClientsChange
  <2>6. elements' \in 0..MaxElements
    BY <1>7, BoundIsNat DEF ParseService, Counted
  <2>7. UNCHANGED <<open, group, client, host, groups, items, routes, late>>
    BY <1>7 DEF ParseService, locals
  <2> HIDE DEF new, hosts
  <2> QED
    BY <2>1, <2>3, <2>4, <2>5, <2>6, <2>7 DEF ClientsOk
<1>8. CASE EndElement
  <2>1. /\ open' \in DOMAIN Parent \cup {"nsca_config"}
        /\ open' \in Inside => open \in Inside /\ open # "client"
        /\ open' # "host"
    BY <1>8 DEF EndElement, Parent
  <2>2. group' \in Groups \cup {NoId} /\ host' \in Members \cup {NoId}
    BY <1>8 DEF EndElement
  <2>3. open # "client" => client' = client
    BY <1>8 DEF EndElement
  <2> QED
    BY <1>8, <2>1, <2>2, <2>3 DEF EndElement, maps
<1>9. ASSUME NEW r \in Routes, ParseRoute(r[1], r[2], r[3])
      PROVE  TypeOK'
  <2> DEFINE with(c) == [clients[c] EXCEPT !.routes = @ \cup {<<r[2], r[3]>>}]
  <2>1. clients' = [c \in DOMAIN clients |-> IF c \in Submitted(r[1]) THEN with(c) ELSE clients[c]]
    BY <1>9 DEF ParseRoute
  <2>2. \A c \in DOMAIN clients : IsClient(with(c))
    <3> SUFFICES ASSUME NEW c \in DOMAIN clients PROVE IsClient(with(c))
      OBVIOUS
    <3>1. IsClient(clients[c]) /\ clients[c].routes \subseteq {<<q[2], q[3]>> : q \in Routes}
      BY DEF IsClient
    <3>2. clients[c].routes \cup {<<r[2], r[3]>>} \subseteq {<<q[2], q[3]>> : q \in Routes}
      BY <3>1
    <3> QED
      BY <3>1, <3>2, ClientChanges
  <2>3. ClientsOk(clients')
    <3> HIDE DEF with
    <3> QED
      BY <2>1, <2>2 DEF ClientsOk
  <2>4. routes' \subseteq Routes
    <3>1. \A q \in Routes : q = <<q[1], q[2], q[3]>>
      BY ConfigurationAssumption
    <3> QED
      BY <1>9, <3>1 DEF ParseRoute
  <2>5. open = "routes" /\ UNCHANGED <<open, group, client, host, groups, items, late, elements>>
    BY <1>9 DEF ParseRoute, locals
  <2> QED
    BY <2>3, <2>4, <2>5 DEF ClientsOk
<1>10. CASE ParseXMLConf \/ ParseRoutes
  BY <1>10 DEF ParseXMLConf, ParseRoutes, Parent, locals, maps
<1>11. CASE CheckProgramConfiguration
  BY <1>11, RefusedIsTyped DEF CheckProgramConfiguration, locals, maps
<1>12. CASE ParseError \/ \E id \in Members \cup Types : ParseTwice(id)
  BY <1>12, RefusedIsTyped DEF ParseError, ParseTwice
<1>13. CASE UNCHANGED vars
  BY <1>13 DEF vars, maps
<1> QED
  BY <1>1, <1>2, <1>3, <1>4, <1>5, <1>6, <1>7, <1>8, <1>9, <1>10, <1>11, <1>12, <1>13 DEF Next

(* Every variable has its type, whatever is in the file; the parser knows  *)
(* the client and the host it is in.                                       *)
THEOREM TypeCorrect == Spec => []TypeOK
  BY InitIsTyped, NextIsTyped, PTL DEF Spec

-----------------------------------------------------------------------------
(* The routes                                                              *)

(* What was accepted has passed the check, and stays as it is.             *)
Checked ==
    open = "accepted" => \A c \in DOMAIN clients : ClientOk(clients[c])

LEMMA NextIsChecked == Checked /\ [Next]_vars => Checked'
<1> SUFFICES ASSUME Checked, [Next]_vars, open' = "accepted"
             PROVE  \A c \in DOMAIN clients' : ClientOk(clients[c])'
  BY DEF Checked
<1>1. /\ open = "accepted" \/ \A c \in DOMAIN clients : ClientOk(clients[c])
      /\ UNCHANGED maps
  <2>1. CASE CheckProgramConfiguration
    BY <2>1 DEF CheckProgramConfiguration, Refuse
  <2>2. CASE UNCHANGED vars
    BY <2>2 DEF vars
  <2>3. ASSUME NEW s \in Sections, NEW id \in Groups \cup {NoId}, ParseSection(s, id)
        PROVE  FALSE
    BY <2>3 DEF ParseSection
  <2>4. ASSUME NEW id \in Members, NEW type \in Types, ParseData(id, type)
        PROVE  FALSE
    BY <2>4 DEF ParseData
  <2>5. ASSUME NEW t \in {"aaa_data", "hosts"}, ParsePart(t)
        PROVE  FALSE
    BY <2>5 DEF ParsePart
  <2>6. CASE EndElement
    BY <2>6 DEF EndElement, Parent
  <2>7. CASE \/ ParseError \/ ParseXMLConf \/ ParseRoutes
             \/ \E id \in Members \cup Types : ParseTwice(id)
    BY <2>7 DEF ParseError, ParseXMLConf, ParseRoutes, ParseTwice, Refuse
  <2>8. CASE \/ \E id \in Members : ParseClient(id)
             \/ \E type \in Types : ParseAAAModule(type)
             \/ \E name \in Members : ParseHost(name) \/ ParseService(name)
             \/ \E r \in Routes : ParseRoute(r[1], r[2], r[3])
    BY <2>8 DEF ParseClient, ParseAAAModule, ParseHost, ParseService, ParseRoute
  <2> QED
    BY <2>1, <2>2, <2>3, <2>4, <2>5, <2>6, <2>7, <2>8 DEF Next
<1>2. \A c \in DOMAIN clients : ClientOk(clients[c])
  BY <1>1 DEF Checked
<1> QED
  BY <1>1, <1>2 DEF maps, ClientOk, RouteEndsExist, Exists

(* A provider's group is not "*", and neither is that of a name without a  *)
(* member: so every route that getRoutes takes has an end that was checked.*)
LEMMA TakenEndsExist ==
    ASSUME TypeOK, Checked, open = "accepted",
           NEW c \in DOMAIN clients, NEW p \in DOMAIN items["data_providers"],
           NEW to \in ConsumersRaw(c, p)
    PROVE  Exists(to, "data_consumers")
<1>1. PICK r \in clients[c].routes : r[1] \in {p, <<Group(p)>>, Star} /\ to = r[2]
  BY DEF ConsumersRaw
<1>2. Group(r[1]) # "*"
  <2>1. p \in Names
    BY DEF TypeOK, IsPartial
  <2>2. Group(p) # "*"
    BY <2>1, NoIdIsNoStar, ConfigurationAssumption DEF Names, Group
  <2>3. Group(<<Group(p)>>) = NoId /\ Group(Star) = NoId
    BY DEF Group, Star
  <2> QED
    BY <1>1, <2>2, <2>3, NoIdIsNoStar
<1>3. RouteEndsExist(r[1], r[2])
  BY <1>1 DEF Checked, ClientOk
<1> QED
  BY <1>1, <1>2, <1>3 DEF RouteEndsExist

LEMMA CheckedLeadsSomewhere == TypeOK /\ Checked => RoutesLeadSomewhere
<1> SUFFICES ASSUME TypeOK, Checked, open = "accepted",
                    NEW c \in DOMAIN clients, NEW p \in DOMAIN items["data_providers"],
                    NEW to \in GetRoutes(c, p)
             PROVE  to \in DOMAIN items["data_consumers"]
  BY DEF RoutesLeadSomewhere
<1>1. CASE to \in ConsumersRaw(c, p) /\ Member(to) # NoId
  BY <1>1, TakenEndsExist DEF Exists
<1>2. CASE ~(to \in ConsumersRaw(c, p) /\ Member(to) # NoId)
  BY <1>2 DEF GetRoutes, Of
<1> QED
  BY <1>1, <1>2

(* A session that asks for the destinations of a client gets consumers     *)
(* that exist, for every file that was accepted.                           *)
THEOREM RoutesAlwaysLeadSomewhere == Spec => []RoutesLeadSomewhere
<1>1. Init => TypeOK /\ Checked
  BY InitIsTyped DEF Init, Checked
<1> QED
  BY <1>1, NextIsTyped, NextIsChecked, CheckedLeadsSomewhere, PTL DEF Spec

-----------------------------------------------------------------------------
(* Names in full                                                           *)

(* While no client has come after a route, each client has exactly the     *)
(* routes that were submitted to it.                                       *)
EachHasItsRoutes ==
    ~late => \A c \in DOMAIN clients :
                clients[c].routes = {<<r[2], r[3]>> : r \in {q \in routes : c \in Submitted(q[1])}}

(* The routes of the clients, to whom they were submitted, and what was    *)
(* read: all that the invariant is about.                                  *)
RoutesKept ==
    /\ DOMAIN clients' = DOMAIN clients
    /\ \A c \in DOMAIN clients : clients'[c].routes = clients[c].routes
    /\ routes' = routes /\ late' = late

LEMMA KeptIsKept == EachHasItsRoutes /\ RoutesKept => EachHasItsRoutes'
  BY DEF EachHasItsRoutes, RoutesKept, Submitted

LEMMA RefusedHasNone == Refuse => EachHasItsRoutes'
  BY PartialEmpty DEF Refuse, EachHasItsRoutes

(* A client that comes while there is no route has none to get.            *)
LEMMA ClientComes ==
    ASSUME EachHasItsRoutes, NEW id \in Members, ParseClient(id)
    PROVE  EachHasItsRoutes'
<1> SUFFICES ASSUME ~late', NEW c \in DOMAIN clients'
             PROVE  clients'[c].routes = {}
                    /\ routes' = {}
  BY DEF EachHasItsRoutes
<1>1. routes = {} /\ routes' = {} /\ ~late
  BY DEF ParseClient
<1>2. clients' = Insert(clients, <<group, id>>, NewClient)
  BY DEF ParseClient
<1>3. CASE c \in DOMAIN clients
  BY <1>1, <1>2, <1>3 DEF EachHasItsRoutes, Insert
<1>4. CASE c \notin DOMAIN clients
  <2>1. clients'[c] = NewClient
    BY <1>2, <1>4 DEF Insert
  <2> QED
    BY <1>1, <2>1 DEF NewClient
<1> QED
  BY <1>1, <1>3, <1>4

(* A route goes to the clients to which it is submitted.                   *)
LEMMA RouteComes ==
    ASSUME TypeOK, EachHasItsRoutes, NEW r \in Routes, ParseRoute(r[1], r[2], r[3])
    PROVE  EachHasItsRoutes'
<1> DEFINE with(c) == [clients[c] EXCEPT !.routes = @ \cup {<<r[2], r[3]>>}]
           of(c, all) == {<<q[2], q[3]>> : q \in {q \in all : c \in Submitted(q[1])}}
<1>1. r = <<r[1], r[2], r[3]>>
  BY ConfigurationAssumption
<1>2. routes' = routes \cup {r} /\ late' = late
  BY <1>1 DEF ParseRoute
<1>3. clients' = [c \in DOMAIN clients |-> IF c \in Submitted(r[1]) THEN with(c) ELSE clients[c]]
  BY DEF ParseRoute
<1>4. \A f : Submitted(f)' = Submitted(f)
  BY <1>3 DEF Submitted
<1> SUFFICES ASSUME ~late, NEW c \in DOMAIN clients
             PROVE  clients'[c].routes = of(c, routes')
  BY <1>2, <1>3, <1>4 DEF EachHasItsRoutes
<1>5. clients[c].routes = of(c, routes) /\ with(c).routes = clients[c].routes \cup {<<r[2], r[3]>>}
  BY DEF EachHasItsRoutes, TypeOK, IsClient
<1>6. CASE c \in Submitted(r[1])
  <2>1. of(c, routes') = of(c, routes) \cup {<<r[2], r[3]>>}
    BY <1>2, <1>6
  <2>2. clients'[c].routes = with(c).routes
    BY <1>3, <1>6
  <2> QED
    BY <1>5, <2>1, <2>2
<1>7. CASE c \notin Submitted(r[1])
  BY <1>2, <1>3, <1>5, <1>7
<1> QED
  BY <1>6, <1>7

LEMMA NextKeepsRoutes == TypeOK /\ EachHasItsRoutes /\ [Next]_vars => EachHasItsRoutes'
<1> SUFFICES ASSUME TypeOK, EachHasItsRoutes, [Next]_vars PROVE EachHasItsRoutes'
  OBVIOUS
<1>1. ASSUME NEW type \in Types, ParseAAAModule(type)
      PROVE  RoutesKept
  BY <1>1 DEF ParseAAAModule, RoutesKept, TypeOK, IsClient
<1>2. ASSUME NEW name \in Members, ParseHost(name) \/ ParseService(name)
      PROVE  RoutesKept
  BY <1>2 DEF ParseHost, ParseService, RoutesKept, TypeOK, IsClient
<1>3. ASSUME NEW s \in Sections, NEW id \in Groups \cup {NoId}, ParseSection(s, id)
      PROVE  RoutesKept
  BY <1>3 DEF ParseSection, RoutesKept
<1>4. ASSUME NEW id \in Members, NEW type \in Types, ParseData(id, type)
      PROVE  RoutesKept
  BY <1>4 DEF ParseData, RoutesKept
<1>5. CASE \/ EndElement \/ ParseXMLConf \/ ParseRoutes \/ UNCHANGED vars
           \/ \E t \in {"aaa_data", "hosts"} : ParsePart(t)
  BY <1>5, KeptIsKept
     DEF EndElement, ParseXMLConf, ParseRoutes, ParsePart, vars, maps, RoutesKept
<1>6. CASE CheckProgramConfiguration
  BY <1>6, KeptIsKept, RefusedHasNone DEF CheckProgramConfiguration, maps, RoutesKept
<1>7. CASE ParseError \/ \E id \in Members \cup Types : ParseTwice(id)
  BY <1>7, RefusedHasNone DEF ParseError, ParseTwice
<1> QED
  BY <1>1, <1>2, <1>3, <1>4, <1>5, <1>6, <1>7, KeptIsKept, ClientComes, RouteComes DEF Next

(* A name in full stands for one client, provider or consumer: itself.     *)
LEMMA FullIsItself ==
    ASSUME NEW name, Full(name), NEW one \in Names
    PROVE  StandsFor(name, one) <=> name = one
  BY DEF Full, Names, StandsFor, Star

LEMMA FullIsSubmitted ==
    ASSUME NEW from, Full(from), NEW c \in DOMAIN clients, c \in Names
    PROVE  c \in Submitted(from) <=> from = c
<1>1. c[2] # NoId /\ Len(c) = 2
  BY ConfigurationAssumption DEF Names
<1>2. Group(from) # "*" /\ (Valid(from) => Member(from) # NoId)
  BY DEF Full, Group, Member, Valid
<1>3. from = c => Valid(from)
  BY <1>1 DEF Valid
<1> QED
  BY <1>2, <1>3 DEF Submitted

LEMMA KeptAreExact == TypeOK /\ Checked /\ EachHasItsRoutes => FullNamesAreExact
<1> SUFFICES ASSUME TypeOK, Checked, EachHasItsRoutes, open = "accepted", ~late,
                    \A r \in routes : \A i \in 1..3 : Full(r[i]),
                    NEW c \in DOMAIN clients, NEW p \in DOMAIN items["data_providers"]
             PROVE  GetRoutes(c, p) = Meant(c, p)
  BY DEF FullNamesAreExact
<1> DEFINE mine == {r \in routes : r[1] = c /\ r[2] = p}
<1>1. c \in Names /\ p \in Names /\ DOMAIN items["data_consumers"] \subseteq Names
  BY DEF TypeOK, IsPartial
<1>2. \A r \in routes : Full(r[1]) /\ Full(r[2]) /\ Full(r[3])
  OBVIOUS
<1>3. \A r \in routes : c \in Submitted(r[1]) <=> r[1] = c
  BY <1>1, <1>2, FullIsSubmitted
<1>4. clients[c].routes = {<<r[2], r[3]>> : r \in {q \in routes : q[1] = c}}
  BY <1>3 DEF EachHasItsRoutes
<1>5. \A r \in routes : r[2] \in {p, <<Group(p)>>, Star} <=> r[2] = p
  BY <1>2 DEF Full, Star
<1>6. ConsumersRaw(c, p) = {r[3] : r \in mine}
  <2>1. ASSUME NEW to \in ConsumersRaw(c, p)
        PROVE  to \in {r[3] : r \in mine}
    <3>1. PICK x \in clients[c].routes : x[1] \in {p, <<Group(p)>>, Star} /\ to = x[2]
      BY <2>1 DEF ConsumersRaw
    <3>2. PICK r \in routes : r[1] = c /\ x = <<r[2], r[3]>>
      BY <1>4
    <3>3. r[2] \in {p, <<Group(p)>>, Star} /\ to = r[3]
      BY <3>1, <3>2
    <3> QED
      BY <1>5, <3>2, <3>3
  <2>2. ASSUME NEW r \in mine
        PROVE  r[3] \in ConsumersRaw(c, p)
    <3>1. <<r[2], r[3]>> \in clients[c].routes
      BY <1>4
    <3> QED
      BY <3>1 DEF ConsumersRaw
  <2> QED
    BY <2>1, <2>2
<1>7. \A to \in ConsumersRaw(c, p) : Full(to) /\ Exists(to, "data_consumers")
  BY <1>2, <1>6, TakenEndsExist
<1>8. \A to \in ConsumersRaw(c, p) :
          Member(to) # NoId /\ to # Star /\ to \in DOMAIN items["data_consumers"]
  BY <1>7 DEF Full, Exists, Valid, Member, Star
<1>9. GetRoutes(c, p) = {r[3] : r \in mine}
  BY <1>6, <1>8 DEF GetRoutes
<1>10. Meant(c, p) = {k \in DOMAIN items["data_consumers"] : \E r \in mine : r[3] = k}
  BY <1>1, <1>2, FullIsItself DEF Meant
<1> QED
  BY <1>6, <1>8, <1>9, <1>10

(* When the routes of an accepted file come after its clients and name     *)
(* each end in full, a client's portions go exactly where the file says.   *)
THEOREM FullNamesStayExact == Spec => []FullNamesAreExact
<1>1. Init => TypeOK /\ Checked /\ EachHasItsRoutes
  BY InitIsTyped, PartialEmpty DEF Init, Checked, EachHasItsRoutes
<1> QED
  BY <1>1, NextIsTyped, NextIsChecked, NextKeepsRoutes, KeptAreExact, PTL DEF Spec

=============================================================================
