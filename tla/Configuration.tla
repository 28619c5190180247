---------------------------- MODULE Configuration ----------------------------
(***************************************************************************)
(* ConfigurationParser: the elements of the configuration file are read    *)
(* one by one, a route being added at once to the clients it names that    *)
(* are known so far; the whole is then checked, and accepted or refused.   *)
(*                                                                         *)
(* A name is the sequence of its parts, which the file separates by "::":  *)
(* <<group, member>>, <<group>> or <<"*">>. The id of a section may be     *)
(* missing; its group is then the empty string. Additional data is left    *)
(* out. No section has the id "*".                                         *)
(*                                                                         *)
(* A definition Mut... is a plausible slip in the one that follows it, for *)
(* comparison; no specification uses it.                                   *)
(***************************************************************************)
EXTENDS Naturals, Sequences, FiniteSets

CONSTANTS
    Groups,      \* ids of sections in the file
    Members,     \* ids of providers, consumers, clients, hosts and services
    Types,       \* types of providers, consumers and AAA modules in the file
    Available,   \* the types that the factories know
    Routes,      \* the routes in the file: <<client, via, to>>
    MaxElements, \* bound on the elements that are not mere containers
    MaxRoutes    \* bound on the routes

NoId == ""
Star == <<"*">>

ASSUME ConfigurationAssumption ==
    /\ NoId \notin Groups \cup Members /\ "*" \notin Groups \cup Members
    /\ Available \subseteq Types
    /\ LET RouteNames == Seq(Groups \cup Members \cup {NoId, "*"}) \ {<<>>}
       IN  Routes \subseteq RouteNames \X RouteNames \X RouteNames
    /\ MaxElements \in Nat /\ MaxRoutes \in Nat

VARIABLES
    open,        \* the element being read, or "start", "accepted", "refused"
    group,       \* groupName of the section being read
    client,      \* the client being read
    host,        \* the host being read
    groups,      \* [sections -> ids]: the keys of m_providerGroups, ...
    items,       \* [data sections -> [names -> types]]: their members
    clients,     \* [names -> Client]: the members of m_clientGroups
    routes,      \* the routes that were read
    late,        \* whether a client came after a route
    elements     \* how many elements were read

maps == <<groups, items, clients>>
vars == <<open, group, client, host, maps, routes, late, elements>>

DataSections == {"data_providers", "data_consumers"}
Sections == DataSections \cup {"clients"}

(* The element that contains an element.                                   *)
Parent ==
    [data_providers |-> "nsca_config", data_consumers |-> "nsca_config",
     clients |-> "nsca_config", routes |-> "nsca_config",
     client |-> "clients", aaa_data |-> "client", hosts |-> "client", host |-> "hosts"]

Empty == [x \in {} |-> x]

(* The function f with a value for x, unless it has one (insert after      *)
(* contains).                                                              *)
Insert(f, x, y) == [z \in DOMAIN f \cup {x} |-> IF z \in DOMAIN f THEN f[z] ELSE y]

NewClient == [auth |-> {}, routes |-> {}, allowed |-> Empty]

Init ==
    /\ open = "start"
    /\ group = NoId
    /\ client = <<>>
    /\ host = NoId
    /\ groups = [s \in Sections |-> {}]
    /\ items = [s \in DataSections |-> Empty]
    /\ clients = Empty
    /\ routes = {}
    /\ late = FALSE
    /\ elements = 0

-----------------------------------------------------------------------------
(* getGroup and getGroupMember. "ret == fullName" assigns nothing: both    *)
(* are empty for a name of one part, "*" too.                              *)
Valid(name) ==
    \/ Len(name) = 1 /\ name[1] # NoId
    \/ Len(name) = 2 /\ name[2] # NoId

MutGroupAsMeant(name) == name[1]

Group(name) == IF Len(name) = 2 THEN name[1] ELSE NoId

Member(name) == IF Len(name) = 2 THEN name[2] ELSE NoId

(* The names of a group.                                                   *)
Of(g, names) == {name \in names : name[1] = g}

-----------------------------------------------------------------------------
(* The parser of the file                                                  *)

locals == <<group, client, host>>

Counted == elements < MaxElements /\ elements' = elements + 1

(* The file is refused, and nothing of it is kept.                         *)
Refuse ==
    /\ open' = "refused"
    /\ group' = NoId /\ client' = <<>> /\ host' = NoId
    /\ groups' = [s \in Sections |-> {}]
    /\ items' = [s \in DataSections |-> Empty]
    /\ clients' = Empty
    /\ routes' = {} /\ late' = FALSE /\ elements' = 0

(* An unknown element, a missing attribute, XML that is not well-formed.   *)
ParseError ==
    /\ open \notin {"accepted", "refused"}
    /\ Refuse

ParseXMLConf ==
    /\ open = "start"
    /\ open' = "nsca_config"
    /\ UNCHANGED <<locals, maps, routes, late, elements>>

(* parseDataProviders, parseDataConsumers, parseClients: a group is known  *)
(* from here on, unless the attribute id is missing.                       *)
ParseSection(s, id) ==
    /\ open = "nsca_config"
    /\ open' = s
    /\ group' = id
    /\ \/ groups' = [groups EXCEPT ![s] = @ \cup {id}]
       \/ id = NoId /\ UNCHANGED groups
    /\ UNCHANGED <<client, host, items, clients, routes, late, elements>>

(* parseDataProvider, parseDataConsumer                                    *)
ParseData(id, type) ==
    /\ open \in DataSections
    /\ <<group, id>> \notin DOMAIN items[open]
    /\ Counted
    /\ items' = [items EXCEPT ![open] = Insert(@, <<group, id>>, type)]
    /\ groups' = [groups EXCEPT ![open] = @ \cup {group}]
    /\ UNCHANGED <<open, locals, clients, routes, late>>

ParseClient(id) ==
    /\ open = "clients"
    /\ <<group, id>> \notin DOMAIN clients
    /\ Counted
    /\ open' = "client"
    /\ client' = <<group, id>>
    /\ clients' = Insert(clients, <<group, id>>, NewClient)
    /\ groups' = [groups EXCEPT !["clients"] = @ \cup {group}]
    /\ late' = (late \/ routes # {})
    /\ UNCHANGED <<group, host, items, routes>>

(* <aaa_data> and <hosts> in a client                                      *)
ParsePart(t) ==
    /\ open = "client"
    /\ open' = t
    /\ UNCHANGED <<locals, maps, routes, late, elements>>

ParseAAAModule(type) ==
    /\ open = "aaa_data"
    /\ type \notin clients[client].auth
    /\ Counted
    /\ clients' = [clients EXCEPT ![client].auth = @ \cup {type}]
    /\ UNCHANGED <<open, locals, groups, items, routes, late>>

MutHostWithoutServices(name) ==
    /\ open = "hosts"
    /\ Counted
    /\ open' = "host"
    /\ host' = name
    /\ UNCHANGED <<group, client, groups, items, clients, routes, late>>

(* A host may come twice, and has the services of both.                    *)
ParseHost(name) ==
    /\ open = "hosts"
    /\ Counted
    /\ open' = "host"
    /\ host' = name
    /\ clients' = [clients EXCEPT ![client].allowed = Insert(@, name, {})]
    /\ UNCHANGED <<group, client, groups, items, routes, late>>

ParseService(name) ==
    /\ open = "host"
    /\ name \notin clients[client].allowed[host]
    /\ Counted
    /\ clients' = [clients EXCEPT ![client].allowed[host] = @ \cup {name}]
    /\ UNCHANGED <<open, locals, groups, items, routes, late>>

(* "Id already taken", and a type or a service that is: whatever is named  *)
(* twice in one place refuses the file, hosts and routes excepted.         *)
ParseTwice(id) ==
    /\ \/ open \in DataSections /\ <<group, id>> \in DOMAIN items[open]
       \/ open = "clients" /\ <<group, id>> \in DOMAIN clients
       \/ open = "aaa_data" /\ id \in clients[client].auth
       \/ open = "host" /\ id \in clients[client].allowed[host]
    /\ Refuse

ParseRoutes ==
    /\ open = "nsca_config"
    /\ open' = "routes"
    /\ UNCHANGED <<locals, maps, routes, late, elements>>

(* The locals of the parser of an element end with the element.            *)
EndElement ==
    /\ open \in DOMAIN Parent
    /\ open' = Parent[open]
    /\ group' = IF open \in Sections THEN NoId ELSE group
    /\ client' = IF open = "client" THEN <<>> ELSE client
    /\ host' = IF open = "host" THEN NoId ELSE host
    /\ UNCHANGED <<maps, routes, late, elements>>

(* The clients to which submitRoute adds a route.                          *)
Submitted(from) ==
    IF ~Valid(from) THEN {}
    ELSE IF Group(from) = "*" THEN DOMAIN clients
    ELSE IF Member(from) = NoId THEN Of(Group(from), DOMAIN clients)
    ELSE {from} \cap DOMAIN clients

MutRouteReplaces(from, via, to) ==
    /\ open = "routes"
    /\ Cardinality(routes) < MaxRoutes
    /\ routes' = routes \cup {<<from, via, to>>}
    /\ clients' = [c \in DOMAIN clients |->
                      IF c \in Submitted(from)
                      THEN [clients[c] EXCEPT
                               !.routes = {r \in @ : r[1] # via} \cup {<<via, to>>}]
                      ELSE clients[c]]
    /\ UNCHANGED <<open, locals, groups, items, late, elements>>

ParseRoute(from, via, to) ==
    /\ open = "routes"
    /\ Cardinality(routes) < MaxRoutes
    /\ routes' = routes \cup {<<from, via, to>>}
    /\ clients' = [c \in DOMAIN clients |->
                      IF c \in Submitted(from)
                      THEN [clients[c] EXCEPT !.routes = @ \cup {<<via, to>>}]
                      ELSE clients[c]]
    /\ UNCHANGED <<open, locals, groups, items, late, elements>>

-----------------------------------------------------------------------------
(* checkProgramConfiguration. A group that exists, and a member of it, if  *)
(* the name has one.                                                       *)
Exists(name, s) ==
    /\ Valid(name)
    /\ Group(name) \in groups[s]
    /\ Member(name) # NoId => name \in DOMAIN items[s]

TypesKnown ==
    \A s \in DataSections : \A name \in DOMAIN items[s] : items[s][name] \in Available

(* The end of a route is only checked if the group of its provider is not  *)
(* "*" (the condition names fromGroup where toGroup is meant).             *)
RouteEndsExist(via, to) ==
    /\ Valid(via)
    /\ Group(via) # "*" => Exists(via, "data_providers")
    /\ Valid(to)
    /\ Group(via) # "*" => Exists(to, "data_consumers")

ClientOk(c) ==
    /\ c.auth \subseteq Available
    /\ \A r \in c.routes : RouteEndsExist(r[1], r[2])

CheckProgramConfiguration ==
    /\ open = "nsca_config"
    /\ IF TypesKnown /\ \A name \in DOMAIN clients : ClientOk(clients[name])
       THEN open' = "accepted" /\ UNCHANGED <<locals, maps, routes, late, elements>>
       ELSE Refuse

-----------------------------------------------------------------------------
(* getRoutes                                                               *)

(* The ends of the routes of client c for provider p: those via p, via its *)
(* group and via "*".                                                      *)
ConsumersRaw(c, p) ==
    {r[2] : r \in {x \in clients[c].routes : x[1] \in {p, <<Group(p)>>, Star}}}

(* A name without a member stands for the members of its group.            *)
GetRoutes(c, p) ==
    LET raw == ConsumersRaw(c, p)
        all == DOMAIN items["data_consumers"]
        whole == {to \in raw : Member(to) = NoId}
    IN  IF Star \in raw THEN all
        ELSE (raw \ whole) \cup UNION {Of(Group(to), all) : to \in whole}

-----------------------------------------------------------------------------
Next ==
    \/ ParseError
    \/ ParseXMLConf
    \/ \E s \in Sections, id \in Groups \cup {NoId} : ParseSection(s, id)
    \/ \E id \in Members, type \in Types : ParseData(id, type)
    \/ \E id \in Members : ParseClient(id)
    \/ \E t \in {"aaa_data", "hosts"} : ParsePart(t)
    \/ \E type \in Types : ParseAAAModule(type)
    \/ \E name \in Members : ParseHost(name) \/ ParseService(name)
    \/ \E id \in Members \cup Types : ParseTwice(id)
    \/ ParseRoutes
    \/ \E r \in Routes : ParseRoute(r[1], r[2], r[3])
    \/ EndElement
    \/ CheckProgramConfiguration

Spec == Init /\ [][Next]_vars

-----------------------------------------------------------------------------
(* Properties                                                              *)

Names == (Groups \cup {NoId}) \X Members

(* A function from some of S to T.                                         *)
IsPartial(f, S, T) == DOMAIN f \subseteq S /\ f \in [DOMAIN f -> T]

IsClient(c) ==
    /\ c = [auth |-> c.auth, routes |-> c.routes, allowed |-> c.allowed]
    /\ c.auth \subseteq Types
    /\ c.routes \subseteq {<<r[2], r[3]>> : r \in Routes}
    /\ IsPartial(c.allowed, Members, SUBSET Members)

Inside == {"client", "aaa_data", "hosts", "host"}

(* The type of every variable; and the client and the host that are being  *)
(* read are known, so that whatever is in them finds its place.            *)
TypeOK ==
    /\ open \in DOMAIN Parent \cup {"start", "nsca_config", "accepted", "refused"}
    /\ group \in Groups \cup {NoId}
    /\ host \in Members \cup {NoId}
    /\ groups \in [Sections -> SUBSET (Groups \cup {NoId})]
    /\ items = [s \in DataSections |-> items[s]]
    /\ \A s \in DataSections : IsPartial(items[s], Names, Types)
    /\ clients = [c \in DOMAIN clients |-> clients[c]] /\ DOMAIN clients \subseteq Names
    /\ \A c \in DOMAIN clients : IsClient(clients[c])
    /\ open \in Inside => client \in DOMAIN clients
    /\ open = "host" => host \in DOMAIN clients[client].allowed
    /\ routes \subseteq Routes
    /\ late \in BOOLEAN
    /\ elements \in 0..MaxElements

(* Every destination of a portion exists, whatever the routes say: no      *)
(* session is without a channel because of a consumer that is not there.   *)
RoutesLeadSomewhere ==
    open = "accepted" =>
        \A c \in DOMAIN clients : \A p \in DOMAIN items["data_providers"] :
            GetRoutes(c, p) \subseteq DOMAIN items["data_consumers"]

(* What a name stands for, as the file means it.                           *)
StandsFor(name, one) == name \in {one, <<one[1]>>, Star}

Meant(c, p) ==
    {k \in DOMAIN items["data_consumers"] :
        \E r \in routes : StandsFor(r[1], c) /\ StandsFor(r[2], p) /\ StandsFor(r[3], k)}

Full(name) == Len(name) = 2 /\ name[1] # "*"

(* When the routes come after the clients and name each end in full, the   *)
(* destinations are the ones the file lists.                               *)
FullNamesAreExact ==
    open = "accepted" /\ ~late /\ (\A r \in routes : \A i \in 1..3 : Full(r[i])) =>
        \A c \in DOMAIN clients : \A p \in DOMAIN items["data_providers"] :
            GetRoutes(c, p) = Meant(c, p)

=============================================================================
