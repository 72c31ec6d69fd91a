-------------------------------- MODULE Dial --------------------------------
(***************************************************************************)
(* How a grpc client finds its server: an application advertises one       *)
(* endpoint per server (pkg/endpoint, App.service), and grpc.NewClient     *)
(* dials one connection per object, each with the options given for all of *)
(* them, whose resolver takes the endpoint with the scheme it expects.     *)
(***************************************************************************)
EXTENDS Integers, Sequences, SequencesExt, FiniteSetsExt

CONSTANTS
  Interfaces,  \* lists of network interfaces, in the system's order
  Apps,        \* lists of an application's servers
  OptionLists, \* lists of options that a user gives
  Objects,     \* the list of ClientObj
  MaxIndex     \* the largest int: no interface has this index

NoHost == "none"

Address == [v4 : BOOLEAN, global : BOOLEAN, ip : STRING \ {NoHost}]
Interface == [index : Int, up : BOOLEAN, addrs : Seq(Address)]
Server == [kind : STRING, tls : BOOLEAN, bound : BOOLEAN, wellFormed : BOOLEAN]

\* The options that Dial looks at, each with the field it sets.
Option ==
  [field : {"addr"}, value : STRING]
    \union [field : {"insecure", "tls", "discovery"}, value : BOOLEAN]
    \union [field : {"mws"}, value : Nat]
    \union [field : {"enable"}, value : SUBSET Nat]

\* Connections are known by name: no two objects have the same one.
ASSUME DialAssumption ==
  /\ Interfaces \subseteq Seq(Interface) /\ Apps \subseteq Seq(Server)
  /\ OptionLists \subseteq Seq(Option) /\ MaxIndex \in Int
  /\ Objects \in Seq([name : STRING, addr : STRING])
  /\ \A j, k \in DOMAIN Objects : Objects[j].name = Objects[k].name => j = k

VARIABLES
  step,       \* "advertise", "dial", "done", "failed" or "panicked"
  ifs,        \* what net.Interfaces returns
  servers,    \* servers to advertise
  endpoints,  \* endpoints of the registered service
  opts,       \* NewClient's opts, which grow
  objs,       \* objects to dial
  clients,    \* connections by name
  open        \* names of open connections

dialVars == <<step, ifs, servers, endpoints, opts, objs, clients, open>>

DialInit ==
  /\ step = "advertise"
  /\ ifs \in Interfaces /\ servers \in Apps /\ endpoints = <<>>
  /\ opts \in OptionLists /\ objs = Objects /\ clients = <<>> /\ open = {}

-----------------------------------------------------------------------------
\* pkg/endpoint

Scheme(scheme, insecure) == [base |-> scheme, s |-> ~insecure]

\* The address an interface offers: its addresses are read until the first
\* usable one of version 4, and the last one read counts.
Offered(i) ==
  LET usable == {k \in DOMAIN i.addrs : i.addrs[k].global}
      v4 == {k \in usable : i.addrs[k].v4}
  IN  IF usable = {} THEN NoHost ELSE i.addrs[IF v4 # {} THEN Min(v4) ELSE Max(usable)].ip

\* Fault: the first interface with an address is kept.
ParseAddrFirst(is) ==
  FoldLeft(LAMBDA acc, i :
             IF ~i.up \/ acc.host # NoHost \/ Offered(i) = NoHost
             THEN acc ELSE [index |-> i.index, host |-> Offered(i)],
           [index |-> MaxIndex, host |-> NoHost], is)

\* ParseAddr: an interface with a lower index than the current one replaces it.
ParseAddr(is) ==
  FoldLeft(LAMBDA acc, i :
             IF ~i.up \/ (i.index >= acc.index /\ acc.host # NoHost) \/ Offered(i) = NoHost
             THEN acc ELSE [index |-> i.index, host |-> Offered(i)],
           [index |-> MaxIndex, host |-> NoHost], is)

\* ParseValidAddr: the first endpoint with the scheme, as a set.
ParseValidAddr(eps, scheme) ==
  LET found == {k \in DOMAIN eps : eps[k].scheme = scheme}
  IN  IF found = {} THEN {} ELSE {eps[Min(found)]}

\* A server without a listener has the port of its address, and none if that is
\* malformed.
HasPort(s) == s.bound \/ s.wellFormed

Endpoint(s) == [scheme |-> Scheme(s.kind, ~s.tls), server |-> s, host |-> ParseAddr(ifs).host]

\* App.service asks one server after the other.
Advertise ==
  /\ step = "advertise" /\ servers # <<>>
  /\ LET s == Head(servers) IN
     IF HasPort(s)
     THEN endpoints' = Append(endpoints, Endpoint(s)) /\ UNCHANGED step
     ELSE step' = "failed" /\ UNCHANGED endpoints
  /\ servers' = Tail(servers)
  /\ UNCHANGED <<ifs, opts, objs, clients, open>>

Registered ==
  /\ step = "advertise" /\ servers = <<>>
  /\ step' = "dial"
  /\ UNCHANGED <<ifs, servers, endpoints, opts, objs, clients, open>>

-----------------------------------------------------------------------------
\* transport/grpc: Dial and NewClient

\* An option sets its field.
ApplyOption(opt, o) == [opt EXCEPT ![o.field] = o.value]
WithAddr(a) == [field |-> "addr", value |-> a]

\* Five middlewares by default, the first two enabled.
Defaults ==
  [addr |-> "0.0.0.0:9090", insecure |-> TRUE, tls |-> FALSE, discovery |-> FALSE,
   mws |-> 5, enable |-> {0, 1}]

\* TLS credentials come after the insecure ones and replace them.
Credentials(opt) == IF opt.tls THEN "tls" ELSE IF opt.insecure THEN "plain" ELSE "none"

\* utils.Filter reads past the end of the middlewares.
FilterPanics(opt) == \E bit \in opt.enable : bit >= opt.mws

Connection(opt) ==
  [addr |-> opt.addr, creds |-> Credentials(opt), both |-> opt.tls /\ opt.insecure,
   resolved |-> IF opt.discovery THEN ParseValidAddr(endpoints, Scheme("grpc", opt.insecure)) ELSE {}]

\* Fault: the address comes before the options of earlier objects.
AddedFront(o) == <<WithAddr(o.addr)>> \o opts

\* opts = append(opts, WithAddr(obj.Addr)): the options of earlier objects stay.
Added(o) == Append(opts, WithAddr(o.addr))

\* One round of NewClient; an error leaves the connections made before open.
DialOne ==
  /\ step = "dial" /\ objs # <<>>
  /\ LET o == Head(objs)
         opt == FoldLeft(ApplyOption, Defaults, Added(o))
     IN  /\ opts' = Added(o)
         /\ \/ FilterPanics(opt) /\ step' = "panicked" /\ UNCHANGED <<clients, open>>
            \/ ~FilterPanics(opt) /\ step' = "failed" /\ clients' = <<>> /\ UNCHANGED open
            \/ /\ ~FilterPanics(opt) /\ Credentials(opt) # "none"
               /\ clients' = [n \in DOMAIN clients \union {o.name} |->
                                IF n = o.name THEN Connection(opt) ELSE clients[n]]
               /\ open' = open \union {o.name}
               /\ UNCHANGED step
  /\ objs' = Tail(objs)
  /\ UNCHANGED <<ifs, servers, endpoints>>

\* All dialled; Client.Close closes them.
CloseAll ==
  /\ step = "dial" /\ objs = <<>>
  /\ step' = "done" /\ open' = open \ DOMAIN clients
  /\ UNCHANGED <<ifs, servers, endpoints, opts, objs, clients>>

DialNext == Advertise \/ Registered \/ DialOne \/ CloseAll

DialSpec == DialInit /\ [][DialNext]_dialVars

-----------------------------------------------------------------------------

\* Reference: the interfaces that are up and have a usable address.
UsableOf(is) == {i \in Range(is) : i.up /\ \E k \in DOMAIN i.addrs : i.addrs[k].global}

\* Every server advertises an address of the usable interface with the lowest
\* index, of version 4 if that interface has one, in whichever order the system
\* lists them; and an empty host only if there is no such interface.
AdvertisedIsBest ==
  \A k \in DOMAIN endpoints :
    LET h == endpoints[k].host IN
    IF UsableOf(ifs) = {} THEN h = NoHost
    ELSE \E i \in UsableOf(ifs) :
           /\ \A j \in UsableOf(ifs) : i.index <= j.index
           /\ \E a \in Range(i.addrs) :
                /\ a.ip = h /\ a.global
                /\ a.v4 \/ \A b \in Range(i.addrs) : b.global => ~b.v4

\* Each name is connected to its own address, although the options of all
\* objects pile up; the endpoint a resolver finds for it is one of a grpc server
\* that talks TLS exactly if the connection does, unless the user asked for TLS
\* and left insecure on.
ReachesItsServer ==
  /\ \A k \in DOMAIN Objects : Objects[k].name \in DOMAIN clients =>
       clients[Objects[k].name].addr = Objects[k].addr
  /\ \A n \in DOMAIN clients : \A e \in clients[n].resolved :
       /\ e.server.kind = "grpc"
       /\ ~clients[n].both => (e.server.tls <=> clients[n].creds = "tls")

=============================================================================
