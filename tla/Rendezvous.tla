----------------------------- MODULE Rendezvous -----------------------------
(***************************************************************************)
(* How the processes of the TCP backend find each other. A server - the    *)
(* controller, or a remote wrapper that publishes itself as in             *)
(* tests/tcp-tlm-fork - takes the first free port, listens, and publishes  *)
(* port and name by zeroconf. A dialer - a client, or a proxy wrapper -    *)
(* browses for the name, resolves it to an address and connects to it.     *)
(* The Avahi daemon and the sockets of the host are external.              *)
(***************************************************************************)
EXTENDS Naturals, FiniteSets, Sequences

CONSTANTS
    Server, Dialer,
    Nobody,       \* no connection
    Remotes,      \* the servers that are remote wrappers, not controllers
    Goal,         \* Goal[c]: the server whose name c looks for
    Domain,       \* Domain[c]: the domain c registers, if Goal[c] is a controller
    Tries,        \* how often a dialer connects before it gives up: 20
    Leavers,      \* servers whose run may end
    Refusable,    \* servers whose entry the daemon may refuse
    MaxChanges    \* bound: renames of the host and failures of the daemon

Clients(s) == {c \in Dialer : Goal[c] = s}

ASSUME KindAssumption == /\ Remotes \subseteq Server
                         /\ IsFiniteSet(Server)
                         /\ IsFiniteSet(Dialer)
                         /\ Nobody \notin Dialer
                         /\ Goal \in [Dialer -> Server]
                         /\ Domain \in [Dialer -> Nat \ {0}]
                         /\ Tries \in Nat \ {0}
                         /\ MaxChanges \in Nat

(* Every controller has one client for each of its domains.                *)
ASSUME ClientAssumption ==
    \A s \in Server \ Remotes :
        {Domain[c] : c \in Clients(s)} = 1 .. Cardinality(Clients(s))

VARIABLES
    stage,      \* stage[s]: how far the main thread of s is
    port,       \* port[s]: the port s tries, then listens on
    backlog,    \* backlog[s]: connections the host made for s
    reading,    \* reading[s]: the connection whose registry s waits for
    connfd,     \* connfd[s][d]: the connection of domain d, or of the proxy (d = 1)
    accepted,   \* accepted[s]: how many s has taken
    poll,       \* poll[s]: the publishing loop, in a thread of its own
    events,     \* events[s]: states of the daemon that loop has not seen
    group,      \* group[s]: the entry group of s in the daemon
    daemon,     \* state of the daemon
    changes,    \* how often that state was disturbed
    step,       \* step[c]: how far dialer c is
    address,    \* address[c]: the port c discovered, 0 if none
    failed      \* failed[c]: connects that were refused

serverVars == <<stage, port, backlog, reading, connfd, accepted>>
publishVars == <<poll, events, group>>
daemonVars == <<daemon, changes>>
dialVars == <<step, address, failed>>
vars == <<serverVars, publishVars, daemonVars, dialVars>>

Slots(s) == IF s \in Remotes THEN {1} ELSE {Domain[c] : c \in Clients(s)}

AllSlots == {1} \cup {Domain[c] : c \in Dialer}

Stages == {"search", "bound", "listening", "open", "stopped", "freed", "left"}

TypeOK ==
    /\ stage \in [Server -> Stages]
    /\ port \in [Server -> Nat \ {0}]
    /\ backlog \in [Server -> Seq(Dialer)]
    /\ reading \in [Server -> Dialer \cup {Nobody}]
    /\ accepted \in [Server -> Nat]
    /\ connfd \in [Server -> [AllSlots -> Dialer \cup {Nobody}]]
    /\ poll \in [Server -> {"none", "polling", "quit", "stopped"}]
    /\ events \in [Server -> Seq({"running", "registering", "failure"})]
    /\ group \in [Server -> {"none", "empty", "committed", "established"}]
    /\ daemon \in {"running", "registering", "failed"}
    /\ changes \in 0 .. MaxChanges
    /\ step \in [Dialer -> {"browse", "resolve", "deaf", "dial", "connected", "registered", "lost"}]
    /\ address \in [Dialer -> Nat]
    /\ failed \in [Dialer -> 0 .. Tries]

Init ==
    /\ stage = [s \in Server |-> "search"]
    /\ port = [s \in Server |-> 1]
    /\ backlog = [s \in Server |-> <<>>]
    /\ reading = [s \in Server |-> Nobody]
    /\ accepted = [s \in Server |-> 0]
    /\ connfd = [s \in Server |-> [d \in AllSlots |-> Nobody]]
    /\ poll = [s \in Server |-> "none"]
    /\ events = [s \in Server |-> <<>>]
    /\ group = [s \in Server |-> "none"]
    /\ daemon = "running"
    /\ changes = 0
    /\ step = [c \in Dialer |-> "browse"]
    /\ address = [c \in Dialer |-> 0]
    /\ failed = [c \in Dialer |-> 0]

-----------------------------------------------------------------------------
(* start_server(), tried port by port: with SO_REUSEADDR the port can be   *)
(* bound unless somebody listens on it, and of several that bound it only  *)
(* the first can listen. Port 1 is 2048.                                   *)
Listening(s) == stage[s] \in {"listening", "open", "stopped", "freed"}

MutantTaken(s) == \E r \in Server \ {s} : Listening(r)

Taken(s) == \E r \in Server \ {s} : Listening(r) /\ port[r] = port[s]

At(s, from, to) == stage[s] = from /\ stage' = [stage EXCEPT ![s] = to]

Bind(s) ==
    /\ stage[s] = "search"
    /\ IF Taken(s)
         THEN port' = [port EXCEPT ![s] = @ + 1] /\ UNCHANGED stage
         ELSE At(s, "search", "bound") /\ UNCHANGED port
    /\ UNCHANGED <<backlog, reading, connfd, accepted, publishVars, daemonVars, dialVars>>

Listen(s) ==
    /\ IF Taken(s)
         THEN At(s, "bound", "search") /\ port' = [port EXCEPT ![s] = @ + 1]
         ELSE At(s, "bound", "listening") /\ UNCHANGED port
    /\ UNCHANGED <<backlog, reading, connfd, accepted, publishVars, daemonVars, dialVars>>

-----------------------------------------------------------------------------
(* Publishing. The services are created only in a group that has none; a   *)
(* failure of any step ends the loop, and nothing else tells the server.   *)
(* Once an entry is withdrawn, browsers report its next announcement anew. *)
Visible(s) == group[s] = "established"

Withdrawn(R) ==
    step' = [c \in Dialer |->
               IF Goal[c] \in R /\ step[c] \in {"resolve", "deaf"} THEN "browse" ELSE step[c]]

Created(s) ==
    /\ group' = [group EXCEPT ![s] = "committed"]
    /\ poll' = [poll EXCEPT ![s] = "polling"]

Rejected(s) ==
    /\ s \in Refusable
    /\ group' = [group EXCEPT ![s] = "empty"]
    /\ poll' = [poll EXCEPT ![s] = "quit"]

MutantCreateServices(s) ==
    IF group[s] = "none"
      THEN Created(s) \/ Rejected(s)
      ELSE UNCHANGED <<group, poll>>

CreateServices(s) ==
    IF group[s] \in {"none", "empty"}
      THEN Created(s) \/ Rejected(s)
      ELSE UNCHANGED <<group, poll>>

(* tcp_zeroconf_publish_init(): avahi_client_new() calls back with the     *)
(* state of the daemon, or fails without one; then the thread starts.      *)
PublishInit(s) ==
    /\ At(s, "listening", "open")
    /\ \/ daemon = "running" /\ CreateServices(s)
       \/ /\ daemon = "registering"
          /\ poll' = [poll EXCEPT ![s] = "polling"]
          /\ UNCHANGED group
       \/ daemon = "failed" /\ UNCHANGED <<group, poll>>
    /\ UNCHANGED <<port, backlog, reading, connfd, accepted, events, daemonVars, dialVars>>

(* client_callback(), in the thread: the group is emptied while the host   *)
(* has no name and filled again when it has one.                           *)
Reset(s) ==
    /\ group' = IF group[s] = "none" THEN group ELSE [group EXCEPT ![s] = "empty"]
    /\ Withdrawn({s})

ClientCallback(s) ==
    /\ poll[s] = "polling"
    /\ events[s] # <<>>
    /\ events' = [events EXCEPT ![s] = Tail(@)]
    /\ \/ /\ Head(events[s]) = "running"
          /\ CreateServices(s)
          /\ UNCHANGED step
       \/ /\ Head(events[s]) = "registering"
          /\ Reset(s)
          /\ UNCHANGED poll
       \/ /\ Head(events[s]) = "failure"
          /\ poll' = [poll EXCEPT ![s] = "quit"]
          /\ UNCHANGED <<group, step>>
    /\ UNCHANGED <<serverVars, daemonVars, address, failed>>

(* The daemon finds the name in use elsewhere, or fails to register it.    *)
EntryRefused(s) ==
    /\ poll[s] = "polling"
    /\ group[s] = "committed"
    /\ Rejected(s)
    /\ UNCHANGED <<serverVars, events, daemonVars, dialVars>>

-----------------------------------------------------------------------------
(* The daemon announces what is committed, may have to rename the host,    *)
(* which takes a while, and may fail. Every loop learns each change.       *)
Told(state) ==
    [s \in Server |-> IF poll[s] = "polling" THEN Append(events[s], state) ELSE events[s]]

Announce(s) ==
    /\ daemon = "running"
    /\ group[s] = "committed"
    /\ group' = [group EXCEPT ![s] = "established"]
    /\ UNCHANGED <<serverVars, poll, events, daemonVars, dialVars>>

Rename ==
    /\ daemon = "running"
    /\ changes < MaxChanges
    /\ changes' = changes + 1
    /\ daemon' = "registering"
    /\ events' = Told("registering")
    /\ UNCHANGED <<serverVars, poll, group, dialVars>>

Renamed ==
    /\ daemon = "registering"
    /\ daemon' = "running"
    /\ events' = Told("running")
    /\ UNCHANGED <<serverVars, poll, group, changes, dialVars>>

DaemonFail ==
    /\ daemon # "failed"
    /\ changes < MaxChanges
    /\ changes' = changes + 1
    /\ daemon' = "failed"
    /\ events' = Told("failure")
    /\ group' = [s \in Server |-> IF group[s] = "none" THEN "none" ELSE "empty"]
    /\ Withdrawn(Server)
    /\ UNCHANGED <<serverVars, poll, address, failed>>

-----------------------------------------------------------------------------
(* tcp_zeroconf_discover(): an announcement starts a resolver; the first   *)
(* answer with the name looked for and an address of less than 20          *)
(* characters (IPv4) ends the search. Resolvers of other names and         *)
(* addresses only free themselves and are left out.                        *)
MutantMatches(c, s) == TRUE

Matches(c, s) == Goal[c] = s

BrowserNew(c) ==
    /\ step[c] = "browse"
    /\ \E s \in Server : Matches(c, s) /\ Visible(s)
    /\ step' = [step EXCEPT ![c] = "resolve"]
    /\ UNCHANGED <<serverVars, publishVars, daemonVars, address, failed>>

ResolverFound(c) ==
    /\ step[c] = "resolve"
    /\ \E s \in Server :
         /\ Matches(c, s)
         /\ Visible(s)
         /\ address' = [address EXCEPT ![c] = port[s]]
    /\ step' = [step EXCEPT ![c] = "dial"]
    /\ UNCHANGED <<serverVars, publishVars, daemonVars, failed>>

(* A resolver may fail or time out whatever the daemon does and although   *)
(* the entry is published; it only frees itself, nobody starts another.    *)
ResolverFailure(c) ==
    /\ step[c] = "resolve"
    /\ step' = [step EXCEPT ![c] = "deaf"]
    /\ UNCHANGED <<serverVars, publishVars, daemonVars, address, failed>>

(* Without the daemon the search ends with no address, which nobody can    *)
(* connect to.                                                             *)
DiscoverFail(c) ==
    /\ step[c] \in {"browse", "resolve", "deaf"}
    /\ daemon = "failed"
    /\ step' = [step EXCEPT ![c] = "lost"]
    /\ UNCHANGED <<serverVars, publishVars, daemonVars, address, failed>>

-----------------------------------------------------------------------------
(* The host completes a connection as soon as somebody listens.            *)
Reaches(c, s) == Listening(s) /\ port[s] = address[c]

Dial(c) ==
    /\ step[c] = "dial"
    /\ \E s \in Server :
         /\ Reaches(c, s)
         /\ backlog' = [backlog EXCEPT ![s] = Append(@, c)]
    /\ step' = [step EXCEPT ![c] = "connected"]
    /\ UNCHANGED <<stage, port, reading, connfd, accepted, publishVars, daemonVars,
                   address, failed>>

MutantGivesUp(c) == failed[c] = Tries

GivesUp(c) == failed[c] + 1 = Tries

DialFail(c) ==
    /\ step[c] = "dial"
    /\ \A s \in Server : ~ Reaches(c, s)
    /\ failed' = [failed EXCEPT ![c] = @ + 1]
    /\ step' = IF GivesUp(c) THEN [step EXCEPT ![c] = "lost"] ELSE step
    /\ UNCHANGED <<serverVars, publishVars, daemonVars, address>>

(* A client tells its domain; a proxy wrapper sends nothing.               *)
SendRegistry(c) ==
    /\ Goal[c] \notin Remotes
    /\ step[c] = "connected"
    /\ step' = [step EXCEPT ![c] = "registered"]
    /\ UNCHANGED <<serverVars, publishVars, daemonVars, address, failed>>

-----------------------------------------------------------------------------
(* A controller takes as many connections as it has domains, and waits for *)
(* the registry of each before it accepts the next.                        *)
ControllerAccept(s) ==
    /\ s \notin Remotes
    /\ stage[s] = "open"
    /\ accepted[s] < Cardinality(Slots(s))
    /\ reading[s] = Nobody
    /\ backlog[s] # <<>>
    /\ reading' = [reading EXCEPT ![s] = Head(backlog[s])]
    /\ backlog' = [backlog EXCEPT ![s] = Tail(@)]
    /\ UNCHANGED <<stage, port, connfd, accepted, publishVars, daemonVars, dialVars>>

MutantSlot(s) == accepted[s] + 1

Slot(s) == Domain[reading[s]]

ReadRegistry(s) ==
    /\ reading[s] # Nobody
    /\ step[reading[s]] = "registered"
    /\ connfd' = [connfd EXCEPT ![s][Slot(s)] = reading[s]]
    /\ accepted' = [accepted EXCEPT ![s] = @ + 1]
    /\ reading' = [reading EXCEPT ![s] = Nobody]
    /\ UNCHANGED <<stage, port, backlog, publishVars, daemonVars, dialVars>>

(* The accepting thread of a remote wrapper takes one connection, whoever  *)
(* it is from, from the moment the wrapper listens.                        *)
RemoteAccept(s) ==
    /\ s \in Remotes
    /\ Listening(s)
    /\ accepted[s] = 0
    /\ backlog[s] # <<>>
    /\ connfd' = [connfd EXCEPT ![s][1] = Head(backlog[s])]
    /\ accepted' = [accepted EXCEPT ![s] = 1]
    /\ backlog' = [backlog EXCEPT ![s] = Tail(@)]
    /\ UNCHANGED <<stage, port, reading, publishVars, daemonVars, dialVars>>

-----------------------------------------------------------------------------
(* The end of a server: a controller that took everybody, a remote wrapper *)
(* whose simulation is over, connected or not. tcp_zeroconf_publish_       *)
(* shutdown() joins the thread, then frees the client, which withdraws the *)
(* entry; the socket is closed last, and a remote wrapper first waits for  *)
(* its accepting thread.                                                   *)
Complete(s) == accepted[s] = Cardinality(Slots(s))

MutantStopPoll(s) ==
    /\ s \in Leavers
    /\ s \in Remotes \/ Complete(s)
    /\ At(s, "open", "stopped")
    /\ UNCHANGED <<port, backlog, reading, connfd, accepted, publishVars, daemonVars, dialVars>>

StopPoll(s) ==
    /\ s \in Leavers
    /\ s \in Remotes \/ Complete(s)
    /\ At(s, "open", "stopped")
    /\ poll' = [poll EXCEPT ![s] = IF @ = "none" THEN "none" ELSE "stopped"]
    /\ UNCHANGED <<port, backlog, reading, connfd, accepted, events, group, daemonVars, dialVars>>

FreeClient(s) ==
    /\ At(s, "stopped", "freed")
    /\ group' = [group EXCEPT ![s] = "none"]
    /\ Withdrawn({s})
    /\ UNCHANGED <<port, backlog, reading, connfd, accepted, poll, events, daemonVars,
                   address, failed>>

CloseSocket(s) ==
    /\ At(s, "freed", "left")
    /\ Complete(s)
    /\ backlog' = [backlog EXCEPT ![s] = <<>>]
    /\ UNCHANGED <<port, reading, connfd, accepted, publishVars, daemonVars, dialVars>>

-----------------------------------------------------------------------------
ServerProgress(s) ==
    \/ Bind(s)
    \/ Listen(s)
    \/ PublishInit(s)
    \/ ControllerAccept(s)
    \/ ReadRegistry(s)
    \/ RemoteAccept(s)

Leave(s) == StopPoll(s) \/ FreeClient(s) \/ CloseSocket(s)

DaemonProgress == Renamed \/ \E s \in Server : Announce(s)

DaemonChoice == Rename \/ DaemonFail \/ \E s \in Server : EntryRefused(s)

Discover(c) ==
    \/ BrowserNew(c)
    \/ ResolverFound(c)
    \/ DiscoverFail(c)

DialerProgress(c) == Discover(c) \/ Dial(c) \/ DialFail(c) \/ SendRegistry(c)

Progress ==
    \/ \E s \in Server : ServerProgress(s) \/ ClientCallback(s)
    \/ \E c \in Dialer : DialerProgress(c)
    \/ DaemonProgress

Next ==
    \/ Progress
    \/ DaemonChoice
    \/ \E c \in Dialer : ResolverFailure(c)
    \/ \E s \in Server : Leave(s)

Spec == Init /\ [][Next]_vars

(* As long as a process, a publishing thread or the daemon has something   *)
(* to do, one of them does it. Each has finitely many steps to take, so    *)
(* none is forgotten. Ends, renames and every failure are chance.          *)
Fairness == WF_vars(Progress)

FairSpec == Spec /\ Fairness

-----------------------------------------------------------------------------
(* Whatever a browser can see can be dialled: its publisher listens on the *)
(* port it published, and nobody else does - while it starts, while the    *)
(* host changes its name and while it shuts down.                          *)
RecordsAreDialable ==
    \A s \in Server : Visible(s) =>
        /\ Listening(s)
        /\ \A r \in Server \ {s} : Listening(r) => port[r] # port[s]

(* The search for a port ends: with n servers nobody goes beyond the n-th  *)
(* port, although a port can be lost twice, to bind() and to listen().     *)
PortsSuffice == \A s \in Server : port[s] <= Cardinality(Server)

Connections(s) ==
    ({backlog[s][k] : k \in DOMAIN backlog[s]} \cup {reading[s]}
        \cup {connfd[s][d] : d \in AllSlots}) \ {Nobody}

(* Only those who looked for a server are connected to it. The exception:  *)
(* an address outlives its server, so a late dialer meets the next server  *)
(* that took the port.                                                     *)
ServesOwn ==
    \A s \in Server : \A c \in Connections(s) :
        Goal[c] = s \/ stage[Goal[c]] = "left"

(* A controller that has taken as many connections as it has domains has   *)
(* one of each domain: nobody registered over somebody else.               *)
AllRegistered ==
    \A s \in Server \ Remotes : Complete(s) =>
        \A d \in Slots(s) : connfd[s][d] \in Clients(s) /\ Domain[connfd[s][d]] = d

(* Everybody that a server waits for finds it, in whatever order they are  *)
(* started and although the host is renamed meanwhile - unless its name is *)
(* not or no longer published, or a stranger holds it up. That needs as    *)
(* many who can hear of it as it has slots: a dialer whose resolver failed *)
(* is deaf until the entry is withdrawn and announced again, which nobody  *)
(* does on its account.                                                    *)
Unpublished(s) ==
    stage[s] \notin {"search", "bound", "listening"} /\ poll[s] # "polling"

HeldUp(s) == \E c \in Connections(s) : Goal[c] # s

Heard(s) ==
    Cardinality({c \in Clients(s) : step[c] # "deaf"}) >= Cardinality(Slots(s))

FullHouse ==
    \A s \in Server :
        []<>Heard(s) => <>(Complete(s) \/ Unpublished(s) \/ HeldUp(s))
=============================================================================
