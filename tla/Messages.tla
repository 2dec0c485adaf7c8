------------------------------ MODULE Messages ------------------------------
(***************************************************************************)
(* What a controller and the logical processes (the domains) of one run    *)
(* share: the description of the simulated platform, the messages of       *)
(* yapsc_message.proto and the two streams of every control connection.    *)
(* A stream delivers whole messages in order; the byte framing that gives  *)
(* this is the subject of another component (send_string_tcp and           *)
(* recv_string_tcp).                                                       *)
(***************************************************************************)
EXTENDS Integers, Sequences, FiniteSets

CONSTANTS
    N,            \* "domains" of controller.cc: the largest id of partition.yapsc
    Backend,      \* backend_name() of the controller and of its clients
    Socket,       \* names of target sockets: MODULE_SOCKET
    Home,         \* Home[s]: the domain whose process holds target socket s
    Users         \* Users[s]: the domains with an initiator for target socket s

Domains == 1 .. N

ASSUME NAssumption == N \in Nat \ {0}
ASSUME BackendAssumption == Backend \in {"TCP", "UDS", "MPI"}
ASSUME PlatformAssumption == /\ Home \in [Socket -> Domains]
                             /\ Users \in [Socket -> SUBSET Domains]
                             /\ IsFiniteSet(Socket)

(* Sockets served to other processes: bind() erases from targets what a    *)
(* local initiator takes, and makes a remote wrapper of each of the rest.  *)
Exported(d) == {s \in Socket : Home[s] = d /\ d \notin Users[s]}

(* Sockets of other processes that an initiator of d is to be bound to.    *)
Imported(d) == {s \in Socket : d \in Users[s] /\ Home[s] # d}

Wrapped(d) == Exported(d) \cup Imported(d) # {}

-----------------------------------------------------------------------------
(* The address of a socket: its domain and the port, path index or tag in  *)
(* that domain. Port 0 and domain 0 stand for an unknown socket.           *)
Address == [domain : Nat, port : Nat]
NoAddress == [domain |-> 0, port |-> 0]

Calls == {"FILE", "SBRK", "EXIT"}   \* FILE: the eight calls on files
Status == Int                       \* 0: the simulation was stopped

(* "id" stands for the arguments and results that tie an answer to its     *)
(* call; "value" is the mode of EXIT and, of SBRK, the increment in the    *)
(* call and the pointer in its answer.                                     *)
SyscallMessage == [type : {"SYSCALL"}, call : Calls, id : Nat, value : Int]

Message ==
         [type : {"DOMAIN_REGISTRY", "BARRIER"}]
    \cup [type : {"END"}, status : Status]
    \cup [type : {"TARGET_SOCKET_REGISTRY", "TARGET_SOCKET_QUERY"},
          socketname : Socket, address : Address]
    \cup SyscallMessage

DomainRegistry == [type |-> "DOMAIN_REGISTRY"]
Barrier == [type |-> "BARRIER"]
End(status) == [type |-> "END", status |-> status]
Registry(s, a) ==
    [type |-> "TARGET_SOCKET_REGISTRY", socketname |-> s, address |-> a]
Query(s, a) ==
    [type |-> "TARGET_SOCKET_QUERY", socketname |-> s, address |-> a]
Syscall(call, id, value) ==
    [type |-> "SYSCALL", call |-> call, id |-> id, value |-> value]

(* An accessor of a field that the message does not carry returns the      *)
(* default of the field: a reader that does not look at the type reads 0.  *)
AddressIn(m) ==
    IF m.type = "TARGET_SOCKET_QUERY" THEN m.address ELSE NoAddress
PointerIn(m) == IF m.type = "SYSCALL" THEN m.value ELSE 0

-----------------------------------------------------------------------------
VARIABLES
    up,       \* up[d]: what d sent and the controller has not received
    down,     \* down[d]: what the controller sent and d has not received
    linked    \* the controller's ends of the connections are open

channelVars == <<up, down, linked>>

ChannelTypeOK ==
    /\ up \in [Domains -> Seq(Message)]
    /\ down \in [Domains -> Seq(Message)]
    /\ linked \in BOOLEAN

ChannelInit ==
    /\ up = [d \in Domains |-> <<>>]
    /\ down = [d \in Domains |-> <<>>]
    /\ linked = TRUE

(* The two ways either side changes its connection with d: it appends to   *)
(* the stream it writes and takes the head of the stream it reads.         *)
Sent(stream, d, m) == [stream EXCEPT ![d] = Append(@, m)]
Received(stream, d) == [stream EXCEPT ![d] = Tail(@)]
=============================================================================
