---------------------------- MODULE ClientSerial ----------------------------
(***************************************************************************)
(* A client: the process of one domain, from YAPSC_INIT to YAPSC_FINALIZE. *)
(* Its main thread owns the control connection; the simulation runs on the *)
(* same thread inside sc_start(), so at most one call is under way. A step *)
(* ends where the process blocks or leaves the library.                    *)
(***************************************************************************)
EXTENDS Messages

CONSTANTS
    SetupCalls,   \* SetupCalls[d]: system calls made while d builds its modules
    RunCalls,     \* RunCalls[d]: system calls made by the simulation of d
    Stoppers,     \* domains whose own modules may call sc_stop()
    Failing,      \* domains whose sc_start() may throw, or run out of events
    Quitters,     \* domains that may finalize without having started
    Increments,   \* what sbrk is called with, as it arrives in an int32
    MaxCalls      \* bound: system calls per domain

ASSUME UseAssumption == /\ SetupCalls \in [Domains -> SUBSET Calls]
                        /\ RunCalls \in [Domains -> SUBSET Calls]
                        /\ Stoppers \subseteq Domains
                        /\ Failing \subseteq Domains
                        /\ Quitters \subseteq Domains
                        /\ Increments \subseteq Int
                        /\ MaxCalls \in Nat

VARIABLES
    pc,        \* where the process of each domain is
    remotes,   \* remotes[d]: sockets with a remote wrapper, in order of port
    proxies,   \* proxies[d][s]: where the proxy wrapper of d for s connected
    stop,      \* stop[d]: sc_stop() was called in d
    calls,     \* calls[d]: system calls d has made
    pending,   \* pending[d]: the system call d made last
    granted    \* granted[d]: the regions sbrk returned in d, in order

clientVars == <<pc, remotes, proxies, stop, calls, pending, granted>>

(* What the caller of sbrk takes for its own: the pointer that came back   *)
(* and as much as it asked for.                                            *)
Region == [base : Int, size : Int]

Waiting == {"waitModules", "waitBind", "waitAddress", "waitStart",
            "waitSetupCall", "waitRunCall"}
Idle == {"connect", "setup", "binding", "querying", "run", "ended"}
Gone == {"closed", "left", "killed"}

ClientTypeOK ==
    /\ pc \in [Domains -> Waiting \cup Idle \cup Gone]
    /\ remotes \in [Domains -> Seq(Socket)]
    /\ proxies \in [Domains -> [Socket -> Address]]
    /\ stop \in [Domains -> BOOLEAN]
    /\ calls \in [Domains -> 0 .. MaxCalls]
    /\ pending \in [Domains -> SyscallMessage]
    /\ granted \in [Domains -> Seq(Region)]

ClientInit ==
    /\ pc = [d \in Domains |-> "connect"]
    /\ remotes = [d \in Domains |-> <<>>]
    /\ proxies = [d \in Domains |-> [s \in Socket |-> NoAddress]]
    /\ stop = [d \in Domains |-> FALSE]
    /\ calls = [d \in Domains |-> 0]
    /\ pending = [d \in Domains |-> Syscall("FILE", 0, 0)]
    /\ granted = [d \in Domains |-> <<>>]

-----------------------------------------------------------------------------
Goto(d, from, to) == pc[d] = from /\ pc' = [pc EXCEPT ![d] = to]

Send(d, m) == up' = Sent(up, d, m) /\ UNCHANGED <<down, linked>>

Receive(d) ==
    /\ down[d] # <<>>
    /\ down' = Received(down, d)
    /\ UNCHANGED <<up, linked>>

(* The constructor connects, registers the domain and waits for the names  *)
(* of its modules.                                                         *)
Connect(d) ==
    /\ Goto(d, "connect", "waitModules")
    /\ Send(d, DomainRegistry)
    /\ UNCHANGED <<remotes, proxies, stop, calls, pending, granted>>

GetModules(d) ==
    /\ Goto(d, "waitModules", "setup")
    /\ Receive(d)
    /\ UNCHANGED <<remotes, proxies, stop, calls, pending, granted>>

-----------------------------------------------------------------------------
(* start(): bind() first makes the remote wrappers and registers each one, *)
(* in the fixed order of the map of targets. The wrapper listens before it *)
(* is registered, and its port is its place among those of the domain.     *)
First(S) == CHOOSE s \in S : TRUE

Unregistered(d) == {s \in Exported(d) : \A k \in DOMAIN remotes[d] : remotes[d][k] # s}

Unbound(d) == {s \in Imported(d) : proxies[d][s].port = 0}

Start(d) ==
    /\ Goto(d, "setup", "binding")
    /\ UNCHANGED <<channelVars, remotes, proxies, stop, calls, pending, granted>>

MutantPort(d) == Len(remotes[d])

Port(d) == Len(remotes[d]) + 1

Register(d) ==
    /\ pc[d] = "binding"
    /\ Unregistered(d) # {}
    /\ LET s == First(Unregistered(d))
       IN /\ Send(d, Registry(s, [domain |-> d, port |-> Port(d)]))
          /\ remotes' = [remotes EXCEPT ![d] = Append(@, s)]
    /\ UNCHANGED <<pc, proxies, stop, calls, pending, granted>>

(* MPI waits here until every domain has registered; the sockets do not.   *)
MutantBarrierInBind == FALSE

BarrierInBind == Backend = "MPI"

Registered(d) ==
    /\ ~ BarrierInBind
    /\ Unregistered(d) = {}
    /\ Goto(d, "binding", "querying")
    /\ UNCHANGED <<channelVars, remotes, proxies, stop, calls, pending, granted>>

AskBind(d) ==
    /\ BarrierInBind
    /\ Unregistered(d) = {}
    /\ Goto(d, "binding", "waitBind")
    /\ Send(d, Barrier)
    /\ UNCHANGED <<remotes, proxies, stop, calls, pending, granted>>

(* action_barrier takes whatever comes for the release.                    *)
PassBind(d) ==
    /\ Goto(d, "waitBind", "querying")
    /\ Receive(d)
    /\ UNCHANGED <<remotes, proxies, stop, calls, pending, granted>>

(* Each initiator asks for its target until the answer has a port, then    *)
(* its proxy wrapper connects to that port.                                *)
Ask(d) ==
    /\ Unbound(d) # {}
    /\ Goto(d, "querying", "waitAddress")
    /\ Send(d, Query(First(Unbound(d)), NoAddress))
    /\ UNCHANGED <<remotes, proxies, stop, calls, pending, granted>>

Bind(d) ==
    /\ Goto(d, "waitAddress", "querying")
    /\ Receive(d)
    /\ proxies' = [proxies EXCEPT
                     ![d][First(Unbound(d))] = AddressIn(Head(down[d]))]
    /\ UNCHANGED <<remotes, stop, calls, pending, granted>>

AskStart(d) ==
    /\ Unbound(d) = {}
    /\ Goto(d, "querying", "waitStart")
    /\ Send(d, Barrier)
    /\ UNCHANGED <<remotes, proxies, stop, calls, pending, granted>>

PassStart(d) ==
    /\ Goto(d, "waitStart", "run")
    /\ Receive(d)
    /\ UNCHANGED <<remotes, proxies, stop, calls, pending, granted>>

-----------------------------------------------------------------------------
(* A system call sends its arguments and blocks for the next message; what *)
(* that message is only matters to a log line. EXIT sends its status, SBRK *)
(* its increment.                                                          *)
Arguments(call) ==
    CASE call = "EXIT" -> {0, 1}
      [] call = "SBRK" -> Increments
      [] OTHER -> {0}

Request(d, call) ==
    /\ calls[d] < MaxCalls
    /\ calls' = [calls EXCEPT ![d] = @ + 1]
    /\ \E value \in Arguments(call) :
         /\ pending' = [pending EXCEPT ![d] = Syscall(call, calls'[d], value)]
         /\ Send(d, Syscall(call, calls'[d], value))
    /\ UNCHANGED <<remotes, proxies, stop, granted>>

SetupCall(d) ==
    /\ Goto(d, "setup", "waitSetupCall")
    /\ \E call \in SetupCalls[d] : Request(d, call)

RunCall(d) ==
    /\ Goto(d, "run", "waitRunCall")
    /\ \E call \in RunCalls[d] : Request(d, call)

Returned(d) ==
    [base |-> PointerIn(Head(down[d])), size |-> pending[d].value]

Answer(d) ==
    /\ \/ Goto(d, "waitSetupCall", "setup")
       \/ Goto(d, "waitRunCall", "run")
    /\ Receive(d)
    /\ granted' = IF pending[d].call = "SBRK"
                    THEN [granted EXCEPT ![d] = Append(@, Returned(d))]
                    ELSE granted
    /\ UNCHANGED <<remotes, proxies, stop, calls, pending>>

-----------------------------------------------------------------------------
(* can_continue(), polled every nanosecond by each wrapper but those of    *)
(* the UDS backend: any message stops the simulation.                      *)
Polls(d) == Backend # "UDS" /\ Wrapped(d)

(* A remote wrapper of MPI first waits for its proxy, in a thread of the   *)
(* simulation: time stands still until every socket of d has a proxy.      *)
Attached(d) ==
    Backend = "MPI" =>
        \A s \in Exported(d) : \E e \in Domains : proxies[e][s].port # 0

MutantPollStops(d) == stop

PollStops(d) == [stop EXCEPT ![d] = TRUE]

Poll(d) ==
    /\ pc[d] = "run"
    /\ Polls(d)
    /\ Attached(d)
    /\ Receive(d)
    /\ stop' = PollStops(d)
    /\ UNCHANGED <<pc, remotes, proxies, calls, pending, granted>>

(* A module of the platform calls sc_stop().                               *)
Stop(d) ==
    /\ pc[d] = "run"
    /\ d \in Stoppers
    /\ ~ stop[d]
    /\ stop' = [stop EXCEPT ![d] = TRUE]
    /\ UNCHANGED <<channelVars, pc, remotes, proxies, calls, pending, granted>>

(* sc_start() returns after sc_stop(): END with status 0.                  *)
Finish(d) ==
    /\ stop[d]
    /\ Attached(d)
    /\ Goto(d, "run", "ended")
    /\ Send(d, End(0))
    /\ UNCHANGED <<remotes, proxies, stop, calls, pending, granted>>

(* sc_start() throws, or returns because no event is left, which the       *)
(* timed loop of a wrapper excludes: END with status 1.                    *)
Fail(d) ==
    /\ d \in Failing
    /\ ~ stop[d]
    /\ Goto(d, "run", "ended")
    /\ Send(d, End(1))
    /\ UNCHANGED <<remotes, proxies, stop, calls, pending, granted>>

(* YAPSC_FINALIZE without YAPSC_START: the destructors of the socket       *)
(* clients send END with status 2, the one of MPI goes to MPI_Barrier.     *)
MutantQuitStatus == 0

QuitStatus == 2

Quit(d) ==
    /\ d \in Quitters
    /\ IF Backend = "MPI"
         THEN Goto(d, "setup", "left") /\ UNCHANGED channelVars
         ELSE Goto(d, "setup", "ended") /\ Send(d, End(QuitStatus))
    /\ UNCHANGED <<remotes, proxies, stop, calls, pending, granted>>

Close(d) ==
    /\ Goto(d, "ended", "closed")
    /\ UNCHANGED <<channelVars, remotes, proxies, stop, calls, pending, granted>>

(* The controller is gone: a send may raise SIGPIPE, and a blocking        *)
(* receive returns NULL, which the caller dereferences.                    *)
Die(d) ==
    /\ ~ linked
    /\ \/ pc[d] \in {"setup", "binding", "querying", "run"}
       \/ pc[d] \in Waiting /\ down[d] = <<>>
    /\ pc' = [pc EXCEPT ![d] = "killed"]
    /\ UNCHANGED <<channelVars, remotes, proxies, stop, calls, pending, granted>>

(* What a domain does on its own, whatever its modules do.                 *)
ClientProgress(d) ==
    \/ Connect(d)
    \/ GetModules(d)
    \/ Start(d)
    \/ Register(d)
    \/ Registered(d)
    \/ AskBind(d)
    \/ PassBind(d)
    \/ Ask(d)
    \/ Bind(d)
    \/ AskStart(d)
    \/ PassStart(d)
    \/ Answer(d)
    \/ Poll(d)
    \/ Finish(d)

(* What depends on the program that uses the library, or on chance.        *)
ClientChoice(d) ==
    \/ SetupCall(d)
    \/ RunCall(d)
    \/ Stop(d)
    \/ Fail(d)
    \/ Quit(d)
    \/ Die(d)
=============================================================================
