# Verification of yapsc

yapsc splits one SystemC/TLM simulation over several processes. This directory
holds a TLA+ model of it: modules translated from `src/`, TLC configurations
that check them on small instances, and proofs for any number of processes.
Paths below are relative to the repository, and `core/`, `tcp/`, `uds/`, `mpi/`
stand for `src/core/` and so on.

## The system

A *domain* is one process that simulates some modules of the platform. A
*controller* process starts and ends the run. Three backends carry the same
protocol: TCP, Unix sockets (UDS) and MPI.

| Part | State | Operations | Talks to |
|---|---|---|---|
| controller (`core/controller_serial.cc`, `tcp/`, `uds/`, `mpi/controller.cc`) | connections, `ending`, `ending_notify`, `ending_status`, a static barrier counter, map of target sockets, a static heap break, three callbacks | accept domains, then poll them round robin: registry, query, barrier, system call, END | clients, by messages |
| client (`core/client_serial.cc`, `tcp/`, `uds/`, `mpi/client.cc`) | control connection, maps of initiators and targets, wrappers | constructor, `bind()`, start barrier, `sc_start()`, system calls, `can_continue()`, END, destructor | controller; kernel of SystemC; wrappers |
| connection (`tcp/`, `uds/connection.cc`) | bytes on the way | `send_string`, `recv_string` waiting or polling | used by controller, clients and wrappers |
| proxy and remote wrappers (`*/tlm_proxy.cc`, `*/tlm_remote.cc`, `core/tlm_wrapper_serial.cc`) | a connection, payloads and who owns them | `nb_transport_fw`/`bw`, `proc_in`, `encode_payload`, `decode_payload`, accepting thread | modules of the platform by calls, each other by messages |
| partition file (`core/controller.cc`) | domain of each module | read once | controller |
| API, single-process and virtual client (`core/api.cc`, `core/client_sc.cc`, `core/client_virtual.cc`, macros of `core/yapsc.h`) | callbacks, maps of sockets | bind and call the kernel | user program |
| zeroconf (`tcp/zeroconf_*.cc`) | an entry group and a poll loop in a thread (publisher), a browser and its resolvers (discovery) | publish a name and a port, discover them, shut down | Avahi daemon by callbacks; controller and clients, test wrappers |
| start-up over TCP (`start_server()`, `connect_server()`, `connection_get()`, `wait_connection()`) | a port, a listening socket, accepted connections | look for a free port, listen, connect 20 times, accept | kernel of the host; zeroconf |

What is hard in it:

- every blocking receive of a client takes *the next message*, whatever its
  type; a wrong type is only logged. END is sent by the controller at any time,
  so it competes with barrier releases, addresses, module names and answers;
- the end is a distributed count: a domain that ends is counted, the others are
  told, stop and are counted in turn, and domains can end at the same time;
- the barrier counter and the heap break are shared by all the domains;
- a stream gives and takes any number of bytes, and wrappers poll it;
- a payload crosses address spaces: its owner is named by a number and an
  address, and intermediate copies have to be freed exactly once;
- a process has one thread for both directions of its connections;
- processes are started in any order and find each other by name: a port can be
  lost to another server between `bind()` and `listen()`, the publisher lives in
  a thread of its own, the daemon may rename the host or fail at any time, and
  an address that was discovered can outlive its server, and a resolver can fail
  at any time;
- in one process, what `sc_start()` and the callbacks throw decides which
  callback the user sees.

Correctness, per part: all start together and after everything is bound; every
initiator is bound to the socket it names; one verdict for the user, that of
the first end; the controller returns last; system calls get their own answers
and disjoint regions of the heap; frames come out as they went in; each
transaction comes back once, with its answer, and leaves no payload behind; what
is published can be dialled, everybody reaches the server it looked for, and
all that a server waits for arrive; the user of a single process gets the
verdict that fits.

## Modules

| Module | Models |
|---|---|
| `Messages` | platform constants, messages of `yapsc_message.proto`, the two streams of each control connection |
| `ControllerSerial` | controller, from `before_start()` to its destructor |
| `ClientSerial` | client of each domain, from `YAPSC_INIT` to `YAPSC_FINALIZE` |
| `ControlPlane` | the two composed, fairness, all properties of the control plane |
| `Lifecycle` | abstract: what a user is promised (`docs/ipc.pu`); `ControlPlane` implements it |
| `Connection` | one direction of a TCP or UDS connection, byte by byte |
| `Channel` | abstract: whole messages in order; `Connection` implements it, and `Messages` and MPI connections are taken to be it |
| `TlmBridge` | transactions on a chain of domains, through proxies and remotes |
| `Rendezvous` | servers and dialers of the TCP backend: ports, publication and discovery, connect and accept, shutdown |
| `SingleProcess` | a platform in one process: the SystemC client, the virtual client, the macros without a library; implements `Lifecycle` |
| `ControlPlaneProof` | theorems about `ControlPlane`: types, the end, the common start |
| `ControlPlaneBindProof` | the addresses of the target sockets |
| `ControlPlaneRunProof` | callbacks and verdict, the steps of `Lifecycle`, runs in which a domain quits |
| `ControlPlaneCallsProof` | system calls and the heap |
| `ConnectionProof`, `TlmBridgeProof`, `RendezvousProof`, `SingleProcessProof` | theorems about the module each is named after |
| `MCControlPlane`, `MCConnection`, `MCTlmBridge`, `MCRendezvous` | values of constants for TLC |

Names starting with `Mutant` are wrong variants of the definition that follows
them. No specification uses them; with one of them in place of the definition,
the property it is listed with in `PROJECT.json` fails, which shows that the
property depends on that piece of code.

### How state and actions correspond to the code

**Control plane.** The variables of `ControllerSerial` have the names of the
fields and statics of the class (`counter` is the static of `action_barrier`,
`cursor` the `i` of the loop in `start()`). One turn of the loop is one action:
receiving a message, acting on it and sending the answers, because no other
process reads what the controller has and a client running in between sees the
same streams. `NotifyEnd` and `Skip` are the turn in which nothing was received.
`armed` says which callback pointers are not NULL and `fired` in which order
they were called. The eight system calls on files are one (`FILE`): they differ
in data only. `heap_sbrk` moves by the increment of the call, an integer of either
sign that the code does not look at; `granted` holds what the callers take for
theirs, the pointer that came back and the size they asked for. The break is a
`uint64_t` in the code and an integer in the model: with increments of 32 bits it
takes 2^32 calls to come round.

`pc` of `ClientSerial` says where the process blocks (`wait...`) or is. A step
ends where the process blocks or returns to the program. `Quit` is the
destructor without a start, `Fail` an `sc_start()` that throws or returns
without `sc_stop()`, `Stop` a module that calls `sc_stop()`; which domains may
do that, and which calls they make, are constants (`Failing`, `Quitters`,
`Stoppers`, `SetupCalls`, `RunCalls`). `Die` is a process whose controller has
gone: a send raises SIGPIPE, a waiting receive returns NULL, which the callers
dereference; what had arrived before can still be received. `Polls` is false
for UDS, whose wrappers do not call `can_continue()`. The destructors of MPI
meet in `MPI_Barrier` (`Leaving`), and a remote wrapper of MPI lets its thread do
nothing before the message of its proxy is there (`Attached`): the simulation
then neither polls nor stops by `can_continue()`. Ports, socket paths and MPI tags are indexes
from 1 in each domain. The order in which `bind()` walks its maps is fixed but
arbitrary (`First`). The branch for an unknown message type is not reached:
clients send only the types the switch knows. `Done` is a stutter of a run that
is over, so that deadlock is checked in every run.

**Connection.** `Write` is one `send()`, of any number of bytes that fit the
send buffer; a full buffer (EAGAIN) leaves it disabled, which is the loop around
it. `Arrive` is the network. `ReceiveLength` is the first `recv()`: with
`EarlyPolls = FALSE` it sees the whole length, as a receive that waits does;
with TRUE it may see a part, as a poll may. The length is then what was taken,
other bytes 0, and 0 means "nothing there" though bytes were consumed.
`ReceiveText` waits for all the bytes, in polls too. Connections that fail are
left out.

**TlmBridge.** `heap[d][p]` is the payload at address `p` in domain `d`, with
the extension (`owner`) that `decode_payload` gives to payloads of other
domains. `Forwarded` is `send_payload`: encode, free if it has an extension,
send. A module between two hops (a bus) hands a payload from its remote to its
proxy and back, inside the call. Threads of the kernel run one at a time, each
once in a nanosecond (`ran`); a domain with a message it cannot send yet
(`sending`) runs nothing else. Domains are not synchronised with each other.
The initiator and the target are those of `tests/tcp-tlm`, but the target may
answer late and in any order. Only fields the properties tell apart are kept:
owner, data, byte enables. The wait of an MPI remote for its proxy is part of
`ClientSerial`, not of the bridge.

**Rendezvous.** It describes what happens before the first message of the
control plane, and before the first payload, over TCP on one host. Servers are
controllers and, as in `tests/tcp-tlm-fork`, remote wrappers that publish
themselves; dialers are clients and proxy wrappers. `stage` is the main thread
of a server: `search` and `bound` are the loop over `start_server()` (port 1
stands for 2048), `listening` is before and `open` after
`tcp_zeroconf_publish_init()`, `stopped` and `freed` are the two parts of
`tcp_zeroconf_publish_shutdown()`, `left` is after `close()`. `Taken` is what
SO_REUSEADDR leaves of `bind()` and `listen()`: both fail only if somebody
listens, so two servers may bind one port. `poll` is the thread of
`avahi_threaded_poll`, which calls `client_callback` with the states of the
daemon in the order they happened (`events`); `group` is the entry group.
Publication can fail inside `create_services`, when the daemon refuses the name,
or later in `entry_group_callback`; in either case the loop quits and nobody
else is told. A resolver may fail or time out whatever the daemon does
(`ResolverFailure`); it is not started again, and its dialer is `deaf`. When the
record is withdrawn and announced anew the browser reports a new service, and
the search goes on (`Withdrawn`). Resolvers for other names, and for addresses
that are no IPv4 addresses, only free themselves and are left out. `Dial` is a
`connect()` that the host accepts into the backlog of whoever listens on the
port; `DialFail` is one of the 20 that are refused. A controller accepts and
waits for one registry at a time; a remote accepts once, in its own thread, from
whoever comes. The Avahi daemon (`Announce`, `Rename`, `Renamed`, `DaemonFail`,
`Told`) and the host are external. The backlog of 10 is not reached.

**SingleProcess.** One thread, so `pc` follows `start()` line by line; `armed` are
the callback pointers that are not NULL, `outcome` is how `sc_start()` ended. The
three variants differ where the code does: the virtual client has neither sockets
nor callbacks, and the macros of `core/yapsc.h` test the callback that comes
before the simulation where they mean the one for its success (`Guard`), so a
program that gives one of the two without the other calls NULL or is not told
(`NullSuccess`, `NoSuccess`). They also differ in how they report. The clients
log; the macros call `SC_REPORT_ERROR`, which by default throws. That happens in
the clause that catches what is no `std::exception` (`unknown`, `CatchThrows`) and
where nobody stopped the simulation, before `sc_stop()` and the error callback
(`ReportThrows`): `YAPSC_START` is then left by the exception (`thrown`). A program
that changes the actions of SystemC reports (the code changes only those for
`/IEEE_Std_1666/deprecated`) is left out. `stopped` is
`sc_end_of_simulation_invoked()`; a callback may call `sc_stop()` too. The kernel and the callbacks are external.

## Runs

| Run | Question | Result |
|---|---|---|
| `control_tcp` | Is everything right, in every interleaving, in a run in which every domain starts and none calls EXIT? Do all leave once one has ended, and is the whole a `Lifecycle`? Three domains in a ring, calls on files before and after the start, two that may stop and one that may fail | holds |
| `control_mpi` | Do the two uses of the one barrier, the registration in order of rank, and remotes that wait for their proxies, disturb each other? Do all start, do all leave, is it a `Lifecycle`? Are answers at most one late? | holds |
| `control_early_end` | What is left of the verdict when a domain quits early and another calls EXIT? Until it, are the regions of the heap apart, and is its break one for all, with sbrk before and during the simulation and increments of either sign? | holds |
| `startup` | Is what is published dialable, does the search for ports end, is everybody served by its own server, do all arrive? With a rename or a failure of the daemon, resolvers that fail, a refused entry, and servers that end | holds |
| `single` | Does the user of one process get the verdict that fits, whatever throws? Is it a `Lifecycle`? | holds |
| `framing` | Do frames survive any cut into pieces, if polls see whole lengths? | holds |
| `bridge` | Do transactions come back, each with its answer, over a bus and ways of one message? | holds |
| `exit_counts_twice` | Does the controller return last, with EXIT? | violated |
| `end_answers_call` | Does a system call get its own answer when the run ends meanwhile? | violated |
| `uds_never_told` | Do all leave, over UDS? | violated |
| `early_poll` | Are strings intact if a poll meets part of a length? | violated |
| `byte_enables` | Is the answer in the payload, if it has byte enables? | violated |

The five violations are described, with the lines of the code and of the
documents or tests they disagree with, under `findings` in `PROJECT.json`.

`startup` does not check deadlock: a dialer that nobody serves, and a controller
whose name is not published, wait for good, as in the code. The other passing
runs do.

What holds with an exception says so in the property. `ServesOwn` and `FullHouse`
except dialers whose own server has left, because an address outlives its server
and the next server on that port accepts them; `FullHouse` also excepts a server
whose name is not published, because the code does not try again, and asks that
as many dialers as the server has slots are not deaf for good (`Heard`). The code
does not see to that: a resolver that fails while the record stays published is
not started again, and then the client and its controller wait for ever. A domain that
finalizes without having started releases the others from the start barrier by
the END that they take for the release (`core/client_serial.cc:111-120`):
`StartTogether` is therefore checked in runs without such a domain, and
`QuitIsNoSuccess` says what is left in one with it, over TCP and UDS; with MPI who
quits sends nothing, and no verdict falls.

`HeapDisjoint` speaks of runs in which nobody gives memory back. A negative
increment moves the one break under the regions of the others: if domain 1 and
domain 2 ask for 100 each, and domain 1 then for -100 and 100, it gets the region
of domain 2. No document says who may give memory back, so this is a condition and
not a finding; `OneHeap` says what holds for any increments. Both hold until the
verdict, which falls with the first END: an END may then be taken for the answer of
a call.

`VerdictFits` speaks of those who get back from `start()`, and says of those whom
the macros leave with an exception that no error callback was called.

### Bounds

- Two or three domains. Three are needed for a domain that is neither the one
  that ends first nor the one that is counted last, and for a ring of
  initiators, in which nobody can bind before somebody else has registered and
  one domain registers two sockets. The theorems below have no bound.
- `MaxCalls` 0 to 2 calls per domain: two in `control_mpi`, so that a second call
  can meet the late answer of the first. A domain that always has something to say
  is never told of the end, as the controller gives notice only in a turn in which
  nothing came; with bounded calls that does not occur, so `EverybodyLeaves` is
  about domains that fall silent.
- The heap in `control_early_end`: two domains with two calls each, at any time, with
  the increments -1, 0 and 2. Each domain can meet the break before, between and after the calls of the
  other; the theorem on `HeapDisjoint` has no bound.
- `startup`: a controller with two clients and one remote wrapper with two
  proxies, so that two servers compete for a port, two clients register in any
  order, and one proxy too many stays in the backlog. Two connects stand for 20:
  one that is refused and repeated, and one that is the last. `MaxChanges` 1: one
  rename, or one failure, at any moment; a second rename would meet each process
  where the first one did, for a loop has no memory of it but `events` and `group`.
  Resolvers fail as often as they are started. Every process has a domain of its
  own: two processes that claim one domain are not covered by `AllRegistered`.
- `single`: two sockets, so that one can be bound before the other turns out to
  have no target, and every set of callbacks.
- `framing`: two values of a byte, two bytes of length, two bytes of buffer.
  The buffer is smaller than the longest frame; one length has a low byte of 0,
  and some texts read as lengths. Base and header are 256 and 4 in the code; the
  theorems have them arbitrary.
- `bridge`: three domains, three transactions over two addresses, so an address
  is used again, and one message per way, so domains do wait in a send. With
  two transactions under way the two directions of a hop are never both full.
  With more they can be: the initiator and the target then wait for each other
  in `send_string`, and `Returns` does not hold.

### Fairness

`Spec` of `ControlPlane` has none; `FairSpec` adds weak fairness of the
controller, which polls in a loop without a condition, and of each client
process, which the operating system schedules. Stopping, failing, quitting and
calling are choices of the user program and get none, so `EverybodyLeaves` only
promises something once a domain has ended. In `Connection` both ends call again
until they are done and the network delivers. In `TlmBridge` each process is
scheduled, the accepting thread too; a target answers in the end (strong
fairness, as its turn comes and goes with the nanosecond). In `Rendezvous` it is
enough that some process moves as long as one can (weak fairness of `Progress`):
each process, thread and daemon has finitely many steps to take between two
changes of the daemon, so none is overtaken for ever. Renames, failures of the
daemon and of resolvers, refusals and the end of a server are chance and get none. `SingleProcess` is
checked for safety only.

## Proofs

`tlapm` checks every step. The theorems have no bound: any number of domains,
sockets, servers, dialers, texts, transactions and hops, any values of the other
constants that satisfy the named assumptions of the modules. All invariants of
the passing runs but `OneHeap` are proved, and the safety part of the three
refinements.

### Control plane

The assumptions are those of `Messages` and `ClientSerial`: `N` a positive
integer, `Home` and `Users` functions to domains and sets of domains, `Socket`
finite, the choice constants of the right type. Some theorems have a hypothesis
about what the programs do, because without it the code does otherwise:

| Hypothesis | Meaning | Without it |
|---|---|---|
| `NoExit` | no domain uses the system call EXIT | a domain is counted twice (run `exit_counts_twice`) |
| `NoQuit` | every domain that is constructed starts | its END releases others from the start barrier (`core/client_serial.cc:111-120`) |
| `OneInitiator` | a socket with an initiator in its own domain has none elsewhere | its home binds it and does not register it, and a query for it gets no port |
| `NoEarlyExit` | no EXIT before the simulation | EXIT 0 is reported as a success though nobody started |

None excludes failures, several domains that stop at once, calls on files, or an
order of messages.

- `TypeCorrect`: `Spec => []TypeOK`. Not only types: `ending` and `counter` stay
  in `0 .. N`, which EXIT could break if it could make `ending` pass below 0; it
  cannot, since an end at 0 starts the count again.
- `EndInvariant`, `EndingCountCorrect`, `ReturnsLastCorrect` (`NoExit`): `ending`
  is the number of domains whose END has not been received, and the controller
  returns only when it has received them all. `EndingCount` and `ReturnsLast`
  speak of `Counted`, the domains that have ended and whose stream is empty. That
  is not inductive: after a step that empties the stream of an ended domain one
  must know that the last message was its END. `EndInv` therefore adds
  `StreamInv`: an END is only in the stream of a domain that has ended and only as
  its last message; a domain that has ended and whose stream is not empty has its
  END there; there is no EXIT in any stream. It also says that `returned` means
  `Counted = Domains`, which tells the two zeros of `ending` apart (nobody has
  ended, everybody has).
- `StartInvariant`, `StartTogetherCorrect` (`NoExit`, `NoQuit`): no simulation
  runs before all domains are bound and at the barrier. `StartInv` says how far
  the conversation of each domain is (`Sessions`: at most one message under way,
  and of which type, for each place in the client), that the domains are in the
  same round of barriers (`SameRound`: with MPI, one for `bind()` and one for the
  start, on one counter), and that the counter is `N` less those who have arrived
  (`BarrierCount`). END is only in the streams of domains that were released, and
  when one was, all were.
- `BindsToHomeCorrect` (`NoExit`, `NoQuit`): a proxy connects to the remote of its
  socket. `AddressInv` follows an address: it is right in the registration that is
  under way, in `targets`, in the answer under way and in the proxy.
- `NoMissedQueryCorrect` (`NoExit`, `NoQuit`, `OneInitiator`, MPI): every query is
  answered with a port. `QueryInv` adds that a socket that was registered is in
  the map or its registration is under way, and that nothing is under way once
  the barrier of `bind()` is open.
- `OneVerdictCorrect` (no hypothesis): at most one verdict, each callback at most
  once. `VerdictInv`: what was called is not armed any more, and the two verdicts
  are disarmed together.
- `CallbacksInOrderCorrect`, `LifecycleCorrect` (`NoExit`, `NoQuit`): first
  `before_simulation`, then the verdict of the first END; and every step of the
  control plane is a step of `Lifecycle` or leaves it alone. `RunInv` is
  `StartInv` with `CallbackInv` (what has been called, by how far the end is) and
  `EndStatus` (an END says how its domain ended).
- `QuitIsNoSuccessCorrect` (`NoEarlyExit`): a run in which a domain finalized
  without a start is no success. `QuitInv`: the domains counted at the barrier,
  those who may still come and those who quit are different, so the barrier stays
  closed (`GateInv`), and before the verdict nobody is past it otherwise
  (`EarlyInv`). With MPI who quits sends nothing at all.
- `AnswersAtMostOneLateCorrect` (`NoExit`, `NoQuit`): calls and answers under way
  are at most the one the domain waits for and, after it took END for an answer,
  one more. `LateInv` counts them, and the ENDs, in each pair of streams.
- `HeapDisjointCorrect` (`NoExit`, `NoQuit`): the regions that sbrk returned, before
  and during the simulation, are apart until the verdict, as long as nobody gives
  memory back. `HeapInv`: while no domain ended and no increment was negative, what was granted and the
  region on its way are below the break and apart, and the call answered is the one
  that was made; once the premise of the property is false it stays false,
  so the invariant never has to be regained. `CallbacksInOrder` says that the verdict
  falls with the first END.

### Connection

`BaseAssumption` (at least two values of a byte), `HeaderAssumption`,
`BufferAssumption` and `TextsAssumption`: texts are sequences of bytes, not empty
(`send_string` refuses those) and short enough for a length. The hypothesis is
`~ EarlyPolls`: no poll meets a part of a length. The code does not see to that
(run `early_poll`); it is true as long as a header travels in one piece.

- `EncodedBytes`: `Decoded(Encoded(n)) = n` for every length. The digits of `n`
  decide it (`DigitsDecide`), from lemmas on division by powers of the base.
- `TypeCorrect`, `InStepCorrect`, `IntactCorrect`, and `ChannelCorrect`, the step
  part of `ImplementsChannel`. The inductive invariant `FrameInv` gives the sender
  and the receiver each a place in the frames (`SenderPlace`, `ReceiverPlace`: a
  frame, its length or text, an offset) and says that the bytes on the way are
  those one meets on the way from the one place to the other (`Way`). A write
  prolongs the way at its end (`Extend`), a receive takes from its beginning
  (`Advance`), the network changes nothing. The way never leads back (`Forward`),
  so a text is delivered only when its frame was written, which is what `Channel`
  asks of `Deliver`. The way is not computed by a recursion but is a sequence of
  places, so that the induction over its length is one over a set of numbers
  (`Inductive`).

### TlmBridge

For every route of at least two domains, any set of transactions, any capacity of
the ways. `BridgeTypeCorrect`, `RightAnswerCorrect`, `NoStrayCorrect` and
`OneCarrierCorrect` follow from `BridgeInv`: what the target holds is there
(`HeldThere`); every payload and message belongs to a payload of the initiator
(`HomeInv`); a payload whose transaction waits is in exactly one place, on a
wire, in a message that is being sent, or held, and otherwise in none
(`CarrierInv`); and in that place is the question on the way out, the answer on
the way back, unless it has byte enables (`AnswerInv`). A step moves one payload
and leaves the places of the others alone (`OneMoves`, `Same`), which is the
lemma behind each action.

### Rendezvous

Assumptions: finitely many servers and dialers, every dialer with a server to
look for, the clients of a controller one for each of its domains, `Nobody` no
dialer, a positive number of tries.

- `RendezvousTypeCorrect`: types, among them that no dialer connects more than
  `Tries` times. It needs `TriesLeft`: who still dials has tries left.
- `SearchEnds`: no search goes beyond the n-th port for n servers. The inductive
  invariant `Passed` says that each port below the one a server tries belongs to
  another server that is through with its search, and stays its port; a server
  has one port, so the ports that were passed map injectively to other servers
  (`PassedSuffices`, with the theorems on cardinality).
- `RecordsAlwaysDialable`: a record that is visible names a port on which its
  publisher listens, and nobody else. It follows from three inductive facts:
  `OnePort` (two listening servers have different ports), `LoopOpen` (a loop that
  polls belongs to a server that is open) and `EntryOpen` (an entry is in the
  daemon only while its server is open, or has just joined its loop). `LoopOpen`
  is where the order of the shutdown matters: the loop is joined before the
  client is freed, or a late callback would add the entry again.
- `AlwaysServesOwn`: a server is connected only to dialers that looked for it or
  whose server has left. Beyond `OnePort` it needs `AddressKnown`: who dials has
  the port of a server that is through with its search, which therefore still
  has it or has left.
- `AllRegisteredCorrect`: a controller that has taken as many connections as it
  has domains has one of each, whatever other controllers there are. A client
  that comes to a foreign controller could take a seat there. `RegistryInv`
  excludes it: a connection of a controller is in one place, its backlog, its
  hands or a seat (`OnePlace`), a seat is that of the domain of its client
  (`RightSeat`), no client is at two controllers (`ServedOnce`), and a controller
  leaves only when it is complete (`LeavesComplete`). A client is at a foreign
  controller only if its own has left (`ServesOwn`), which was then complete, with
  the client in its seat, so the client would be at two.

### SingleProcess

- `VerdictAlwaysFits`, by the inductive `ToldSoFar`, which says for each place in
  `start()` which callbacks are armed and which were called, depending on how
  `sc_start()` ended. It covers both ways out of the macros, by return and by
  exception.
- `SingleTypeCorrect`: no callback that was not given, none twice (`Once`).
- `SingleLifecycleCorrect`: the whole of `ImplementsLifecycle`, which has no
  fairness here. `ToldRight` adds to the above that a verdict comes after the end
  it is about.

### Only model-checked

Liveness, as the proof system has no rule for fairness here: `EverybodyStarts`,
`EverybodyLeaves`, `FullHouse`, `Returns`, and the fairness part of
`ImplementsLifecycle` (of `ControlPlane`) and of `ImplementsChannel`. And
`OneHeap`, whose order of the calls would have to be carried along in a history
variable.

## Not modelled

- failing connections before the controller hangs up; two processes that claim
  one domain, or two controllers of one name; a process that is killed;
- more than 10 connections in a backlog; several hosts, on which the same ports
  are free independently of each other;
- names and repeated `connect()` of Unix sockets, the splitting of MPI ranks;
- parsing of the partition file and of arguments, name resolution;
- the examples and benchmarks (`examples/procmem` and others), which use the
  library as a program does and hold no part of it;
- what the kernel of SystemC does beyond running threads in turn.

## Plan

Order: the control plane first, as everything depends on it; then what carries
it; then payloads; then what is set up once.

1. Done: `Messages`, `ControllerSerial`, `ClientSerial`, `ControlPlane`,
   `Lifecycle`, with the type theorem and the theorems on the end.
2. Done: `Connection` refining `Channel`; `TlmBridge`.
3. Done: `Rendezvous` with its theorems; `SingleProcess`, refining `Lifecycle`;
   the wait of MPI remotes in `ClientSerial`.
4. Next models: Unix sockets in `Rendezvous` (a fixed name, no discovery, retries
   only); domains and modules of a partition file as functions; a bridge with two
   initiators.
5. Done: the theorems above, for every invariant of the passing runs and the
   steps of the three refinements.
6. Next theorems: `OneHeap`; what holds of the control plane without `NoExit` and `NoQuit`
   (bounds on how often a domain is counted, answers of calls before the start);
   what a poll that meets a part of a length can and cannot break; deadlock
   freedom of the barrier as an invariant (somebody who is not at the barrier can
   move).
