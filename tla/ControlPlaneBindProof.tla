------------------------ MODULE ControlPlaneBindProof ------------------------
(***************************************************************************)
(* The addresses of the target sockets: from the remote wrapper that makes *)
(* one, through the stream of its domain, the map of the controller and    *)
(* the stream of the domain that asks, to the proxy wrapper.               *)
(***************************************************************************)
EXTENDS ControlPlaneProof

(* The messages of a type that are under way in a stream.                  *)
Letters(type, stream) ==
    {m \in {stream[k] : k \in DOMAIN stream} : m.type = type}

Registrations(stream) == Letters("TARGET_SOCKET_REGISTRY", stream)
Queries(stream) == Letters("TARGET_SOCKET_QUERY", stream)

(* An address is right for s if the remote wrapper of s is there, and      *)
(* sound if it is right or says that s is not known.                       *)
Right(s, a) ==
    /\ a.domain = Home[s]
    /\ a.port \in DOMAIN remotes[Home[s]]
    /\ remotes[Home[s]][a.port] = s

Sound(s, a) == a.port # 0 => Right(s, a)

(* What is on its way from and to d: d registers its own sockets, asks for *)
(* the socket it will bind next and is told nothing wrong about it.        *)
Mail(d) ==
    /\ \A m \in Registrations(up[d]) :
         Home[m.socketname] = d /\ Right(m.socketname, m.address)
    /\ \A m \in Queries(up[d]) \cup Queries(down[d]) :
         m.socketname = First(Unbound(d))
    /\ \A m \in Queries(down[d]) : Sound(m.socketname, m.address)

AddressInv ==
    /\ \A s \in Socket : targets[s] = NoAddress \/ Right(s, targets[s])
    /\ \A d \in Domains : Mail(d)
    /\ BindsToHome

(* Before a domain has registered all its sockets it is at one of these    *)
(* points.                                                                 *)
Early == {"connect", "waitModules", "setup", "waitSetupCall", "binding"}

(* A socket that was registered is in the map or its registration is under *)
(* way, and once the barrier of bind() has opened nothing is under way.    *)
Delivered(d) ==
    /\ \A s \in Exported(d) \ Unregistered(d) :
         \/ targets[s].port # 0
         \/ \E m \in Registrations(up[d]) : m.socketname = s
    /\ pc[d] \notin Early => Unregistered(d) = {}
    /\ BindOpen(d) => Registrations(up[d]) = {}

(* No domain asks for a socket that its home does not export, because one  *)
(* initiator at most is bound to a socket.                                 *)
OneInitiator ==
    \A s \in Socket : \A d \in Users[s] : d # Home[s] => Home[s] \notin Users[s]

QueryInv ==
    /\ \A d \in Domains : Delivered(d)
    /\ \A d \in Domains : pc[d] = "waitAddress" => Unbound(d) # {}
    /\ \A d \in Domains : \A m \in Queries(down[d]) : m.address.port # 0

-----------------------------------------------------------------------------
(* What is under way in a stream when its head is taken and when a message *)
(* is added.                                                               *)
LEMMA LettersTaken ==
    ASSUME NEW s \in Seq(Message), s # <<>>, NEW type
    PROVE  /\ Head(s).type = type => Head(s) \in Letters(type, s)
           /\ Letters(type, s) \subseteq Letters(type, Tail(s)) \cup {Head(s)}
           /\ Letters(type, Tail(s)) \subseteq Letters(type, s)
           /\ Head(s).type # type => Letters(type, Tail(s)) = Letters(type, s)
<1>1. /\ Head(s) = s[1] /\ 1 \in DOMAIN s
      /\ \A k \in DOMAIN Tail(s) : k + 1 \in DOMAIN s /\ Tail(s)[k] = s[k + 1]
  BY TakeFacts
<1>2. ASSUME NEW k \in DOMAIN s, k # 1
      PROVE  k - 1 \in DOMAIN Tail(s) /\ Tail(s)[k - 1] = s[k]
  <2>1. k - 1 \in DOMAIN Tail(s) /\ (k - 1) + 1 = k
    BY <1>2, TakeFacts
  <2>2. QED
    BY <2>1, TakeFacts
<1>3. Letters(type, Tail(s)) \subseteq Letters(type, s)
  BY <1>1 DEF Letters
<1>4. Letters(type, s) \subseteq Letters(type, Tail(s)) \cup {Head(s)}
  BY <1>1, <1>2 DEF Letters
<1>5. Head(s).type = type => Head(s) \in Letters(type, s)
  BY <1>1 DEF Letters
<1>6. Head(s).type # type => Letters(type, Tail(s)) = Letters(type, s)
  BY <1>3, <1>4 DEF Letters
<1>7. QED
  BY <1>3, <1>4, <1>5, <1>6

LEMMA LettersAdded ==
    ASSUME NEW s \in Seq(Message), NEW m \in Message, NEW type
    PROVE  /\ m.type = type => Letters(type, Append(s, m)) = Letters(type, s) \cup {m}
           /\ m.type # type => Letters(type, Append(s, m)) = Letters(type, s)
<1>1. /\ DOMAIN s \subseteq DOMAIN Append(s, m)
      /\ \A k \in DOMAIN s : Append(s, m)[k] = s[k]
      /\ Len(s) + 1 \in DOMAIN Append(s, m) /\ Append(s, m)[Len(s) + 1] = m
      /\ \A k \in DOMAIN Append(s, m) : k \in DOMAIN s \/ k = Len(s) + 1
  BY AddFacts
<1>2. {Append(s, m)[k] : k \in DOMAIN Append(s, m)} = {s[k] : k \in DOMAIN s} \cup {m}
  BY <1>1
<1>3. QED
  BY <1>2 DEF Letters

LEMMA MailAdded ==
    ASSUME NEW s \in Seq(Message), NEW m \in Message
    PROVE  /\ m.type = "TARGET_SOCKET_REGISTRY" =>
                /\ Registrations(Append(s, m)) = Registrations(s) \cup {m}
                /\ Queries(Append(s, m)) = Queries(s)
           /\ m.type = "TARGET_SOCKET_QUERY" =>
                /\ Registrations(Append(s, m)) = Registrations(s)
                /\ Queries(Append(s, m)) = Queries(s) \cup {m}
<1>1. /\ m.type = "TARGET_SOCKET_REGISTRY" =>
           Registrations(Append(s, m)) = Registrations(s) \cup {m}
      /\ m.type # "TARGET_SOCKET_REGISTRY" =>
           Registrations(Append(s, m)) = Registrations(s)
  BY LettersAdded DEF Registrations
<1>2. /\ m.type = "TARGET_SOCKET_QUERY" =>
           Queries(Append(s, m)) = Queries(s) \cup {m}
      /\ m.type # "TARGET_SOCKET_QUERY" => Queries(Append(s, m)) = Queries(s)
  BY LettersAdded DEF Queries
<1>3. QED
  BY <1>1, <1>2

LEMMA LettersFields ==
    ASSUME NEW s \in Seq(Message)
    PROVE  /\ \A m \in Registrations(s) \cup Queries(s) :
                m \in Message /\ m.socketname \in Socket /\ m.address \in Address
           /\ s = <<>> => Registrations(s) = {} /\ Queries(s) = {}
<1>1. \A k \in DOMAIN s : s[k] \in Message
  OBVIOUS
<1>2. s = <<>> => DOMAIN s = {}
  OBVIOUS
<1>3. QED
  BY <1>1, <1>2, MessageFields DEF Registrations, Queries, Letters

(* The addresses are made, carried and used by five steps; every other     *)
(* step leaves the wrappers, the map and the mail alone, except that it    *)
(* may take away a query.                                                  *)
Plain ==
    /\ UNCHANGED <<targets, remotes, proxies>>
    /\ \A d \in Domains :
         /\ Registrations(up'[d]) = Registrations(up[d])
         /\ Queries(up'[d]) \subseteq Queries(up[d])
         /\ Queries(down'[d]) \subseteq Queries(down[d])

Other == {"DOMAIN_REGISTRY", "BARRIER", "END", "SYSCALL"}

LEMMA PlainClient ==
    ASSUME TypeOK, UNCHANGED <<targets, remotes, proxies>>, NEW d \in Domains,
           \/ UNCHANGED <<up, down>>
           \/ Receive(d)
           \/ \E m \in Message : Send(d, m) /\ m.type \in Other
    PROVE  Plain
<1>1. CASE UNCHANGED <<up, down>>
  BY <1>1 DEF Plain
<1>2. CASE Receive(d)
  <2>1. /\ up' = up /\ down[d] \in Seq(Message) /\ down[d] # <<>>
        /\ down'[d] = Tail(down[d])
        /\ \A e \in Domains \ {d} : down'[e] = down[e]
    BY <1>2, ReceiveEffect, StreamUse
  <2>2. Queries(down'[d]) \subseteq Queries(down[d])
    BY <2>1, LettersTaken DEF Queries
  <2>3. QED
    BY <2>1, <2>2 DEF Plain
<1>3. ASSUME NEW m \in Message, Send(d, m), m.type \in Other
      PROVE  Plain
  <2>1. /\ down' = down /\ up[d] \in Seq(Message) /\ up'[d] = Append(up[d], m)
        /\ \A e \in Domains \ {d} : up'[e] = up[e]
    BY <1>3, SendEffect, StreamUse
  <2>2. m.type # "TARGET_SOCKET_REGISTRY" /\ m.type # "TARGET_SOCKET_QUERY"
    BY <1>3 DEF Other
  <2>3. Registrations(up'[d]) = Registrations(up[d]) /\ Queries(up'[d]) = Queries(up[d])
    BY <2>1, <2>2, LettersAdded DEF Registrations, Queries
  <2>4. QED
    BY <2>1, <2>3 DEF Plain
<1>4. QED
  BY <1>1, <1>2, <1>3

LEMMA PlainController ==
    ASSUME TypeOK, UNCHANGED <<targets, remotes, proxies>>, NEW c \in Domains,
           up' = up \/ (up[c] # <<>> /\ up' = Received(up, c)
                        /\ Head(up[c]).type # "TARGET_SOCKET_REGISTRY"),
           \/ down' = down \/ down' = Released(c)
           \/ \E m \in Message : down' = Sent(down, c, m) /\ m.type \in Other
    PROVE  Plain
<1>1. \A d \in Domains : up[d] \in Seq(Message) /\ down[d] \in Seq(Message)
  BY StreamUse
<1>2. ASSUME NEW d \in Domains
      PROVE  /\ Registrations(up'[d]) = Registrations(up[d])
             /\ Queries(up'[d]) \subseteq Queries(up[d])
  <2>1. CASE up'[d] = up[d]
    BY <2>1
  <2>2. CASE /\ up[d] # <<>> /\ up'[d] = Tail(up[d])
             /\ Head(up[d]).type # "TARGET_SOCKET_REGISTRY"
    BY <1>1, <2>2, LettersTaken DEF Registrations, Queries
  <2>3. QED
    BY <2>1, <2>2 DEF TypeOK, ChannelTypeOK, Received
<1>3. ASSUME NEW d \in Domains
      PROVE  Queries(down'[d]) \subseteq Queries(down[d])
  <2>1. \/ down'[d] = down[d]
        \/ \E m \in Message : down'[d] = Append(down[d], m) /\ m.type \in Other
    <3>1. Barrier \in Message /\ Barrier.type \in Other
      BY MessageTypes DEF Barrier, Other
    <3>2. QED
      BY <3>1 DEF TypeOK, ChannelTypeOK, Released, Sent
  <2>2. ASSUME NEW m \in Message, down'[d] = Append(down[d], m), m.type \in Other
        PROVE  Queries(down'[d]) = Queries(down[d])
    BY <1>1, <2>2, LettersAdded DEF Queries, Other
  <2>3. QED
    BY <2>1, <2>2
<1>4. QED
  BY <1>2, <1>3 DEF Plain

(* A request of d or an answer that carries no address.                    *)
LEMMA OtherMessages ==
    ASSUME TypeOK, NEW d \in Domains
    PROVE  /\ DomainRegistry \in Message /\ DomainRegistry.type \in Other
           /\ Barrier \in Message /\ Barrier.type \in Other
           /\ \A status \in Int :
                End(status) \in Message /\ End(status).type \in Other
           /\ \A call \in Calls : Request(d, call) =>
                \E m \in Message : Send(d, m) /\ m.type \in Other
<1>1. ASSUME NEW call \in Calls, Request(d, call)
      PROVE  \E m \in Message : Send(d, m) /\ m.type \in Other
  <2>1. PICK status \in Int : Send(d, Syscall(call, calls'[d], status))
    BY <1>1, ArgumentsType DEF Request
  <2>2. calls'[d] \in Nat
    BY <1>1, RequestType, UseAssumption
  <2>3. /\ Syscall(call, calls'[d], status) \in Message
        /\ Syscall(call, calls'[d], status).type \in Other
    BY <2>2, MessageTypes DEF Syscall, Other
  <2>4. QED
    BY <2>1, <2>3
<1>2. QED
  BY <1>1, MessageTypes DEF DomainRegistry, Barrier, End, Other, Status

LEMMA ClientKinds ==
    ASSUME TypeOK, NEW d \in Domains, Progress(d) \/ Choice(d)
    PROVE  Plain \/ ((Register(d) \/ Ask(d) \/ Bind(d)) /\ UNCHANGED targets)
<1>0. UNCHANGED targets
  BY DEF Progress, Choice, controllerVars
<1>1. CASE Connect(d) \/ AskBind(d) \/ AskStart(d) \/ Finish(d) \/ Fail(d)
  <2>1. \E m \in Message : Send(d, m) /\ m.type \in Other
    BY <1>1, OtherMessages DEF Connect, AskBind, AskStart, Finish, Fail
  <2>2. QED
    BY <1>0, <1>1, <2>1, PlainClient DEF Connect, AskBind, AskStart, Finish, Fail
<1>2. CASE SetupCall(d) \/ RunCall(d)
  <2>1. PICK call \in Calls : Request(d, call)
    BY <1>2, UseAssumption DEF SetupCall, RunCall
  <2>2. QED
    BY <1>0, <2>1, OtherMessages, PlainClient DEF Request
<1>3. CASE GetModules(d) \/ PassBind(d) \/ PassStart(d) \/ Answer(d) \/ Poll(d)
  BY <1>0, <1>3, PlainClient DEF GetModules, PassBind, PassStart, Answer, Poll
<1>4. CASE Start(d) \/ Registered(d) \/ Stop(d) \/ Die(d) \/ Close(d)
  BY <1>0, <1>4, PlainClient DEF Start, Registered, Stop, Die, Close, channelVars
<1>5. CASE Quit(d)
  <2>1. CASE UNCHANGED channelVars
    BY <1>0, <1>5, <2>1, PlainClient DEF Quit, channelVars
  <2>2. CASE Send(d, End(QuitStatus))
    <3>1. \E m \in Message : Send(d, m) /\ m.type \in Other
      BY <2>2, OtherMessages DEF QuitStatus
    <3>2. QED
      BY <1>0, <1>5, <3>1, PlainClient DEF Quit
  <2>3. QED
    BY <1>5, <2>1, <2>2 DEF Quit
<1>6. QED
  BY <1>0, <1>1, <1>2, <1>3, <1>4, <1>5
  DEF Progress, Choice, ClientProgress, ClientChoice

LEMMA ControllerKinds ==
    ASSUME TypeOK, Controller
    PROVE  Plain \/ ((ServeRegistry \/ ServeQuery) /\ UNCHANGED <<remotes, proxies>>)
<1>0. UNCHANGED <<remotes, proxies>>
  BY DEF Controller, clientVars
<1>c. PICK c \in Domains : c = cursor
  BY DEF TypeOK, ControllerTypeOK
<1>1. ASSUME NEW d \in Domains, Accept(d)
      PROVE  Plain
  <2>1. DomainRegistry \in Message /\ DomainRegistry.type \in Other
    BY OtherMessages
  <2>2. QED
    BY <1>0, <1>1, <2>1, PlainController DEF Accept
<1>2. CASE NotifyEnd
  <2>1. End(ending_status) \in Message /\ End(ending_status).type \in Other
    BY <1>c, OtherMessages DEF TypeOK, ControllerTypeOK, Status
  <2>2. QED
    BY <1>0, <1>2, <1>c, <2>1, PlainController DEF NotifyEnd
<1>3. CASE Skip \/ Hangup
  BY <1>0, <1>3, <1>c, PlainController DEF Skip, Hangup, channelVars, controllerVars
<1>4. CASE ServeEnd
  BY <1>0, <1>4, <1>c, PlainController DEF ServeEnd, Serving
<1>5. CASE ServeBarrier
  BY <1>0, <1>5, <1>c, PlainController DEF ServeBarrier, Serving
<1>6. CASE ServeFile \/ ServeSbrk \/ ServeExit
  <2>1. /\ up[c] # <<>> /\ Head(up[c]).type = "SYSCALL" /\ up' = Received(up, c)
        /\ UNCHANGED targets
    BY <1>6, <1>c DEF ServeFile, ServeSbrk, ServeExit, Serving
  <2>2. Head(up[c]) \in Message
    BY <2>1, StreamUse, TakeFacts
  <2>3. /\ [Head(up[c]) EXCEPT !.value = heap_sbrk] \in Message
        /\ [Head(up[c]) EXCEPT !.value = heap_sbrk].type = "SYSCALL"
    BY <2>1, <2>2, MessageFields DEF TypeOK, ControllerTypeOK, Message
  <2>4. \E m \in Message : down' = Sent(down, c, m) /\ m.type \in Other
    BY <1>6, <1>c, <2>1, <2>2, <2>3 DEF ServeFile, ServeSbrk, ServeExit, Other
  <2>5. QED
    BY <1>0, <2>1, <2>4, PlainController
<1>7. QED
  BY <1>0, <1>1, <1>2, <1>3, <1>4, <1>5, <1>6 DEF Controller, ControllerServe

LEMMA Kinds ==
    ASSUME TypeOK, [Next]_vars
    PROVE  \/ Plain
           \/ \E d \in Domains :
                (Register(d) \/ Ask(d) \/ Bind(d)) /\ UNCHANGED targets
           \/ (ServeRegistry \/ ServeQuery) /\ UNCHANGED <<remotes, proxies>>
<1>1. CASE UNCHANGED vars
  BY <1>1 DEF vars, channelVars, controllerVars, clientVars, Plain
<1>2. QED
  BY <1>1, ClientKinds, ControllerKinds DEF Next, Done

-----------------------------------------------------------------------------
(* An address stays right: no remote wrapper is ever unmade.               *)
LEMMA RightStays ==
    ASSUME TypeOK, NEW s \in Socket, NEW a \in Address, Right(s, a),
           \/ UNCHANGED remotes
           \/ \E d \in Domains : Register(d)
    PROVE  Right(s, a)'
<1>1. CASE UNCHANGED remotes
  BY <1>1 DEF Right
<1>2. ASSUME NEW d \in Domains, Register(d)
      PROVE  Right(s, a)'
  <2>1. Home[s] \in Domains /\ remotes[Home[s]] \in Seq(Socket)
    BY PlatformAssumption DEF TypeOK, ClientTypeOK
  <2>2. CASE Home[s] # d
    BY <1>2, <2>1, <2>2 DEF Register, Right, TypeOK, ClientTypeOK
  <2>3. CASE Home[s] = d
    <3>1. PICK t \in Socket : remotes'[d] = Append(remotes[d], t)
      <4>1. First(Unregistered(d)) \in Socket
        BY <1>2, FirstType DEF Register, Unregistered, Exported
      <4>2. QED
        BY <1>2, <4>1 DEF Register, TypeOK, ClientTypeOK
    <3>2. a.port \in DOMAIN remotes'[d] /\ remotes'[d][a.port] = remotes[d][a.port]
      BY <2>1, <2>3, <3>1, AppendProperties DEF Right
    <3>3. QED
      BY <2>3, <3>2 DEF Right
  <2>4. QED
    BY <2>2, <2>3
<1>3. QED
  BY <1>1, <1>2

(* The mail of d is in order after a step that adds what is in order.      *)
LEMMA MailKeeps ==
    ASSUME TypeOK, AddressInv, UNCHANGED remotes \/ \E x \in Domains : Register(x),
           NEW d \in Domains, Unbound(d)' = Unbound(d),
           \A m \in Registrations(up'[d]) \ Registrations(up[d]) :
             Home[m.socketname] = d /\ Right(m.socketname, m.address)',
           \A m \in Queries(up'[d]) \ Queries(up[d]) :
             m.socketname = First(Unbound(d)),
           \A m \in Queries(down'[d]) \ Queries(down[d]) :
             m.socketname = First(Unbound(d)) /\ Sound(m.socketname, m.address)'
    PROVE  Mail(d)'
<1>0. Mail(d) /\ up[d] \in Seq(Message) /\ down[d] \in Seq(Message)
  BY StreamUse DEF AddressInv
<1>1. \A m \in Registrations(up[d]) :
        Home[m.socketname] = d /\ Right(m.socketname, m.address)'
  <2> SUFFICES ASSUME NEW m \in Registrations(up[d])
               PROVE  Home[m.socketname] = d /\ Right(m.socketname, m.address)'
    OBVIOUS
  <2>1. m.socketname \in Socket /\ m.address \in Address
    BY <1>0, LettersFields
  <2>2. Home[m.socketname] = d /\ Right(m.socketname, m.address)
    BY <1>0 DEF Mail
  <2>3. QED
    BY <2>1, <2>2, RightStays
<1>2. \A m \in Queries(down[d]) : Sound(m.socketname, m.address)'
  <2> SUFFICES ASSUME NEW m \in Queries(down[d])
               PROVE  Sound(m.socketname, m.address)'
    OBVIOUS
  <2>1. m.socketname \in Socket /\ m.address \in Address
    BY <1>0, LettersFields
  <2>2. Sound(m.socketname, m.address)
    BY <1>0 DEF Mail
  <2>3. QED
    BY <2>1, <2>2, RightStays DEF Sound
<1>3. First(Unbound(d))' = First(Unbound(d))
  BY DEF First
<1>4. \A m \in Registrations(up[d])' :
        Home[m.socketname] = d /\ Right(m.socketname, m.address)'
  BY <1>1 DEF Registrations
<1>5. \A m \in (Queries(up[d]) \cup Queries(down[d]))' :
        m.socketname = First(Unbound(d))'
  BY <1>0, <1>3 DEF Mail, Queries
<1>6. \A m \in Queries(down[d])' : Sound(m.socketname, m.address)'
  BY <1>2 DEF Queries
<1>7. QED
  BY <1>4, <1>5, <1>6 DEF Mail

LEMMA BindsToHomeSays ==
    /\ BindsToHome =>
         \A d \in Domains : \A s \in Imported(d) : Sound(s, proxies[d][s])
    /\ (\A d \in Domains : \A s \in Imported(d) : Sound(s, proxies[d][s])') =>
         BindsToHome'
  BY DEF BindsToHome, Sound, Right, Imported

(* What the map and the proxies say stays true.                            *)
LEMMA AddressesStay ==
    ASSUME TypeOK, AddressInv, UNCHANGED remotes \/ \E x \in Domains : Register(x)
    PROVE  /\ \A s \in Socket : targets[s] = NoAddress \/ Right(s, targets[s])'
                                \/ targets'[s] # targets[s]
           /\ \A d \in Domains : \A s \in Imported(d) :
                Sound(s, proxies[d][s])' \/ proxies'[d][s] # proxies[d][s]
<1>1. ASSUME NEW s \in Socket, targets'[s] = targets[s], targets[s] # NoAddress
      PROVE  Right(s, targets[s])'
  <2>1. PICK a \in Address : a = targets[s]
    BY DEF TypeOK, ControllerTypeOK
  <2>2. Right(s, a)
    BY <1>1, <2>1 DEF AddressInv
  <2>3. Right(s, a)'
    BY <2>2, RightStays
  <2>4. QED
    BY <1>1, <2>1, <2>3
<1>2. ASSUME NEW d \in Domains, NEW s \in Imported(d), proxies'[d][s] = proxies[d][s]
      PROVE  Sound(s, proxies[d][s])'
  <2>1. s \in Socket
    BY DEF Imported
  <2>2. PICK a \in Address : a = proxies[d][s]
    BY <2>1 DEF TypeOK, ClientTypeOK
  <2>3. Sound(s, a)
    BY <2>2, BindsToHomeSays DEF AddressInv
  <2>4. Sound(s, a)'
    BY <2>1, <2>3, RightStays DEF Sound
  <2>5. QED
    BY <1>2, <2>2, <2>4
<1>3. QED
  BY <1>1, <1>2

LEMMA BindsToHomeStays ==
    ASSUME TypeOK, AddressInv, UNCHANGED remotes \/ \E x \in Domains : Register(x),
           UNCHANGED proxies
    PROVE  BindsToHome'
<1>1. \A d \in Domains : \A s \in Imported(d) : Sound(s, proxies[d][s])'
  BY AddressesStay
<1>2. QED
  BY <1>1, BindsToHomeSays

LEMMA TargetsStay ==
    ASSUME TypeOK, AddressInv, UNCHANGED remotes \/ \E x \in Domains : Register(x),
           UNCHANGED targets
    PROVE  \A s \in Socket : targets'[s] = NoAddress \/ Right(s, targets[s])'
  BY AddressesStay

LEMMA RegisterAddress ==
    ASSUME TypeOK, AddressInv, NEW d \in Domains, Register(d), UNCHANGED targets
    PROVE  AddressInv'
<1>1. \E x \in Domains : Register(x)
  OBVIOUS
<1>2. PICK s \in Unregistered(d) :
        /\ Send(d, Registry(s, [domain |-> d, port |-> Port(d)]))
        /\ remotes' = [remotes EXCEPT ![d] = Append(@, s)]
        /\ UNCHANGED proxies
  BY FirstType DEF Register

<1>3. s \in Socket /\ Home[s] = d
  BY DEF Unregistered, Exported
<1>4. remotes[d] \in Seq(Socket) /\ Len(remotes[d]) \in Nat /\ d \in Nat
  BY DEF TypeOK, ClientTypeOK, Domains
<1>a. PICK a \in Address : a = [domain |-> d, port |-> Port(d)]
  <2>1. Port(d) \in Nat
    BY <1>4 DEF Port
  <2>2. [domain |-> d, port |-> Port(d)] \in Address
    BY <1>4, <2>1 DEF Address
  <2>3. QED
    BY <2>2
<1>m. PICK m \in Message : m = Registry(s, a)
  BY <1>3, MessageTypes
<1>5. m.type = "TARGET_SOCKET_REGISTRY" /\ m.socketname = s /\ m.address = a
  BY <1>m DEF Registry
<1>6. Right(s, a)'
  <2>1. remotes'[d] = Append(remotes[d], s)
    BY <1>2 DEF TypeOK, ClientTypeOK
  <2>2. a.port \in DOMAIN remotes'[d] /\ remotes'[d][a.port] = s /\ a.domain = d
    BY <1>a, <1>3, <1>4, <2>1, AppendProperties DEF Port
  <2>3. QED
    BY <2>2, <1>3 DEF Right
<1>7. /\ down' = down /\ up[d] \in Seq(Message) /\ up'[d] = Append(up[d], m)
      /\ \A e \in Domains \ {d} : up'[e] = up[e]
  BY <1>2, <1>a, <1>m, SendEffect, StreamUse
<1>8. /\ Registrations(up'[d]) = Registrations(up[d]) \cup {m}
      /\ Queries(up'[d]) = Queries(up[d])
  BY <1>5, <1>7, MailAdded
<1>9. ASSUME NEW e \in Domains
      PROVE  Mail(e)'
  <2>1. Unbound(e)' = Unbound(e)
    BY <1>2 DEF Unbound, Imported
  <2>2. CASE e = d
    BY <1>1, <1>3, <1>5, <1>6, <1>7, <1>8, <2>1, <2>2, MailKeeps
  <2>3. CASE e # d
    BY <1>1, <1>7, <2>1, <2>3, MailKeeps
  <2>4. QED
    BY <2>2, <2>3
<1>10. BindsToHome'
  BY <1>1, <1>2, BindsToHomeStays
<1>11. \A s1 \in Socket : targets'[s1] = NoAddress \/ Right(s1, targets[s1])'
  BY <1>1, TargetsStay
<1>12. QED
  BY <1>9, <1>10, <1>11 DEF AddressInv, NoAddress

LEMMA AskAddress ==
    ASSUME TypeOK, AddressInv, NEW d \in Domains, Ask(d), UNCHANGED targets
    PROVE  AddressInv'
<1>1. UNCHANGED <<remotes, proxies>>
  BY DEF Ask
<1>2. Unbound(d) # {} /\ Send(d, Query(First(Unbound(d)), NoAddress))
  BY DEF Ask
<1>3. First(Unbound(d)) \in Socket /\ NoAddress \in Address
  BY <1>2, FirstType DEF Unbound, Imported, NoAddress, Address
<1>m. PICK m \in Message : m = Query(First(Unbound(d)), NoAddress)
  BY <1>3, MessageTypes
<1>4. m.type = "TARGET_SOCKET_QUERY" /\ m.socketname = First(Unbound(d))
  BY <1>m DEF Query
<1>5. /\ down' = down /\ up[d] \in Seq(Message) /\ up'[d] = Append(up[d], m)
      /\ \A e \in Domains \ {d} : up'[e] = up[e]
  BY <1>2, <1>m, SendEffect, StreamUse
<1>6. /\ Registrations(up'[d]) = Registrations(up[d])
      /\ Queries(up'[d]) = Queries(up[d]) \cup {m}
  BY <1>4, <1>5, MailAdded
<1>7. ASSUME NEW e \in Domains
      PROVE  Mail(e)'
  <2>1. Unbound(e)' = Unbound(e)
    BY <1>1 DEF Unbound, Imported
  <2>2. CASE e = d
    BY <1>1, <1>4, <1>5, <1>6, <2>1, <2>2, MailKeeps
  <2>3. CASE e # d
    BY <1>1, <1>5, <2>1, <2>3, MailKeeps
  <2>4. QED
    BY <2>2, <2>3
<1>8. BindsToHome' /\ \A s \in Socket : targets'[s] = NoAddress \/ Right(s, targets[s])'
  BY <1>1, BindsToHomeStays, TargetsStay
<1>9. QED
  BY <1>7, <1>8 DEF AddressInv, NoAddress

(* The answer that d takes is the one to the query it sent, and the last   *)
(* message under way between d and the controller.                         *)
LEMMA AnswerToQuery ==
    ASSUME StartInv, NEW d \in Domains, pc[d] = "waitAddress", down[d] # <<>>
    PROVE  /\ up[d] = <<>> /\ Tail(down[d]) = <<>>
           /\ Head(down[d]) \in Message
           /\ Head(down[d]).type = "TARGET_SOCKET_QUERY"
           /\ Head(down[d]) \in Queries(down[d])
<1>t. TypeOK /\ Session(d)
  BY DEF StartInv, EndInv, Sessions
<1>1. Replied(d)
  BY <1>t DEF Session, Started, Requested, Arrived
<1>2. down[d] \in Seq(Message) /\ Len(down[d]) = 1
  BY <1>t, <1>1, StreamUse DEF Replied
<1>3. /\ 1 \in DOMAIN down[d] /\ Head(down[d]) = down[d][1] /\ Tail(down[d]) = <<>>
      /\ Head(down[d]) \in Message
  BY <1>2, TakeFacts
<1>4. Head(down[d]).type = "TARGET_SOCKET_QUERY"
  BY <1>1, <1>3 DEF Replied, Topic
<1>5. QED
  BY <1>1, <1>2, <1>3, <1>4, LettersTaken DEF Replied, Queries

LEMMA BindAddress ==
    ASSUME StartInv, AddressInv, NEW d \in Domains, Bind(d), UNCHANGED targets
    PROVE  AddressInv'
<1>t. TypeOK /\ UNCHANGED remotes
  BY DEF StartInv, EndInv, Bind
<1>1. /\ pc[d] = "waitAddress" /\ up' = up
      /\ down[d] # <<>> /\ down'[d] = Tail(down[d])
      /\ \A e \in Domains \ {d} : down'[e] = down[e]
  BY <1>t, GotoEffect, ReceiveEffect DEF Bind
<1>m. PICK m \in Message : m = Head(down[d])
  BY <1>1, AnswerToQuery
<1>2. /\ up[d] = <<>> /\ down'[d] = <<>> /\ m \in Queries(down[d])
      /\ AddressIn(Head(down[d])) = m.address
  BY <1>1, <1>m, AnswerToQuery DEF AddressIn
<1>3. /\ m.socketname \in Socket /\ m.address \in Address
      /\ m.socketname = First(Unbound(d)) /\ Sound(m.socketname, m.address)
  BY <1>t, <1>2, LettersFields, StreamUse DEF AddressInv, Mail
<1>4. proxies' = [proxies EXCEPT ![d][m.socketname] = m.address]
  BY <1>2, <1>3 DEF Bind
<1>5. ASSUME NEW e \in Domains
      PROVE  Mail(e)'
  <2>1. CASE e = d
    <3>1. /\ Registrations(up'[d]) = {} /\ Queries(up'[d]) = {} /\ Queries(down'[d]) = {}
      BY <1>1, <1>2, LettersFields, EmptySeq
    <3>2. QED
      BY <2>1, <3>1 DEF Mail, Registrations, Queries
  <2>2. CASE e # d
    <3>1. Unbound(e)' = Unbound(e)
      BY <1>t, <1>4, <2>2 DEF Unbound, Imported, TypeOK, ClientTypeOK
    <3>2. QED
      BY <1>t, <1>1, <2>2, <3>1, MailKeeps
  <2>3. QED
    BY <2>1, <2>2
<1>6. BindsToHome'
  <2>1. Sound(m.socketname, m.address)'
    BY <1>t, <1>3 DEF Sound, Right
  <2>2. ASSUME NEW e \in Domains, NEW s \in Imported(e)
        PROVE  Sound(s, proxies[e][s])'
    <3>1. s \in Socket
      BY DEF Imported
    <3>2. CASE e = d /\ s = m.socketname
      <4>1. proxies'[e][s] = m.address
        BY <1>t, <1>4, <3>1, <3>2 DEF TypeOK, ClientTypeOK
      <4>2. QED
        BY <2>1, <3>2, <4>1 DEF Sound, Right
    <3>3. CASE ~ (e = d /\ s = m.socketname)
      <4>1. proxies'[e][s] = proxies[e][s]
        BY <1>t, <1>4, <3>1, <3>3 DEF TypeOK, ClientTypeOK
      <4>2. QED
        BY <1>t, <4>1, AddressesStay
    <3>4. QED
      BY <3>2, <3>3
  <2>3. QED
    BY <2>2, BindsToHomeSays
<1>7. \A s \in Socket : targets'[s] = NoAddress \/ Right(s, targets[s])'
  BY <1>t, TargetsStay
<1>8. QED
  BY <1>5, <1>6, <1>7 DEF AddressInv, NoAddress

LEMMA RegistryAddress ==
    ASSUME TypeOK, AddressInv, ServeRegistry, UNCHANGED <<remotes, proxies>>
    PROVE  AddressInv'
<1>c. PICK c \in Domains : c = cursor
  BY DEF TypeOK, ControllerTypeOK
<1>m. PICK m : m = Head(up[c])
  OBVIOUS
<1>1. /\ up[c] # <<>> /\ m.type = "TARGET_SOCKET_REGISTRY"
      /\ up' = Received(up, c) /\ down' = down
      /\ targets' = Inserted(m.socketname, m.address)
  BY <1>c, <1>m DEF ServeRegistry, Serving
<1>2. up[c] \in Seq(Message) /\ m \in Message
  BY <1>1, <1>m, StreamUse, TakeFacts
<1>3. m \in Registrations(up[c])
  BY <1>1, <1>2, <1>m, LettersTaken DEF Registrations
<1>4. m.socketname \in Socket /\ m.address \in Address /\ Right(m.socketname, m.address)
  BY <1>2, <1>3, LettersFields DEF AddressInv, Mail
<1>5. \A d \in Domains : up'[d] = IF d = c THEN Tail(up[c]) ELSE up[d]
  BY <1>1 DEF TypeOK, ChannelTypeOK, Received
<1>6. ASSUME NEW d \in Domains
      PROVE  Mail(d)'
  <2>1. Registrations(up'[d]) \subseteq Registrations(up[d])
    BY <1>1, <1>2, <1>5, LettersTaken DEF Registrations
  <2>2. Queries(up'[d]) \subseteq Queries(up[d])
    BY <1>1, <1>2, <1>5, LettersTaken DEF Queries
  <2>3. Unbound(d)' = Unbound(d)
    BY DEF Unbound, Imported
  <2>4. QED
    BY <1>1, <2>1, <2>2, <2>3, MailKeeps
<1>7. ASSUME NEW s \in Socket
      PROVE  targets'[s] = NoAddress \/ Right(s, targets[s])'
  <2>1. CASE targets'[s] = targets[s]
    BY <2>1, AddressesStay
  <2>2. CASE s = m.socketname /\ targets'[s] = m.address
    BY <1>4, <2>2 DEF Right
  <2>3. QED
    BY <1>1, <1>4, <2>1, <2>2 DEF Inserted, TypeOK, ControllerTypeOK
<1>8. BindsToHome'
  BY BindsToHomeStays
<1>9. QED
  BY <1>6, <1>7, <1>8 DEF AddressInv, NoAddress

LEMMA QueryAddress ==
    ASSUME TypeOK, AddressInv, ServeQuery, UNCHANGED <<remotes, proxies>>
    PROVE  AddressInv'
<1>c. PICK c \in Domains : c = cursor
  BY DEF TypeOK, ControllerTypeOK
<1>q. PICK q : q = Head(up[c])
  OBVIOUS
<1>1. /\ up[c] # <<>> /\ q.type = "TARGET_SOCKET_QUERY"
      /\ up' = Received(up, c)
      /\ down' = Sent(down, c, Query(q.socketname, targets[q.socketname]))
      /\ targets' = targets
  BY <1>c, <1>q DEF ServeQuery, Serving
<1>2. up[c] \in Seq(Message) /\ down[c] \in Seq(Message) /\ q \in Message
  BY <1>1, <1>q, StreamUse, TakeFacts
<1>3. q \in Queries(up[c])
  BY <1>1, <1>2, <1>q, LettersTaken DEF Queries
<1>4. q.socketname \in Socket /\ q.socketname = First(Unbound(c))
  BY <1>2, <1>3, LettersFields DEF AddressInv, Mail
<1>a. PICK a \in Address : a = targets[q.socketname]
  BY <1>4 DEF TypeOK, ControllerTypeOK
<1>5. Sound(q.socketname, a)'
  <2>1. a = NoAddress \/ Right(q.socketname, a)
    BY <1>4, <1>a DEF AddressInv
  <2>2. QED
    BY <2>1 DEF Sound, Right, NoAddress
<1>m. PICK m \in Message : m = Query(q.socketname, a)
  BY <1>4, MessageTypes
<1>6. m.type = "TARGET_SOCKET_QUERY" /\ m.socketname = q.socketname /\ m.address = a
  BY <1>m DEF Query
<1>7. \A d \in Domains :
        /\ up'[d] = IF d = c THEN Tail(up[c]) ELSE up[d]
        /\ down'[d] = IF d = c THEN Append(down[c], m) ELSE down[d]
  BY <1>1, <1>a, <1>m DEF TypeOK, ChannelTypeOK, Received, Sent
<1>8. ASSUME NEW d \in Domains
      PROVE  Mail(d)'
  <2>1. Registrations(up'[d]) \subseteq Registrations(up[d])
    BY <1>1, <1>2, <1>7, LettersTaken DEF Registrations
  <2>2. Queries(up'[d]) \subseteq Queries(up[d])
    BY <1>1, <1>2, <1>7, LettersTaken DEF Queries
  <2>3. Unbound(d)' = Unbound(d)
    BY DEF Unbound, Imported
  <2>4. d # c => Queries(down'[d]) = Queries(down[d])
    BY <1>7
  <2>5. d = c => Queries(down'[d]) = Queries(down[d]) \cup {m}
    BY <1>2, <1>6, <1>7, MailAdded
  <2>6. \A x \in Queries(down'[d]) \ Queries(down[d]) :
          x.socketname = First(Unbound(d)) /\ Sound(x.socketname, x.address)'
    BY <1>4, <1>5, <1>6, <2>4, <2>5
  <2>7. QED
    BY <2>1, <2>2, <2>3, <2>6, MailKeeps
<1>9. BindsToHome' /\ \A s \in Socket : targets'[s] = NoAddress \/ Right(s, targets[s])'
  BY <1>1, BindsToHomeStays, TargetsStay
<1>10. QED
  BY <1>8, <1>9 DEF AddressInv, NoAddress

LEMMA AddressInitially == Init => AddressInv
<1> SUFFICES ASSUME Init PROVE AddressInv
  OBVIOUS
<1>1. \A s \in Socket : targets[s] = NoAddress
  BY DEF Init, ControllerInit
<1>2. \A d \in Domains : up[d] = <<>> /\ down[d] = <<>> /\ up[d] \in Seq(Message)
  BY InitType DEF Init, ChannelInit, TypeOK, ChannelTypeOK
<1>3. \A d \in Domains : Mail(d)
  BY <1>2, LettersFields DEF Mail
<1>4. BindsToHome
  BY DEF BindsToHome, Init, ClientInit, Imported, NoAddress
<1>5. QED
  BY <1>1, <1>3, <1>4 DEF AddressInv

LEMMA AddressStep ==
    ASSUME StartInv, AddressInv, [Next]_vars
    PROVE  AddressInv'
<1>t. TypeOK
  BY DEF StartInv, EndInv
<1>1. CASE Plain
  <2>1. UNCHANGED <<targets, remotes, proxies>>
    BY <1>1 DEF Plain
  <2>2. ASSUME NEW d \in Domains
        PROVE  Mail(d)'
    <3>1. Unbound(d)' = Unbound(d)
      BY <2>1 DEF Unbound, Imported
    <3>2. QED
      BY <1>t, <1>1, <2>1, <3>1, MailKeeps DEF Plain
  <2>3. BindsToHome' /\ \A s \in Socket : targets'[s] = NoAddress \/ Right(s, targets[s])'
    BY <1>t, <2>1, BindsToHomeStays, TargetsStay
  <2>4. QED
    BY <2>2, <2>3 DEF AddressInv, NoAddress
<1>2. QED
  BY <1>t, <1>1, Kinds, RegisterAddress, AskAddress, BindAddress, RegistryAddress,
     QueryAddress

(* If every domain starts and none calls EXIT, a proxy wrapper only ever   *)
(* connects to the remote wrapper of the socket its initiator is bound to, *)
(* whatever the order in which the domains register and ask.               *)
THEOREM BindsToHomeCorrect == ASSUME NoExit, NoQuit PROVE Spec => []BindsToHome
<1>1. Init => StartInv /\ AddressInv
  BY StartInitially, AddressInitially
<1>2. StartInv /\ AddressInv /\ [Next]_vars => StartInv' /\ AddressInv'
  BY StartStep, AddressStep
<1>3. AddressInv => BindsToHome
  BY DEF AddressInv
<1>4. QED
  BY <1>1, <1>2, <1>3, PTL DEF Spec

-----------------------------------------------------------------------------
(* With MPI: the points a domain goes through, in order.                   *)
Later == {"querying", "waitAddress", "waitStart"} \cup Started

(* The controller stays while a domain runs, so that no domain dies.       *)
LEMMA NobodyDies ==
    ASSUME StartInv, NEW d \in Domains
    PROVE  ~ Die(d)
<1> SUFFICES ASSUME Die(d) PROVE FALSE
  OBVIOUS
<1>1. phase = "returned" /\ pc[d] \notin {"ended", "closed"}
  BY DEF Die, StartInv, HangsUpLast, Waiting
<1>2. Ended(d)
  BY <1>1 DEF StartInv, EndInv, Counted
<1>3. QED
  BY <1>1, <1>2 DEF Ended

LEMMA Course ==
    ASSUME StartInv, NoQuit, Backend = "MPI", [Next]_vars, NEW d \in Domains
    PROVE  \/ pc'[d] = pc[d]
           \/ pc[d] \in Early /\ pc'[d] \in Early
           \/ pc[d] \in Early /\ pc'[d] = "waitBind" /\ Unregistered(d) = {}
           \/ pc[d] = "waitBind" /\ pc'[d] \in Later /\ down[d] # <<>>
           \/ pc[d] \in Later /\ pc'[d] \in Later
<1>t. TypeOK
  BY DEF StartInv, EndInv
<1>1. CASE Controller \/ UNCHANGED vars
  BY <1>1 DEF Controller, vars, clientVars
<1>2. ASSUME NEW e \in Domains, Progress(e) \/ Choice(e), e # d
      PROVE  pc'[d] = pc[d]
  BY <1>2, <1>t
  DEF Progress, Choice, ClientProgress, ClientChoice, Connect, GetModules, Start,
      Register, Registered, AskBind, PassBind, Ask, Bind, AskStart, PassStart,
      Answer, Poll, Finish, SetupCall, RunCall, Stop, Fail, Quit, Die, Close, Goto,
      TypeOK, ClientTypeOK
<1>3. CASE Connect(d) \/ GetModules(d) \/ Start(d) \/ SetupCall(d) \/ Goto(d, "waitSetupCall", "setup")
  BY <1>3, <1>t, GotoEffect
  DEF Connect, GetModules, Start, SetupCall, Early
<1>4. CASE AskBind(d)
  BY <1>4, <1>t, GotoEffect DEF AskBind, Early
<1>5. CASE PassBind(d)
  BY <1>5, <1>t, GotoEffect, ReceiveEffect DEF PassBind, Later
<1>6. CASE Ask(d) \/ Bind(d) \/ AskStart(d) \/ PassStart(d) \/ Finish(d) \/ RunCall(d)
           \/ Fail(d) \/ Close(d) \/ Goto(d, "waitRunCall", "run")
  BY <1>6, <1>t, GotoEffect
  DEF Ask, Bind, AskStart, PassStart, Finish, RunCall, Fail, Close, Later, Started
<1>7. CASE Register(d) \/ Poll(d) \/ Stop(d)
  BY <1>7 DEF Register, Poll, Stop
<1>8. ~ Registered(d) /\ ~ Quit(d) /\ ~ Die(d)
  BY NobodyDies DEF Registered, BarrierInBind, NoQuit, Quit
<1>9. QED
  BY <1>1, <1>2, <1>3, <1>4, <1>5, <1>6, <1>7, <1>8
  DEF Next, Done, Progress, Choice, ClientProgress, ClientChoice, Answer

(* A domain to which the barrier of bind() opens has nothing under way.    *)
LEMMA OpensEmpty ==
    ASSUME StartInv, StartInv', NoQuit, Backend = "MPI", [Next]_vars,
           NEW d \in Domains, BindOpen(d)'
    PROVE  BindOpen(d) \/ up'[d] = <<>>
<1>0. BarrierInBind /\ Session(d)'
  BY DEF BarrierInBind, StartInv, Sessions
<1>1. CASE pc'[d] = "waitBind" /\ down'[d] # <<>>
  <2>1. Replied(d)'
    BY <1>0, <1>1 DEF Session, Started, Requested, Arrived
  <2>2. QED
    BY <2>1 DEF Replied
<1>2. CASE pc'[d] \in Later
  <2>1. pc'[d] \notin Early /\ pc'[d] # "waitBind"
    BY <1>2 DEF Later, Early, Started
  <2>2. pc[d] \in Later \/ (pc[d] = "waitBind" /\ down[d] # <<>>)
    BY <1>2, <2>1, Course
  <2>3. QED
    BY <1>0, <2>2 DEF BindOpen, Later
<1>3. QED
  BY <1>1, <1>2 DEF BindOpen, Later

(* What a step does to the registrations of d: a socket is registered by a *)
(* message, and a message that is taken is in the map.                     *)
Delivers(d) ==
    /\ \A s \in Socket : targets[s].port # 0 => targets'[s].port # 0
    /\ \A s \in Exported(d) : s \in Unregistered(d)' => s \in Unregistered(d)
    /\ \A s \in Unregistered(d) :
         s \in Unregistered(d)' \/ \E m \in Registrations(up'[d]) : m.socketname = s
    /\ \A m \in Registrations(up[d]) :
         m \in Registrations(up'[d]) \/ targets'[m.socketname].port # 0
    /\ \/ Registrations(up'[d]) \subseteq Registrations(up[d])
       \/ pc[d] = "binding" /\ pc'[d] = "binding"

LEMMA NothingDelivered ==
    ASSUME UNCHANGED <<targets, remotes>>, NEW d \in Domains,
           Registrations(up'[d]) = Registrations(up[d])
    PROVE  Delivers(d)
<1>1. Unregistered(d)' = Unregistered(d)
  BY DEF Unregistered, Exported
<1>2. QED
  BY <1>1 DEF Delivers

LEMMA RegisterDelivers ==
    ASSUME TypeOK, NEW e \in Domains, Register(e), UNCHANGED targets, NEW d \in Domains
    PROVE  Delivers(d)
<1>2. PICK s \in Unregistered(e) :
        /\ Send(e, Registry(s, [domain |-> e, port |-> Port(e)]))
        /\ remotes' = [remotes EXCEPT ![e] = Append(@, s)]
        /\ pc[e] = "binding" /\ pc' = pc
  BY FirstType DEF Register
<1>3. s \in Socket /\ remotes[e] \in Seq(Socket)
  BY DEF Unregistered, Exported, TypeOK, ClientTypeOK
<1>a. PICK a \in Address : a = [domain |-> e, port |-> Port(e)]
  <2>1. Port(e) \in Nat /\ e \in Nat
    BY <1>3 DEF Port, Domains
  <2>2. [domain |-> e, port |-> Port(e)] \in Address
    BY <2>1 DEF Address
  <2>3. QED
    BY <2>2
<1>m. PICK m \in Message : m = Registry(s, a)
  BY <1>3, MessageTypes
<1>4. m.type = "TARGET_SOCKET_REGISTRY" /\ m.socketname = s
  BY <1>m DEF Registry
<1>5. /\ up[e] \in Seq(Message) /\ up'[e] = Append(up[e], m)
      /\ \A x \in Domains \ {e} : up'[x] = up[x]
  BY <1>2, <1>a, <1>m, SendEffect, StreamUse
<1>6. Registrations(up'[e]) = Registrations(up[e]) \cup {m}
  BY <1>4, <1>5, MailAdded
<1>7. CASE d # e
  <2>1. Unregistered(d)' = Unregistered(d)
    BY <1>2, <1>7 DEF Unregistered, Exported, TypeOK, ClientTypeOK
  <2>2. QED
    BY <1>5, <1>7, <2>1 DEF Delivers
<1>8. CASE d = e
  <2>1. /\ \A k \in DOMAIN remotes[d] : k \in DOMAIN remotes'[d] /\ remotes'[d][k] = remotes[d][k]
        /\ \A k \in DOMAIN remotes'[d] :
             \/ remotes'[d][k] = s
             \/ k \in DOMAIN remotes[d] /\ remotes'[d][k] = remotes[d][k]
    <3>1. remotes'[d] = Append(remotes[d], s)
      BY <1>2, <1>8 DEF TypeOK, ClientTypeOK
    <3>2. QED
      BY <1>3, <1>8, <3>1, AppendProperties
  <2>2. \A t \in Unregistered(d) : t \in Unregistered(d)' \/ t = s
    BY <2>1 DEF Unregistered, Exported
  <2>3. \A t \in Exported(d) : t \in Unregistered(d)' => t \in Unregistered(d)
    BY <2>1 DEF Unregistered, Exported
  <2>4. QED
    BY <1>2, <1>4, <1>6, <1>8, <2>2, <2>3 DEF Delivers
<1>9. QED
  BY <1>7, <1>8

LEMMA RegistryDelivers ==
    ASSUME TypeOK, AddressInv, ServeRegistry, UNCHANGED remotes, NEW d \in Domains
    PROVE  Delivers(d)
<1>c. PICK c \in Domains : c = cursor
  BY DEF TypeOK, ControllerTypeOK
<1>m. PICK m : m = Head(up[c])
  OBVIOUS
<1>1. /\ up[c] # <<>> /\ m.type = "TARGET_SOCKET_REGISTRY"
      /\ up' = Received(up, c) /\ targets' = Inserted(m.socketname, m.address)
  BY <1>c, <1>m DEF ServeRegistry, Serving
<1>2. up[c] \in Seq(Message) /\ m \in Message
  BY <1>1, <1>m, StreamUse, TakeFacts
<1>3. m \in Registrations(up[c])
  BY <1>1, <1>2, <1>m, LettersTaken DEF Registrations
<1>4. m.socketname \in Socket /\ m.address \in Address /\ Right(m.socketname, m.address)
  BY <1>2, <1>3, LettersFields DEF AddressInv, Mail
<1>5. \A x \in Domains : up'[x] = IF x = c THEN Tail(up[c]) ELSE up[x]
  BY <1>1 DEF TypeOK, ChannelTypeOK, Received
<1>6. ASSUME NEW s \in Socket, NEW a \in Address, Right(s, a)
      PROVE  a.port # 0
  <2>1. remotes[Home[s]] \in Seq(Socket)
    BY PlatformAssumption DEF TypeOK, ClientTypeOK
  <2>2. QED
    BY <1>6, <2>1, LenProperties DEF Right
<1>7. targets[m.socketname] = NoAddress \/ targets[m.socketname].port # 0
  <2>1. targets[m.socketname] \in Address
    BY <1>4 DEF TypeOK, ControllerTypeOK
  <2>2. QED
    BY <1>4, <1>6, <2>1 DEF AddressInv
<1>8. /\ targets'[m.socketname].port # 0
      /\ \A s \in Socket : targets[s].port # 0 => targets'[s].port # 0
  BY <1>1, <1>4, <1>6, <1>7 DEF Inserted, TypeOK, ControllerTypeOK
<1>9. /\ Registrations(up'[d]) \subseteq Registrations(up[d])
      /\ \A x \in Registrations(up[d]) : x \in Registrations(up'[d]) \/ x = m
  BY <1>1, <1>2, <1>5, <1>m, LettersTaken DEF Registrations
<1>10. Unregistered(d)' = Unregistered(d)
  BY DEF Unregistered, Exported
<1>11. QED
  BY <1>8, <1>9, <1>10 DEF Delivers

LEMMA StepDelivers ==
    ASSUME StartInv, AddressInv, [Next]_vars, NEW d \in Domains
    PROVE  Delivers(d)
<1>t. TypeOK /\ \A e \in Domains : up[e] \in Seq(Message)
  BY StreamUse DEF StartInv, EndInv
<1>1. CASE Plain
  BY <1>1, NothingDelivered DEF Plain
<1>2. ASSUME NEW e \in Domains, Ask(e), UNCHANGED targets
      PROVE  Delivers(d)
  <2>1. PICK m \in Message : m.type = "TARGET_SOCKET_QUERY" /\ Send(e, m)
    <3>1. First(Unbound(e)) \in Socket /\ NoAddress \in Address
      BY <1>2, FirstType DEF Ask, Unbound, Imported, NoAddress, Address
    <3>2. QED
      BY <1>2, <3>1, MessageTypes DEF Ask, Query
  <2>2. Registrations(up'[d]) = Registrations(up[d])
    <3>1. /\ up'[e] = Append(up[e], m)
          /\ \A x \in Domains \ {e} : up'[x] = up[x]
      BY <1>t, <2>1, SendEffect
    <3>2. Registrations(up'[e]) = Registrations(up[e])
      BY <1>t, <2>1, <3>1, MailAdded
    <3>3. QED
      BY <3>1, <3>2
  <2>3. QED
    BY <1>2, <2>2, NothingDelivered DEF Ask
<1>3. ASSUME NEW e \in Domains, Bind(e), UNCHANGED targets
      PROVE  Delivers(d)
  BY <1>3, <1>t, ReceiveEffect, NothingDelivered DEF Bind
<1>4. ASSUME ServeQuery, UNCHANGED <<remotes, proxies>>
      PROVE  Delivers(d)
  <2>1. PICK c \in Domains : c = cursor
    BY <1>t DEF TypeOK, ControllerTypeOK
  <2>2. /\ up[c] # <<>> /\ Head(up[c]).type # "TARGET_SOCKET_REGISTRY"
        /\ up' = Received(up, c) /\ targets' = targets
    BY <1>4, <2>1 DEF ServeQuery, Serving
  <2>3. up'[d] = IF d = c THEN Tail(up[c]) ELSE up[d]
    BY <1>t, <2>2 DEF TypeOK, ChannelTypeOK, Received
  <2>4. Registrations(up'[d]) = Registrations(up[d])
    BY <1>t, <2>2, <2>3, LettersTaken DEF Registrations
  <2>5. QED
    BY <1>4, <2>2, <2>4, NothingDelivered
<1>5. QED
  BY <1>t, <1>1, <1>2, <1>3, <1>4, Kinds, RegisterDelivers, RegistryDelivers

LEMMA DeliveredStep ==
    ASSUME StartInv, StartInv', AddressInv, NoQuit, Backend = "MPI", [Next]_vars,
           NEW d \in Domains, Delivered(d)
    PROVE  Delivered(d)'
<1>0. Delivers(d)
  BY StepDelivers
<1>1. ASSUME NEW s \in Exported(d), s \notin Unregistered(d)'
      PROVE  targets'[s].port # 0 \/ \E m \in Registrations(up'[d]) : m.socketname = s
  <2>1. s \in Socket
    BY DEF Exported
  <2>2. CASE s \in Unregistered(d)
    BY <1>0, <1>1, <2>2 DEF Delivers
  <2>3. CASE s \notin Unregistered(d)
    BY <1>0, <2>1, <2>3 DEF Delivers, Delivered
  <2>4. QED
    BY <2>2, <2>3
<1>2. pc'[d] \notin Early => Unregistered(d)' = {}
  <2>1. pc'[d] \notin Early => (pc[d] \notin Early \/ Unregistered(d) = {})
    BY Course DEF Later, Early, Started
  <2>2. (\A s \in Unregistered(d)' : s \in Exported(d))
    BY DEF Unregistered, Exported
  <2>3. QED
    BY <1>0, <2>1, <2>2 DEF Delivers, Delivered
<1>3. BindOpen(d)' => Registrations(up'[d]) = {}
  <2> SUFFICES ASSUME BindOpen(d)' PROVE Registrations(up'[d]) = {}
    OBVIOUS
  <2>1. CASE up'[d] = <<>>
    BY <2>1, LettersFields, EmptySeq
  <2>2. CASE BindOpen(d)
    <3>1. pc[d] # "binding"
      BY <2>2 DEF BindOpen, Started
    <3>2. QED
      BY <1>0, <2>2, <3>1 DEF Delivers, Delivered
  <2>3. QED
    BY <2>1, <2>2, OpensEmpty
<1>4. \A s \in (Exported(d) \ Unregistered(d))' :
        targets'[s].port # 0 \/ \E m \in Registrations(up'[d]) : m.socketname = s
  BY <1>1 DEF Exported
<1>5. QED
  BY <1>2, <1>3, <1>4 DEF Delivered, Registrations

(* The controller knows every socket that somebody asks for, because the   *)
(* barrier of bind() has opened to all the domains at once.                *)
LEMMA KnownSocket ==
    ASSUME StartInv, AddressInv, QueryInv, OneInitiator, Backend = "MPI",
           NEW c \in Domains, up[c] # <<>>, Head(up[c]).type = "TARGET_SOCKET_QUERY"
    PROVE  targets[Head(up[c]).socketname].port # 0
<1>t. TypeOK /\ Session(c) /\ up[c] \in Seq(Message)
  BY StreamUse DEF StartInv, EndInv, Sessions
<1>1. pc[c] = "waitAddress"
  BY <1>t, HeadSays, TopicTypes
<1>2. Head(up[c]).socketname = First(Unbound(c))
  BY <1>t, LettersTaken DEF Queries, AddressInv, Mail
<1>s. PICK s \in Unbound(c) : s = First(Unbound(c))
  BY <1>1, FirstType DEF QueryInv
<1>3. s \in Socket /\ c \in Users[s] /\ Home[s] # c
  BY DEF Unbound, Imported
<1>h. PICK h \in Domains : h = Home[s]
  BY <1>3, PlatformAssumption
<1>4. s \in Exported(h)
  BY <1>3, <1>h DEF Exported, OneInitiator
<1>5. BindOpen(c)
  BY <1>1 DEF BindOpen, BarrierInBind
<1>6. BindOpen(h)
  BY <1>5 DEF StartInv, SameRound, Open
<1>7. pc[h] \notin Early
  BY <1>6 DEF BindOpen, Early, Started
<1>8. Unregistered(h) = {} /\ Registrations(up[h]) = {}
  BY <1>6, <1>7 DEF QueryInv, Delivered
<1>9. targets[s].port # 0
  BY <1>4, <1>8 DEF QueryInv, Delivered
<1>10. QED
  BY <1>2, <1>s, <1>9

LEMMA AnswersKnown ==
    ASSUME StartInv, AddressInv, QueryInv, OneInitiator, Backend = "MPI", [Next]_vars,
           NEW d \in Domains, NEW m \in Queries(down'[d])
    PROVE  m.address.port # 0
<1>t. TypeOK /\ down[d] \in Seq(Message)
  BY StreamUse DEF StartInv, EndInv
<1>0. \A x \in Queries(down[d]) : x.address.port # 0
  BY DEF QueryInv
<1>1. CASE Plain
  BY <1>0, <1>1 DEF Plain
<1>2. ASSUME NEW e \in Domains, Register(e) \/ Ask(e)
      PROVE  m.address.port # 0
  <2>1. down' = down
    BY <1>2 DEF Register, Ask, Send
  <2>2. QED
    BY <1>0, <2>1
<1>3. ASSUME NEW e \in Domains, Bind(e)
      PROVE  m.address.port # 0
  <2>1. \/ down'[d] = down[d]
        \/ down[d] # <<>> /\ down'[d] = Tail(down[d])
    BY <1>3, <1>t, ReceiveEffect DEF Bind
  <2>2. Queries(down'[d]) \subseteq Queries(down[d])
    BY <1>t, <2>1, LettersTaken DEF Queries
  <2>3. QED
    BY <1>0, <2>2
<1>4. CASE ServeRegistry
  BY <1>0, <1>4 DEF ServeRegistry
<1>5. CASE ServeQuery
  <2>1. PICK c \in Domains : c = cursor
    BY <1>t DEF TypeOK, ControllerTypeOK
  <2>s. PICK s : s = Head(up[c]).socketname
    OBVIOUS
  <2>2. /\ up[c] # <<>> /\ Head(up[c]).type = "TARGET_SOCKET_QUERY"
        /\ down' = Sent(down, c, Query(s, targets[s]))
    BY <1>5, <2>1, <2>s DEF ServeQuery, Serving
  <2>3. targets[s].port # 0
    BY <2>2, <2>s, KnownSocket
  <2>4. s \in Socket /\ targets[s] \in Address
    <3>1. Head(up[c]) \in Message
      BY <1>t, <2>2, StreamUse, TakeFacts
    <3>2. QED
      BY <1>t, <2>2, <2>s, <3>1, MessageFields DEF TypeOK, ControllerTypeOK
  <2>5. PICK q \in Message : q = Query(s, targets[s])
    BY <2>4, MessageTypes
  <2>6. q.type = "TARGET_SOCKET_QUERY" /\ q.address.port # 0
    BY <2>3, <2>5 DEF Query
  <2>7. \/ down'[d] = down[d]
        \/ down'[d] = Append(down[d], q)
    BY <1>t, <2>2, <2>5 DEF TypeOK, ChannelTypeOK, Sent
  <2>8. Queries(down'[d]) \subseteq Queries(down[d]) \cup {q}
    <3>1. Queries(Append(down[d], q)) = Queries(down[d]) \cup {q}
      BY <1>t, <2>6, MailAdded
    <3>2. QED
      BY <2>7, <3>1
  <2>9. QED
    BY <1>0, <2>6, <2>8
<1>6. QED
  BY <1>t, <1>1, <1>2, <1>3, <1>4, <1>5, Kinds

(* A domain waits for an address only if it has something left to bind.    *)
LEMMA WaitsUnbound ==
    ASSUME TypeOK, QueryInv, [Next]_vars, NEW d \in Domains, pc'[d] = "waitAddress"
    PROVE  Unbound(d)' # {}
<1>1. \/ Ask(d)
      \/ pc[d] = "waitAddress" /\ proxies'[d] = proxies[d]
  <2>1. CASE Controller \/ UNCHANGED vars
    BY <2>1 DEF Controller, vars, clientVars
  <2>2. ASSUME NEW e \in Domains, Progress(e) \/ Choice(e), e # d
        PROVE  pc'[d] = pc[d] /\ proxies'[d] = proxies[d]
    BY <2>2
    DEF Progress, Choice, ClientProgress, ClientChoice, Connect, GetModules, Start,
        Register, Registered, AskBind, PassBind, Ask, Bind, AskStart, PassStart,
        Answer, Poll, Finish, SetupCall, RunCall, Request, Stop, Fail, Quit, Die, Close,
        Goto, TypeOK, ClientTypeOK
  <2>3. ASSUME Progress(d) \/ Choice(d), ~ Ask(d)
        PROVE  pc[d] = "waitAddress" /\ proxies'[d] = proxies[d]
    BY <2>3
    DEF Progress, Choice, ClientProgress, ClientChoice, Connect, GetModules, Start,
        Register, Registered, AskBind, PassBind, Bind, AskStart, PassStart,
        Answer, Poll, Finish, SetupCall, RunCall, Request, Stop, Fail, Quit, Die, Close,
        Goto, TypeOK, ClientTypeOK
  <2>4. QED
    BY <2>1, <2>2, <2>3 DEF Next, Done
<1>2. CASE Ask(d)
  BY <1>2 DEF Ask, Unbound, Imported
<1>3. CASE pc[d] = "waitAddress" /\ proxies'[d] = proxies[d]
  BY <1>3 DEF QueryInv, Unbound, Imported
<1>4. QED
  BY <1>1, <1>2, <1>3

LEMMA QueryInitially == Init => QueryInv
<1> SUFFICES ASSUME Init PROVE QueryInv
  OBVIOUS
<1>1. ASSUME NEW d \in Domains
      PROVE  /\ pc[d] = "connect" /\ up[d] = <<>> /\ down[d] = <<>>
             /\ Registrations(up[d]) = {} /\ Queries(down[d]) = {}
             /\ Exported(d) = Unregistered(d)
  <2>1. /\ pc[d] = "connect" /\ up[d] = <<>> /\ down[d] = <<>> /\ remotes[d] = <<>>
    BY DEF Init, ChannelInit, ClientInit
  <2>2. up[d] \in Seq(Message) /\ DOMAIN remotes[d] = {}
    BY <2>1, InitType DEF TypeOK, ChannelTypeOK
  <2>3. QED
    BY <2>1, <2>2, LettersFields DEF Unregistered
<1>2. \A d \in Domains : Delivered(d)
  BY <1>1 DEF Delivered, Early, BindOpen, Started
<1>3. QED
  BY <1>1, <1>2 DEF QueryInv

LEMMA QueryStep ==
    ASSUME StartInv, StartInv', AddressInv, QueryInv, NoQuit, OneInitiator,
           Backend = "MPI", [Next]_vars
    PROVE  QueryInv'
<1>1. \A d \in Domains : Delivered(d)'
  BY DeliveredStep DEF QueryInv
<1>2. \A d \in Domains : pc'[d] = "waitAddress" => Unbound(d)' # {}
  BY WaitsUnbound DEF StartInv, EndInv
<1>3. \A d \in Domains : \A m \in Queries(down'[d]) : m.address.port # 0
  BY AnswersKnown
<1>4. QED
  BY <1>1, <1>2, <1>3 DEF QueryInv, Queries

(* With MPI, if every domain starts, none calls EXIT and a socket has one  *)
(* initiator, no query comes before the registration it asks for: each is  *)
(* answered with a port at once.                                           *)
THEOREM NoMissedQueryCorrect ==
    ASSUME NoExit, NoQuit, OneInitiator, Backend = "MPI"
    PROVE  Spec => []NoMissedQuery
<1>1. Init => StartInv /\ AddressInv /\ QueryInv
  BY StartInitially, AddressInitially, QueryInitially
<1>2. StartInv /\ AddressInv /\ QueryInv /\ [Next]_vars =>
        StartInv' /\ AddressInv' /\ QueryInv'
  BY StartStep, AddressStep, QueryStep
<1>3. StartInv /\ QueryInv => NoMissedQuery
  <2> SUFFICES ASSUME StartInv, QueryInv, NEW d \in Domains,
                      pc[d] = "waitAddress", down[d] # <<>>
               PROVE  AddressIn(Head(down[d])).port # 0
    BY DEF NoMissedQuery
  <2>1. Head(down[d]).type = "TARGET_SOCKET_QUERY" /\ Head(down[d]) \in Queries(down[d])
    BY AnswerToQuery
  <2>2. QED
    BY <2>1 DEF QueryInv, AddressIn
<1>4. QED
  BY <1>1, <1>2, <1>3, PTL DEF Spec
=============================================================================
