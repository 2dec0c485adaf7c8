-------------------------- MODULE ControlPlaneProof --------------------------
(***************************************************************************)
(* Proofs about ControlPlane for every number of domains, every platform   *)
(* and every backend.                                                      *)
(***************************************************************************)
EXTENDS ControlPlane, FiniteSetTheorems, SequenceTheorems, TLAPS

-----------------------------------------------------------------------------
(* The streams: what sending and receiving return.                         *)
Streams == [Domains -> Seq(Message)]

LEMMA SentType ==
    ASSUME NEW stream \in Streams, NEW d \in Domains, NEW m \in Message
    PROVE  Sent(stream, d, m) \in Streams
  BY DEF Sent, Streams

LEMMA ReceivedType ==
    ASSUME NEW stream \in Streams, NEW d \in Domains, stream[d] # <<>>
    PROVE  /\ Received(stream, d) \in Streams
           /\ Head(stream[d]) \in Message
<1>1. stream[d] \in Seq(Message)
  BY DEF Streams
<1>2. Head(stream[d]) \in Message /\ Tail(stream[d]) \in Seq(Message)
  BY <1>1, HeadTailProperties
<1>3. QED
  BY <1>2 DEF Received, Streams

LEMMA MessageTypes ==
    /\ DomainRegistry \in Message
    /\ Barrier \in Message
    /\ \A status \in Status : End(status) \in Message
    /\ \A s \in Socket, a \in Address :
         Registry(s, a) \in Message /\ Query(s, a) \in Message
    /\ \A call \in Calls, id \in Nat, value \in Int :
         Syscall(call, id, value) \in Message /\ Syscall(call, id, value) \in SyscallMessage
  BY DEF DomainRegistry, Barrier, End, Registry, Query, Syscall, Message, SyscallMessage

(* What a message of each type carries.                                    *)
LEMMA MessageFields ==
    ASSUME NEW m \in Message
    PROVE  /\ m.type = "END" => m.status \in Status
           /\ m.type = "TARGET_SOCKET_REGISTRY" =>
                m.socketname \in Socket /\ m.address \in Address
           /\ m.type = "TARGET_SOCKET_QUERY" =>
                m.socketname \in Socket /\ m.address \in Address
           /\ m.type = "SYSCALL" =>
                /\ m.call \in Calls /\ m.id \in Nat /\ m.value \in Int
                /\ \A v \in Int : [m EXCEPT !.value = v] \in Message
  BY DEF Message, SyscallMessage

LEMMA ReadFields ==
    ASSUME NEW m \in Message
    PROVE  AddressIn(m) \in Address /\ PointerIn(m) \in Int
  BY MessageFields DEF AddressIn, PointerIn, NoAddress, Address
-----------------------------------------------------------------------------
(* Type correctness. First the parts of a step that several actions share. *)
LEMMA TurnType ==
    ASSUME ControllerTypeOK, Turn
    PROVE  cursor' \in Domains
<1>1. N \in Nat /\ N > 0 /\ cursor \in Nat
  BY NAssumption DEF ControllerTypeOK, Domains
<1>2. cursor % N \in 0 .. (N - 1)
  BY <1>1
<1>3. QED
  BY <1>1, <1>2 DEF Turn, NextCursor, Domains

LEMMA ServingType ==
    ASSUME TypeOK, NEW type, Serving(type)
    PROVE  /\ cursor \in Domains /\ cursor' \in Domains
           /\ up' \in Streams
           /\ Head(up[cursor]) \in Message
           /\ Head(up[cursor]).type = type
<1>1. cursor \in Domains /\ cursor' \in Domains
  BY TurnType DEF Serving, TypeOK, ControllerTypeOK
<1>2. up \in Streams /\ up[cursor] # <<>>
  BY DEF Serving, TypeOK, ChannelTypeOK, Streams
<1>3. QED
  BY <1>1, <1>2, ReceivedType DEF Serving

LEMMA CallType ==
    ASSUME ControllerTypeOK, NEW cb \in Callbacks
    PROVE  Call(cb) \in Seq(Callbacks)
  BY DEF ControllerTypeOK, Call

LEMMA ActionEndType ==
    ASSUME ControllerTypeOK, NEW d \in Domains, NEW status \in Status,
           ActionEnd(d, status)
    PROVE  /\ ending' \in 0 .. N
           /\ ending_notify' \in [Domains -> BOOLEAN]
           /\ ending_status' \in Status
           /\ armed' \in SUBSET Callbacks
           /\ fired' \in Seq(Callbacks)
<1>1. ending' \in 0 .. N
  BY NAssumption DEF ControllerTypeOK, ActionEnd, FirstEnd, EndsToCome
<1>2. ending_notify' \in [Domains -> BOOLEAN]
  BY DEF ControllerTypeOK, ActionEnd, Marked
<1>3. ending_status' \in Status
  BY DEF ControllerTypeOK, ActionEnd
<1>4. armed' \in SUBSET Callbacks
  BY DEF ControllerTypeOK, ActionEnd, Disarmed
<1>5. fired' \in Seq(Callbacks)
  BY CallType DEF ControllerTypeOK, ActionEnd, Callbacks
<1>6. QED
  BY <1>1, <1>2, <1>3, <1>4, <1>5

LEMMA ServeType ==
    ASSUME TypeOK, ControllerServe
    PROVE  ChannelTypeOK' /\ ControllerTypeOK'
<1> USE DEF TypeOK, ControllerServe
<1>s. up \in Streams /\ down \in Streams
  BY DEF ChannelTypeOK, Streams
<1>1. CASE NotifyEnd
  <2>1. cursor \in Domains /\ cursor' \in Domains
    BY <1>1, TurnType DEF NotifyEnd, ControllerTypeOK
  <2>2. down' \in Streams
    BY <1>1, <1>s, <2>1, SentType, MessageTypes DEF NotifyEnd, ControllerTypeOK
  <2>3. ending_notify' \in [Domains -> BOOLEAN]
    BY <1>1, <2>1 DEF NotifyEnd, ControllerTypeOK, Marked
  <2>4. QED
    BY <1>1, <2>1, <2>2, <2>3
    DEF NotifyEnd, Turn, ChannelTypeOK, ControllerTypeOK, Streams
<1>2. CASE Skip
  <2>1. cursor' \in Domains
    BY <1>2, TurnType DEF Skip
  <2>2. QED
    BY <1>2, <2>1 DEF Skip, Turn, channelVars, ChannelTypeOK, ControllerTypeOK
<1>3. CASE ServeEnd
  <2>1. /\ cursor \in Domains /\ cursor' \in Domains
        /\ up' \in Streams
        /\ Head(up[cursor]).status \in Status
    BY <1>3, ServingType, MessageFields DEF ServeEnd
  <2>2. /\ ending' \in 0 .. N
        /\ ending_notify' \in [Domains -> BOOLEAN]
        /\ ending_status' \in Status
        /\ armed' \in SUBSET Callbacks
        /\ fired' \in Seq(Callbacks)
    BY <1>3, <2>1, ActionEndType DEF ServeEnd
  <2>3. QED
    BY <1>3, <2>1, <2>2 DEF ServeEnd, ChannelTypeOK, ControllerTypeOK, Streams
<1>4. CASE ServeRegistry
  <2>1. /\ cursor' \in Domains
        /\ up' \in Streams
        /\ Head(up[cursor]).socketname \in Socket
        /\ Head(up[cursor]).address \in Address
    BY <1>4, ServingType, MessageFields DEF ServeRegistry
  <2>2. targets' \in [Socket -> Address]
    BY <1>4, <2>1 DEF ServeRegistry, Inserted, ControllerTypeOK
  <2>3. QED
    BY <1>4, <2>1, <2>2
    DEF ServeRegistry, Serving, Turn, ChannelTypeOK, ControllerTypeOK, Streams
<1>5. CASE ServeQuery
  <2>1. /\ cursor \in Domains /\ cursor' \in Domains
        /\ up' \in Streams
        /\ Head(up[cursor]).socketname \in Socket
    BY <1>5, ServingType, MessageFields DEF ServeQuery
  <2>2. Query(Head(up[cursor]).socketname, targets[Head(up[cursor]).socketname]) \in Message
    BY <2>1, MessageTypes DEF ControllerTypeOK
  <2>3. down' \in Streams
    BY <1>5, <1>s, <2>1, <2>2, SentType DEF ServeQuery
  <2>4. QED
    BY <1>5, <2>1, <2>3
    DEF ServeQuery, Serving, Turn, ChannelTypeOK, ControllerTypeOK, Streams
<1>6. CASE ServeBarrier
  <2>1. cursor' \in Domains /\ up' \in Streams
    BY <1>6, ServingType DEF ServeBarrier
  <2>2. counter' \in 0 .. N
    BY <1>6, NAssumption DEF ServeBarrier, ControllerTypeOK, Arrivals
  <2>3. down' \in Streams
    <3>1. \A d \in Domains : Append(down[d], Barrier) \in Seq(Message)
      BY <1>s, MessageTypes, AppendProperties DEF Streams
    <3>2. down' = Released(cursor) \/ down' = down
      BY <1>6 DEF ServeBarrier
    <3>3. QED
      BY <3>1, <3>2, <1>s DEF Released, Streams
  <2>4. fired' \in Seq(Callbacks) /\ armed' \in SUBSET Callbacks
    BY <1>6, CallType DEF ServeBarrier, ControllerTypeOK, Disarmed, Callbacks
  <2>5. QED
    BY <1>6, <2>1, <2>2, <2>3, <2>4
    DEF ServeBarrier, ChannelTypeOK, ControllerTypeOK, Streams
<1>7. CASE ServeFile
  <2>1. /\ cursor \in Domains /\ cursor' \in Domains
        /\ up' \in Streams
        /\ Head(up[cursor]) \in Message
    BY <1>7, ServingType DEF ServeFile
  <2>2. down' \in Streams
    BY <1>7, <1>s, <2>1, SentType DEF ServeFile
  <2>3. QED
    BY <1>7, <2>1, <2>2 DEF ServeFile, ChannelTypeOK, ControllerTypeOK, Streams
<1>8. CASE ServeSbrk
  <2>1. /\ cursor \in Domains /\ cursor' \in Domains
        /\ up' \in Streams
        /\ Head(up[cursor]) \in Message /\ Head(up[cursor]).type = "SYSCALL"
    BY <1>8, ServingType DEF ServeSbrk
  <2>2. [Head(up[cursor]) EXCEPT !.value = heap_sbrk] \in Message
    BY <2>1, MessageFields DEF ControllerTypeOK
  <2>3. down' \in Streams /\ heap_sbrk' \in Int
    BY <1>8, <1>s, <2>1, <2>2, SentType, MessageFields DEF ServeSbrk, Break, ControllerTypeOK
  <2>4. QED
    BY <1>8, <2>1, <2>3 DEF ServeSbrk, ChannelTypeOK, ControllerTypeOK, Streams
<1>9. CASE ServeExit
  <2>1. /\ cursor \in Domains /\ cursor' \in Domains
        /\ up' \in Streams
        /\ Head(up[cursor]) \in Message
        /\ Head(up[cursor]).value \in Status
    BY <1>9, ServingType, MessageFields DEF ServeExit, Status
  <2>2. /\ ending' \in 0 .. N
        /\ ending_notify' \in [Domains -> BOOLEAN]
        /\ ending_status' \in Status
        /\ armed' \in SUBSET Callbacks
        /\ fired' \in Seq(Callbacks)
    BY <1>9, <2>1, ActionEndType DEF ServeExit
  <2>3. down' \in Streams
    BY <1>9, <1>s, <2>1, SentType DEF ServeExit
  <2>4. QED
    BY <1>9, <2>1, <2>2, <2>3 DEF ServeExit, ChannelTypeOK, ControllerTypeOK, Streams
<1>10. QED
  BY <1>1, <1>2, <1>3, <1>4, <1>5, <1>6, <1>7, <1>8, <1>9

LEMMA AcceptType ==
    ASSUME TypeOK, NEW d \in Domains, Accept(d)
    PROVE  ChannelTypeOK' /\ ControllerTypeOK'
<1>1. up \in Streams /\ down \in Streams
  BY DEF TypeOK, ChannelTypeOK, Streams
<1>2. up' \in Streams
  BY <1>1, ReceivedType DEF Accept
<1>3. down' \in Streams
  BY <1>1, SentType, MessageTypes DEF Accept
<1>4. QED
  BY <1>2, <1>3 DEF Accept, TypeOK, ChannelTypeOK, ControllerTypeOK, Streams
(* The steps of a client: where it goes, what it sends and receives.       *)
States == Waiting \cup Idle \cup Gone

LEMMA GotoType ==
    ASSUME ClientTypeOK, NEW d \in Domains, NEW from, NEW to \in States, Goto(d, from, to)
    PROVE  pc' \in [Domains -> States]
  BY DEF ClientTypeOK, Goto, States

LEMMA SendType ==
    ASSUME ChannelTypeOK, NEW d \in Domains, NEW m \in Message, Send(d, m)
    PROVE  ChannelTypeOK'
  BY SentType DEF ChannelTypeOK, Send, Streams

LEMMA ReceiveType ==
    ASSUME ChannelTypeOK, NEW d \in Domains, Receive(d)
    PROVE  ChannelTypeOK' /\ Head(down[d]) \in Message
  BY ReceivedType DEF ChannelTypeOK, Receive, Streams

LEMMA FirstType ==
    ASSUME NEW S, S # {}
    PROVE  First(S) \in S
  BY DEF First

LEMMA ArgumentsType == \A call : Arguments(call) \subseteq Int
  BY UseAssumption DEF Arguments

LEMMA RequestType ==
    ASSUME TypeOK, NEW d \in Domains, NEW call \in Calls, Request(d, call)
    PROVE  /\ ChannelTypeOK'
           /\ calls' \in [Domains -> 0 .. MaxCalls]
           /\ pending' \in [Domains -> SyscallMessage]
<1>1. calls' \in [Domains -> 0 .. MaxCalls]
  BY UseAssumption DEF TypeOK, ClientTypeOK, Request
<1>2. PICK value \in Arguments(call) :
        /\ Send(d, Syscall(call, calls'[d], value))
        /\ pending' = [pending EXCEPT ![d] = Syscall(call, calls'[d], value)]
  BY DEF Request
<1>a. value \in Int
  BY ArgumentsType
<1>3. Syscall(call, calls'[d], value) \in Message
      /\ Syscall(call, calls'[d], value) \in SyscallMessage
  BY <1>1, <1>a, MessageTypes
<1>4. ChannelTypeOK'
  BY <1>2, <1>3, SendType DEF TypeOK
<1>5. QED
  BY <1>1, <1>2, <1>3, <1>4 DEF TypeOK, ClientTypeOK

LEMMA ClientProgressType ==
    ASSUME TypeOK, NEW d \in Domains, ClientProgress(d)
    PROVE  ChannelTypeOK' /\ ClientTypeOK'
<1> USE DEF TypeOK
<1>g. \A from : \A to \in States : Goto(d, from, to) => pc' \in [Domains -> States]
  BY GotoType
<1>1. CASE Connect(d)
  BY <1>1, <1>g, SendType, MessageTypes
  DEF Connect, ClientTypeOK, States, Waiting, Idle, Gone
<1>2. CASE GetModules(d)
  BY <1>2, <1>g, ReceiveType DEF GetModules, ClientTypeOK, States, Waiting, Idle, Gone
<1>3. CASE Start(d)
  BY <1>3, <1>g
  DEF Start, channelVars, ChannelTypeOK, ClientTypeOK, States, Waiting, Idle, Gone
<1>4. CASE Register(d)
  <2> DEFINE s == First(Unregistered(d))
  <2>1. s \in Socket
    BY <1>4, FirstType DEF Register, Unregistered, Exported
  <2>2. remotes[d] \in Seq(Socket) /\ Port(d) \in Nat
    BY DEF ClientTypeOK, Port
  <2>3. Registry(s, [domain |-> d, port |-> Port(d)]) \in Message
    BY <2>1, <2>2, MessageTypes DEF Domains, Address
  <2>4. ChannelTypeOK'
    BY <1>4, <2>3, SendType DEF Register
  <2>5. remotes' \in [Domains -> Seq(Socket)]
    BY <1>4, <2>1, <2>2, AppendProperties DEF Register, ClientTypeOK
  <2>6. QED
    BY <1>4, <2>4, <2>5 DEF Register, ClientTypeOK
<1>5. CASE Registered(d)
  BY <1>5, <1>g
  DEF Registered, channelVars, ChannelTypeOK, ClientTypeOK, States, Waiting, Idle, Gone
<1>6. CASE AskBind(d)
  BY <1>6, <1>g, SendType, MessageTypes
  DEF AskBind, ClientTypeOK, States, Waiting, Idle, Gone
<1>7. CASE PassBind(d)
  BY <1>7, <1>g, ReceiveType DEF PassBind, ClientTypeOK, States, Waiting, Idle, Gone
<1>8. CASE Ask(d)
  <2>1. First(Unbound(d)) \in Socket
    BY <1>8, FirstType DEF Ask, Unbound, Imported
  <2>2. Query(First(Unbound(d)), NoAddress) \in Message
    BY <2>1, MessageTypes DEF NoAddress, Address
  <2>3. QED
    BY <1>8, <2>2, <1>g, SendType DEF Ask, ClientTypeOK, States, Waiting, Idle, Gone
<1>9. CASE Bind(d)
  <2>1. ChannelTypeOK' /\ AddressIn(Head(down[d])) \in Address
    BY <1>9, ReceiveType, ReadFields DEF Bind
  <2>2. proxies' \in [Domains -> [Socket -> Address]]
    BY <1>9, <2>1 DEF Bind, ClientTypeOK
  <2>3. QED
    BY <1>9, <2>1, <2>2, <1>g DEF Bind, ClientTypeOK, States, Waiting, Idle, Gone
<1>10. CASE AskStart(d)
  BY <1>10, <1>g, SendType, MessageTypes
  DEF AskStart, ClientTypeOK, States, Waiting, Idle, Gone
<1>11. CASE PassStart(d)
  BY <1>11, <1>g, ReceiveType DEF PassStart, ClientTypeOK, States, Waiting, Idle, Gone
<1>12. CASE Answer(d)
  <2>1. ChannelTypeOK' /\ Returned(d) \in Region
    BY <1>12, ReceiveType, ReadFields
    DEF Answer, Returned, Region, ClientTypeOK, SyscallMessage
  <2>2. granted' \in [Domains -> Seq(Region)]
    BY <1>12, <2>1, AppendProperties DEF Answer, ClientTypeOK
  <2>3. pc' \in [Domains -> States]
    BY <1>12, <1>g DEF Answer, States, Idle
  <2>4. QED
    BY <1>12, <2>1, <2>2, <2>3 DEF Answer, ClientTypeOK, States
<1>13. CASE Poll(d)
  <2>1. ChannelTypeOK'
    BY <1>13, ReceiveType DEF Poll
  <2>2. stop' \in [Domains -> BOOLEAN]
    BY <1>13 DEF Poll, PollStops, ClientTypeOK
  <2>3. QED
    BY <1>13, <2>1, <2>2 DEF Poll, ClientTypeOK
<1>14. CASE Finish(d)
  <2>1. End(0) \in Message
    BY MessageTypes DEF Status
  <2>2. QED
    BY <1>14, <2>1, <1>g, SendType DEF Finish, ClientTypeOK, States, Waiting, Idle, Gone
<1>15. QED
  BY <1>1, <1>2, <1>3, <1>4, <1>5, <1>6, <1>7, <1>8, <1>9, <1>10, <1>11, <1>12,
     <1>13, <1>14
  DEF ClientProgress

LEMMA ClientChoiceType ==
    ASSUME TypeOK, NEW d \in Domains, ClientChoice(d)
    PROVE  ChannelTypeOK' /\ ClientTypeOK'
<1> USE DEF TypeOK
<1>g. \A from : \A to \in States : Goto(d, from, to) => pc' \in [Domains -> States]
  BY GotoType
<1>e. \A status \in Int : End(status) \in Message
  BY MessageTypes DEF Status
<1>1. CASE SetupCall(d)
  <2>1. PICK call \in Calls : Request(d, call)
    BY <1>1, UseAssumption DEF SetupCall
  <2>2. QED
    BY <1>1, <2>1, <1>g, RequestType
    DEF SetupCall, Request, ClientTypeOK, States, Waiting, Idle, Gone
<1>2. CASE RunCall(d)
  <2>1. PICK call \in Calls : Request(d, call)
    BY <1>2, UseAssumption DEF RunCall
  <2>2. QED
    BY <1>2, <2>1, <1>g, RequestType
    DEF RunCall, Request, ClientTypeOK, States, Waiting, Idle, Gone
<1>3. CASE Stop(d)
  BY <1>3 DEF Stop, channelVars, ChannelTypeOK, ClientTypeOK
<1>4. CASE Fail(d)
  BY <1>4, <1>e, <1>g, SendType DEF Fail, ClientTypeOK, States, Waiting, Idle, Gone
<1>5. CASE Quit(d)
  <2>1. ChannelTypeOK'
    BY <1>5, <1>e, SendType DEF Quit, QuitStatus, channelVars, ChannelTypeOK
  <2>2. pc' \in [Domains -> States]
    BY <1>5, <1>g DEF Quit, States, Idle, Gone
  <2>3. QED
    BY <1>5, <2>1, <2>2 DEF Quit, ClientTypeOK, States
<1>6. CASE Die(d)
  BY <1>6 DEF Die, channelVars, ChannelTypeOK, ClientTypeOK, Gone
<1>7. QED
  BY <1>1, <1>2, <1>3, <1>4, <1>5, <1>6 DEF ClientChoice

LEMMA InitType == Init => TypeOK
<1>1. 1 \in Domains
  BY NAssumption DEF Domains
<1>2. Syscall("FILE", 0, 0) \in SyscallMessage
  BY DEF Syscall, SyscallMessage, Calls
<1>3. QED
  BY <1>1, <1>2, NAssumption, UseAssumption
  DEF Init, ChannelInit, ControllerInit, ClientInit, TypeOK, ChannelTypeOK,
      ControllerTypeOK, ClientTypeOK, Status, NoAddress, Address, Idle

LEMMA NextType ==
    ASSUME TypeOK, [Next]_vars
    PROVE  TypeOK'
<1>1. CASE Controller
  <2>1. CASE \E d \in Domains : Accept(d)
    BY <1>1, <2>1, AcceptType DEF Controller, clientVars, TypeOK, ClientTypeOK
  <2>2. CASE ControllerServe
    BY <1>1, <2>2, ServeType DEF Controller, clientVars, TypeOK, ClientTypeOK
  <2>3. CASE Hangup
    BY <1>1, <2>3
    DEF Controller, Hangup, clientVars, controllerVars, TypeOK, ClientTypeOK,
        ControllerTypeOK, ChannelTypeOK
  <2>4. QED
    BY <1>1, <2>1, <2>2, <2>3 DEF Controller
<1>2. ASSUME NEW d \in Domains, Progress(d)
      PROVE  TypeOK'
  <2>1. CASE ClientProgress(d)
    BY <1>2, <2>1, ClientProgressType
    DEF Progress, controllerVars, TypeOK, ControllerTypeOK
  <2>2. CASE Close(d)
    BY <1>2, <2>2, GotoType
    DEF Progress, Close, channelVars, controllerVars, TypeOK, ChannelTypeOK,
        ControllerTypeOK, ClientTypeOK, States, Gone
  <2>3. QED
    BY <1>2, <2>1, <2>2 DEF Progress
<1>3. ASSUME NEW d \in Domains, Choice(d)
      PROVE  TypeOK'
  BY <1>3, ClientChoiceType DEF Choice, controllerVars, TypeOK, ControllerTypeOK
<1>4. CASE UNCHANGED vars
  BY <1>4
  DEF vars, channelVars, controllerVars, clientVars, TypeOK, ChannelTypeOK,
      ControllerTypeOK, ClientTypeOK
<1>5. QED
  BY <1>1, <1>2, <1>3, <1>4 DEF Next, Done

(* The variables stay in their types: in particular "ending" and the       *)
(* barrier counter stay between 0 and the number of domains, whatever      *)
(* messages arrive and whatever the domains do.                            *)
THEOREM TypeCorrect == Spec => []TypeOK
<1>1. TypeOK /\ [Next]_vars => TypeOK'
  BY NextType
<1>2. QED
  BY <1>1, InitType, PTL DEF Spec

-----------------------------------------------------------------------------
(***************************************************************************)
(* The end of a run: if no domain calls EXIT, "ending" counts exactly the  *)
(* domains still to end, and the controller returns last. This holds for   *)
(* every backend and whether or not every domain starts.                   *)
(***************************************************************************)

NoExit == \A d \in Domains : "EXIT" \notin SetupCalls[d] \cup RunCalls[d]

(* Neither EXIT nor anything behind an END is ever in a stream, and the    *)
(* stream of a domain that ended carries its END until it is empty.        *)
ExitFree == \A d \in Domains : \A k \in DOMAIN up[d] :
               up[d][k].type = "SYSCALL" => up[d][k].call # "EXIT"

EndClosesStream == \A d \in Domains : \A k \in DOMAIN up[d] :
                      up[d][k].type = "END" => Ended(d) /\ k = Len(up[d])

EndInStream == \A d \in Domains :
                  Ended(d) /\ up[d] # <<>> => up[d][Len(up[d])].type = "END"

StreamInv == ExitFree /\ EndClosesStream /\ EndInStream

EndInv ==
    /\ TypeOK
    /\ StreamInv
    /\ EndingCount
    /\ phase = "returned" <=> Counted = Domains

-----------------------------------------------------------------------------
LEMMA DomainsFinite ==
    /\ N \in Nat \ {0}
    /\ IsFiniteSet(Domains)
    /\ Cardinality(Domains) = N
    /\ \A S \in SUBSET Domains :
         /\ IsFiniteSet(S)
         /\ Cardinality(S) \in 0 .. N
         /\ Cardinality(S) = N => S = Domains
         /\ Cardinality(S) = 0 <=> S = {}
         /\ \A d \in Domains \ S : Cardinality(S \cup {d}) = Cardinality(S) + 1
<1>1. N \in Nat \ {0}
  BY NAssumption
<1>2. IsFiniteSet(Domains) /\ Cardinality(Domains) = N
  BY <1>1, FS_Interval DEF Domains
<1>3. ASSUME NEW S \in SUBSET Domains
      PROVE  /\ IsFiniteSet(S)
             /\ Cardinality(S) \in 0 .. N
             /\ Cardinality(S) = N => S = Domains
             /\ Cardinality(S) = 0 <=> S = {}
             /\ \A d \in Domains \ S : Cardinality(S \cup {d}) = Cardinality(S) + 1
  <2>1. /\ IsFiniteSet(S)
        /\ Cardinality(S) <= N
        /\ Cardinality(S) = N => S = Domains
    BY <1>2, FS_Subset
  <2>2. Cardinality(S) \in Nat /\ (Cardinality(S) = 0 <=> S = {})
    BY <2>1, FS_CardinalityType, FS_EmptySet
  <2>3. \A d \in Domains \ S : Cardinality(S \cup {d}) = Cardinality(S) + 1
    BY <2>1, FS_AddElement
  <2>4. QED
    BY <1>1, <2>1, <2>2, <2>3
<1>4. QED
  BY <1>1, <1>2, <1>3

(* What taking the head off a stream leaves.                               *)
LEMMA AfterReceive ==
    ASSUME up \in Streams, NEW d \in Domains, up[d] # <<>>, up' = Received(up, d)
    PROVE  /\ \A e \in Domains \ {d} : up'[e] = up[e]
           /\ up'[d] = Tail(up[d])
           /\ Len(up[d]) \in Nat \ {0}
           /\ Len(up'[d]) = Len(up[d]) - 1
           /\ \A k \in DOMAIN up'[d] :
                k + 1 \in DOMAIN up[d] /\ up'[d][k] = up[d][k + 1]
           /\ Head(up[d]) = up[d][1] /\ 1 \in DOMAIN up[d]
           /\ up'[d] = <<>> <=> Len(up[d]) = 1
<1>1. up[d] \in Seq(Message) /\ up'[d] = Tail(up[d])
  BY DEF Streams, Received
<1>2. \A e \in Domains \ {d} : up'[e] = up[e]
  BY DEF Streams, Received
<1>3. Len(up[d]) \in Nat \ {0} /\ DOMAIN up[d] = 1 .. Len(up[d])
  BY <1>1, EmptySeq, LenProperties
<1>4. /\ up'[d] \in Seq(Message)
      /\ Len(up'[d]) = Len(up[d]) - 1
      /\ \A k \in 1 .. Len(up'[d]) : up'[d][k] = up[d][k + 1]
  BY <1>1, HeadTailProperties
<1>5. DOMAIN up'[d] = 1 .. Len(up'[d]) /\ (up'[d] = <<>> <=> Len(up'[d]) = 0)
  BY <1>4, EmptySeq, LenProperties
<1>6. Head(up[d]) = up[d][1]
  BY <1>1
<1>7. QED
  BY <1>1, <1>2, <1>3, <1>4, <1>5, <1>6

LEMMA AfterSend ==
    ASSUME up \in Streams, NEW d \in Domains, NEW m \in Message, up' = Sent(up, d, m)
    PROVE  /\ \A e \in Domains \ {d} : up'[e] = up[e]
           /\ Len(up[d]) \in Nat
           /\ Len(up'[d]) = Len(up[d]) + 1
           /\ up'[d][Len(up'[d])] = m
           /\ \A k \in DOMAIN up'[d] :
                k # Len(up'[d]) => k \in DOMAIN up[d] /\ up'[d][k] = up[d][k]
           /\ up'[d] # <<>>
<1>1. up[d] \in Seq(Message) /\ up'[d] = Append(up[d], m)
  BY DEF Streams, Sent
<1>2. \A e \in Domains \ {d} : up'[e] = up[e]
  BY DEF Streams, Sent
<1>3. QED
  BY <1>1, <1>2, AppendProperties
-----------------------------------------------------------------------------
(* The controller takes a message: if it is an END, its domain is counted  *)
(* from now on and was not before, else the same domains are counted.      *)
LEMMA ReceiveCounts ==
    ASSUME up \in Streams, StreamInv, NEW d \in Domains, up[d] # <<>>,
           up' = Received(up, d), UNCHANGED pc
    PROVE  /\ StreamInv'
           /\ d \notin Counted
           /\ Head(up[d]).type = "END" => Counted' = Counted \cup {d}
           /\ Head(up[d]).type # "END" => Counted' = Counted
<1>1. \A x \in Domains : Ended(x)' <=> Ended(x)
  BY DEF Ended
<1>2. ExitFree'
  BY AfterReceive DEF StreamInv, ExitFree
<1>3. EndClosesStream'
  <2> SUFFICES ASSUME NEW x \in Domains, NEW k \in DOMAIN up'[x],
                      up'[x][k].type = "END"
               PROVE  Ended(x) /\ k = Len(up'[x])
    BY <1>1 DEF EndClosesStream
  <2>1. CASE x # d
    BY <2>1, AfterReceive DEF StreamInv, EndClosesStream
  <2>2. CASE x = d
    <3>1. Ended(d) /\ k + 1 = Len(up[d])
      BY <2>2, AfterReceive DEF StreamInv, EndClosesStream
    <3>2. DOMAIN up'[d] \subseteq Nat
      BY AfterReceive, ReceivedType, LenProperties DEF Streams
    <3>3. QED
      BY <2>2, <3>1, <3>2, AfterReceive
  <2>3. QED
    BY <2>1, <2>2
<1>4. EndInStream'
  <2> SUFFICES ASSUME NEW x \in Domains, Ended(x), up'[x] # <<>>
               PROVE  up'[x][Len(up'[x])].type = "END"
    BY <1>1 DEF EndInStream
  <2>1. CASE x # d
    BY <2>1, AfterReceive DEF StreamInv, EndInStream
  <2>2. CASE x = d
    <3>1. Len(up'[d]) \in DOMAIN up'[d]
      BY <2>2, AfterReceive, ReceivedType, EmptySeq, LenProperties DEF Streams
    <3>2. up'[d][Len(up'[d])] = up[d][Len(up[d])]
      BY <3>1, AfterReceive
    <3>3. QED
      BY <2>2, <3>2 DEF StreamInv, EndInStream
  <2>3. QED
    BY <2>1, <2>2
<1>5. d \notin Counted
  BY DEF Counted
<1>6. ASSUME Head(up[d]).type = "END"
      PROVE  Counted' = Counted \cup {d}
  <2>1. Ended(d) /\ up'[d] = <<>>
    BY <1>6, AfterReceive DEF StreamInv, EndClosesStream
  <2>2. QED
    BY <2>1, <1>1, AfterReceive DEF Counted
<1>7. ASSUME Head(up[d]).type # "END"
      PROVE  Counted' = Counted
  <2>1. ~ (Ended(d) /\ up'[d] = <<>>)
    BY <1>7, AfterReceive DEF StreamInv, EndInStream
  <2>2. QED
    BY <2>1, <1>1, AfterReceive DEF Counted
<1>8. QED
  BY <1>2, <1>3, <1>4, <1>5, <1>6, <1>7 DEF StreamInv

(* A client step as the controller sees it: the client sends nothing, or a *)
(* message before it ends, or the END with which it ends.                  *)
SendsNothing(d) ==
    up' = up /\ \A x \in Domains : Ended(x)' <=> Ended(x)

SendsMessage(d) ==
    /\ ~ Ended(d)
    /\ \A x \in Domains : Ended(x)' <=> Ended(x)
    /\ \E m \in Message : /\ up' = Sent(up, d, m)
                          /\ m.type # "END"
                          /\ m.type = "SYSCALL" => m.call # "EXIT"

SendsEnd(d) ==
    /\ ~ Ended(d)
    /\ Ended(d)'
    /\ \A x \in Domains \ {d} : Ended(x)' <=> Ended(x)
    /\ \E status \in Status : up' = Sent(up, d, End(status))

LEMMA RequestSends ==
    ASSUME TypeOK, NoExit, NEW d \in Domains, NEW call \in SetupCalls[d] \cup RunCalls[d],
           Request(d, call)
    PROVE  \E m \in Message : /\ up' = Sent(up, d, m)
                              /\ m.type # "END"
                              /\ m.type = "SYSCALL" => m.call # "EXIT"
<1>1. call \in Calls /\ call # "EXIT"
  BY UseAssumption DEF NoExit
<1>2. calls'[d] \in Nat
  BY <1>1, RequestType, UseAssumption
<1>3. PICK status \in Int : up' = Sent(up, d, Syscall(call, calls'[d], status))
  BY ArgumentsType DEF Request, Send
<1>4. Syscall(call, calls'[d], status) \in Message
  BY <1>1, <1>2, MessageTypes
<1>5. QED
  BY <1>1, <1>3, <1>4 DEF Syscall

LEMMA ClientSends ==
    ASSUME TypeOK, NoExit, NEW d \in Domains, Progress(d) \/ Choice(d)
    PROVE  SendsNothing(d) \/ SendsMessage(d) \/ SendsEnd(d)
<1>p. pc \in [Domains -> States]
  BY DEF TypeOK, ClientTypeOK, States
<1>g. \A from, to : Goto(d, from, to) =>
        /\ pc[d] = from /\ pc'[d] = to
        /\ \A x \in Domains \ {d} : Ended(x)' <=> Ended(x)
  BY <1>p DEF Goto, Ended
<1>1. CASE \/ GetModules(d) \/ PassBind(d) \/ Bind(d) \/ PassStart(d) \/ Start(d)
           \/ Registered(d) \/ Answer(d) \/ Poll(d) \/ Stop(d) \/ Close(d)
  <2>1. up' = up
    BY <1>1 DEF GetModules, PassBind, Bind, PassStart, Start, Registered, Answer,
                Poll, Stop, Close, Receive, channelVars
  <2>2. CASE Poll(d) \/ Stop(d)
    BY <2>1, <2>2 DEF Poll, Stop, Ended, SendsNothing
  <2>3. CASE Close(d)
    <3>1. pc[d] = "ended" /\ pc'[d] = "closed"
      BY <2>3, <1>g DEF Close
    <3>2. QED
      BY <3>1, <2>1, <2>3, <1>g DEF Close, Ended, SendsNothing
  <2>4. CASE \/ GetModules(d) \/ PassBind(d) \/ Bind(d) \/ PassStart(d) \/ Start(d)
             \/ Registered(d) \/ Answer(d)
    <3>1. /\ ~ Ended(d) /\ ~ Ended(d)'
          /\ \A x \in Domains \ {d} : Ended(x)' <=> Ended(x)
      BY <2>4, <1>g DEF GetModules, PassBind, Bind, PassStart, Start, Registered,
                        Answer, Ended
    <3>2. QED
      BY <3>1, <2>1 DEF SendsNothing
  <2>5. QED
    BY <1>1, <2>2, <2>3, <2>4
<1>2. CASE Connect(d) \/ AskBind(d) \/ Ask(d) \/ AskStart(d)
  <2>1. /\ ~ Ended(d) /\ ~ Ended(d)'
        /\ \A x \in Domains \ {d} : Ended(x)' <=> Ended(x)
    BY <1>2, <1>g DEF Connect, AskBind, Ask, AskStart, Ended
  <2>2. CASE Connect(d) \/ AskBind(d) \/ AskStart(d)
    BY <2>1, <2>2, MessageTypes
    DEF Connect, AskBind, AskStart, Send, SendsMessage, DomainRegistry, Barrier
  <2>3. CASE Ask(d)
    <3>1. First(Unbound(d)) \in Socket
      BY <2>3, FirstType DEF Ask, Unbound, Imported
    <3>2. Query(First(Unbound(d)), NoAddress) \in Message
      BY <3>1, MessageTypes DEF NoAddress, Address
    <3>3. QED
      BY <2>1, <2>3, <3>2 DEF Ask, Send, SendsMessage, Query
  <2>4. QED
    BY <1>2, <2>2, <2>3
<1>3. CASE Register(d)
  <2> DEFINE m == Registry(First(Unregistered(d)), [domain |-> d, port |-> Port(d)])
  <2>1. First(Unregistered(d)) \in Socket
    BY <1>3, FirstType DEF Register, Unregistered, Exported
  <2>2. remotes[d] \in Seq(Socket)
    BY DEF TypeOK, ClientTypeOK
  <2>3. m \in Message
    BY <2>1, <2>2, MessageTypes DEF Domains, Address, Port
  <2>4. m.type = "TARGET_SOCKET_REGISTRY"
    BY DEF Registry
  <2>5. up' = Sent(up, d, m)
    BY <1>3 DEF Register, Send
  <2>6. ~ Ended(d) /\ \A x \in Domains : Ended(x)' <=> Ended(x)
    BY <1>3 DEF Register, Ended
  <2> HIDE DEF m
  <2>7. QED
    BY <2>3, <2>4, <2>5, <2>6 DEF SendsMessage
<1>4. CASE SetupCall(d) \/ RunCall(d)
  <2>1. PICK call \in SetupCalls[d] \cup RunCalls[d] : Request(d, call)
    BY <1>4 DEF SetupCall, RunCall
  <2>2. /\ ~ Ended(d) /\ ~ Ended(d)'
        /\ \A x \in Domains \ {d} : Ended(x)' <=> Ended(x)
    BY <1>4, <1>g DEF SetupCall, RunCall, Ended
  <2>3. QED
    BY <2>1, <2>2, RequestSends DEF SendsMessage
<1>5. CASE Finish(d) \/ Fail(d) \/ (Quit(d) /\ Backend # "MPI")
  <2>1. /\ ~ Ended(d) /\ Ended(d)'
        /\ \A x \in Domains \ {d} : Ended(x)' <=> Ended(x)
    BY <1>5, <1>g DEF Finish, Fail, Quit, Ended
  <2>2. \E status \in Status : up' = Sent(up, d, End(status))
    BY <1>5 DEF Finish, Fail, Quit, QuitStatus, Send, Status
  <2>3. QED
    BY <2>1, <2>2 DEF SendsEnd
<1>6. CASE Quit(d) /\ Backend = "MPI"
  <2>1. /\ ~ Ended(d) /\ ~ Ended(d)'
        /\ \A x \in Domains \ {d} : Ended(x)' <=> Ended(x)
    BY <1>6, <1>g DEF Quit, Ended
  <2>2. QED
    BY <1>6, <2>1 DEF Quit, channelVars, SendsNothing
<1>7. CASE Die(d)
  <2>1. ~ Ended(d) /\ pc'[d] = "killed"
    BY <1>7, <1>p DEF Die, Ended, Waiting
  <2>2. \A x \in Domains : Ended(x)' <=> Ended(x)
    BY <1>7, <1>p, <2>1 DEF Die, Ended
  <2>3. QED
    BY <1>7, <2>2 DEF Die, channelVars, SendsNothing
<1>8. QED
  BY <1>1, <1>2, <1>3, <1>4, <1>5, <1>6, <1>7
  DEF Progress, Choice, ClientProgress, ClientChoice
(* A client step counts nobody.                                            *)
LEMMA ClientKeeps ==
    ASSUME TypeOK, StreamInv, NEW d \in Domains,
           SendsNothing(d) \/ SendsMessage(d) \/ SendsEnd(d)
    PROVE  StreamInv' /\ Counted' = Counted
<1>s. up \in Streams
  BY DEF TypeOK, ChannelTypeOK, Streams
<1>1. CASE SendsNothing(d)
  BY <1>1
  DEF SendsNothing, StreamInv, ExitFree, EndClosesStream, EndInStream, Counted
<1>2. CASE SendsMessage(d)
  <2>1. PICK m \in Message : /\ up' = Sent(up, d, m)
                             /\ m.type # "END"
                             /\ m.type = "SYSCALL" => m.call # "EXIT"
    BY <1>2 DEF SendsMessage
  <2>2. ~ Ended(d) /\ \A x \in Domains : Ended(x)' <=> Ended(x)
    BY <1>2 DEF SendsMessage
  <2>3. ExitFree'
    BY <1>s, <2>1, AfterSend DEF StreamInv, ExitFree
  <2>4. EndClosesStream'
    BY <1>s, <2>1, <2>2, AfterSend DEF StreamInv, EndClosesStream
  <2>5. EndInStream'
    BY <1>s, <2>1, <2>2, AfterSend DEF StreamInv, EndInStream
  <2>6. Counted' = Counted
    BY <1>s, <2>1, <2>2, AfterSend DEF Counted
  <2>7. QED
    BY <2>3, <2>4, <2>5, <2>6 DEF StreamInv
<1>3. CASE SendsEnd(d)
  <2>1. PICK status \in Status : up' = Sent(up, d, End(status))
    BY <1>3 DEF SendsEnd
  <2>2. End(status) \in Message /\ End(status).type = "END"
    BY <2>1, MessageTypes DEF End
  <2>3. ~ Ended(d) /\ Ended(d)' /\ \A x \in Domains \ {d} : Ended(x)' <=> Ended(x)
    BY <1>3 DEF SendsEnd
  <2>4. ExitFree'
    BY <1>s, <2>1, <2>2, AfterSend DEF StreamInv, ExitFree
  <2>5. EndClosesStream'
    BY <1>s, <2>1, <2>2, <2>3, AfterSend DEF StreamInv, EndClosesStream
  <2>6. EndInStream'
    BY <1>s, <2>1, <2>2, <2>3, AfterSend DEF StreamInv, EndInStream
  <2>7. Counted' = Counted
    BY <1>s, <2>1, <2>2, <2>3, AfterSend DEF Counted
  <2>8. QED
    BY <2>4, <2>5, <2>6, <2>7 DEF StreamInv
<1>4. QED
  BY <1>1, <1>2, <1>3

-----------------------------------------------------------------------------
LEMMA ClientEnd ==
    ASSUME EndInv, NoExit, TypeOK', NEW d \in Domains, Progress(d) \/ Choice(d)
    PROVE  EndInv'
<1>1. StreamInv' /\ Counted' = Counted
  BY ClientSends, ClientKeeps DEF EndInv
<1>2. ending' = ending /\ phase' = phase
  BY DEF Progress, Choice, controllerVars
<1>3. QED
  BY <1>1, <1>2 DEF EndInv, EndingCount

(* The END of one more domain: the last one makes the controller return.   *)
LEMMA ServeEndEnd ==
    ASSUME EndInv, TypeOK', ServeEnd, UNCHANGED pc
    PROVE  EndInv'
<1>1. cursor \in Domains /\ up \in Streams
  BY DEF EndInv, TypeOK, ControllerTypeOK, ChannelTypeOK, Streams
<1>2. /\ up[cursor] # <<>> /\ Head(up[cursor]).type = "END"
      /\ up' = Received(up, cursor)
      /\ phase = "serving"
  BY DEF ServeEnd, Serving, Turn
<1>3. StreamInv' /\ cursor \notin Counted /\ Counted' = Counted \cup {cursor}
  BY <1>1, <1>2, ReceiveCounts DEF EndInv
<1>4. Counted \subseteq Domains /\ Counted # Domains
  BY <1>2 DEF EndInv, Counted
<1> DEFINE n == Cardinality(Counted)
<1>5. /\ n \in 0 .. N /\ n # N /\ (n = 0 <=> Counted = {})
      /\ N \in Nat \ {0}
      /\ Cardinality(Counted') = n + 1
  BY <1>1, <1>3, <1>4, DomainsFinite
<1>6. ending = IF Counted = {} THEN 0 ELSE N - n
  BY DEF EndInv, EndingCount
<1>7. ending' = (IF ending = 0 THEN N ELSE ending) - 1
  BY DEF ServeEnd, ActionEnd, FirstEnd, EndsToCome
<1>8. ending' = N - (n + 1)
  BY <1>5, <1>6, <1>7
<1>9. EndingCount'
  BY <1>3, <1>5, <1>8 DEF EndingCount
<1>10. Counted' = Domains <=> n + 1 = N
  BY <1>1, <1>3, <1>4, <1>5, DomainsFinite
<1>11. phase' = IF ending' = 0 THEN "returned" ELSE "serving"
  BY <1>2 DEF ServeEnd
<1>12. phase' = "returned" <=> Counted' = Domains
  BY <1>5, <1>8, <1>10, <1>11
<1>13. QED
  BY <1>3, <1>9, <1>12 DEF EndInv

LEMMA ControllerEnd ==
    ASSUME EndInv, TypeOK', Controller
    PROVE  EndInv'
<1>p. UNCHANGED pc
  BY DEF Controller, clientVars
<1>s. up \in Streams /\ cursor \in Domains
  BY DEF EndInv, TypeOK, ControllerTypeOK, ChannelTypeOK, Streams
<1>k. ASSUME StreamInv', Counted' = Counted, ending' = ending,
             phase' = "returned" <=> phase = "returned"
      PROVE  EndInv'
  BY <1>k DEF EndInv, EndingCount
<1>1. ASSUME NEW d \in Domains, Accept(d)
      PROVE  EndInv'
  <2>1. /\ StreamInv' /\ Counted' = Counted
    BY <1>1, <1>p, <1>s, ReceiveCounts DEF Accept, EndInv
  <2>2. phase' # "returned" /\ phase # "returned" /\ ending' = ending
    BY <1>1 DEF Accept
  <2>3. QED
    BY <2>1, <2>2, <1>k
<1>2. CASE NotifyEnd \/ Skip \/ Hangup
  <2>1. up' = up /\ ending' = ending /\ phase' = phase
    BY <1>2 DEF NotifyEnd, Skip, Hangup, channelVars, controllerVars
  <2>2. StreamInv' /\ Counted' = Counted
    BY <2>1, <1>p DEF EndInv, StreamInv, ExitFree, EndClosesStream, EndInStream,
                      Counted, Ended
  <2>3. QED
    BY <2>1, <2>2, <1>k
<1>3. CASE ServeEnd
  BY <1>3, <1>p, ServeEndEnd
<1>4. CASE ServeRegistry \/ ServeQuery \/ ServeBarrier \/ ServeFile \/ ServeSbrk
  <2>1. /\ up[cursor] # <<>> /\ Head(up[cursor]).type # "END"
        /\ up' = Received(up, cursor)
    BY <1>4 DEF ServeRegistry, ServeQuery, ServeBarrier, ServeFile, ServeSbrk, Serving
  <2>2. StreamInv' /\ Counted' = Counted
    BY <2>1, <1>p, <1>s, ReceiveCounts DEF EndInv
  <2>3. ending' = ending /\ phase' = phase
    BY <1>4 DEF ServeRegistry, ServeQuery, ServeBarrier, ServeFile, ServeSbrk
  <2>4. QED
    BY <2>2, <2>3, <1>k
<1>5. CASE ServeExit
  <2>1. /\ up[cursor] # <<>> /\ Head(up[cursor]).type = "SYSCALL"
        /\ Head(up[cursor]).call = "EXIT"
    BY <1>5 DEF ServeExit, Serving
  <2>2. up[cursor] \in Seq(Message)
    BY <1>s DEF Streams
  <2>3. 1 \in DOMAIN up[cursor] /\ Head(up[cursor]) = up[cursor][1]
    BY <2>1, <2>2, EmptySeq, LenProperties
  <2>4. QED
    BY <1>s, <2>1, <2>3 DEF EndInv, StreamInv, ExitFree
<1>6. QED
  BY <1>1, <1>2, <1>3, <1>4, <1>5 DEF Controller, ControllerServe

LEMMA EndInitially == Init => EndInv
<1> SUFFICES ASSUME Init PROVE EndInv
  OBVIOUS
<1>1. TypeOK
  BY InitType
<1>2. \A d \in Domains : up[d] = <<>> /\ DOMAIN up[d] = {} /\ ~ Ended(d)
  BY DEF Init, ChannelInit, ClientInit, Ended
<1>3. StreamInv /\ Counted = {}
  BY <1>2 DEF StreamInv, ExitFree, EndClosesStream, EndInStream, Counted
<1>4. Domains # {}
  BY NAssumption DEF Domains
<1>5. QED
  BY <1>1, <1>3, <1>4 DEF EndInv, EndingCount, Init, ControllerInit

LEMMA EndStep ==
    ASSUME NoExit, EndInv, [Next]_vars
    PROVE  EndInv'
<1>1. TypeOK'
  BY NextType DEF EndInv
<1>2. CASE Controller
  BY <1>1, <1>2, ControllerEnd
<1>3. ASSUME NEW d \in Domains, Progress(d) \/ Choice(d)
      PROVE  EndInv'
  BY <1>1, <1>3, ClientEnd
<1>4. CASE UNCHANGED vars
  BY <1>1, <1>4
  DEF vars, channelVars, controllerVars, clientVars, EndInv, EndingCount, StreamInv,
      ExitFree, EndClosesStream, EndInStream, Counted, Ended
<1>5. QED
  BY <1>2, <1>3, <1>4 DEF Next, Done

(* If no domain calls EXIT, the END of a domain is the last message of its *)
(* stream, leaves it only when it is counted, and the controller returns   *)
(* exactly when all are counted.                                           *)
THEOREM EndInvariant == ASSUME NoExit PROVE Spec => []EndInv
<1>1. EndInv /\ [Next]_vars => EndInv'
  BY EndStep
<1>2. QED
  BY <1>1, EndInitially, PTL DEF Spec

(* If no domain calls EXIT, "ending" always counts the domains whose END   *)
(* the controller has not received, from the first END on.                 *)
THEOREM EndingCountCorrect == ASSUME NoExit PROVE Spec => []EndingCount
<1>1. EndInv => EndingCount
  BY DEF EndInv
<1>2. QED
  BY <1>1, EndInvariant, PTL

(* If no domain calls EXIT, the controller returns only after the END of   *)
(* every domain, so that no domain loses it while it runs.                 *)
THEOREM ReturnsLastCorrect == ASSUME NoExit PROVE Spec => []ReturnsLast
<1>1. EndInv => ReturnsLast
  BY DEF EndInv, ReturnsLast
<1>2. QED
  BY <1>1, EndInvariant, PTL

-----------------------------------------------------------------------------
(* The start of a run: if every domain starts and none calls EXIT, no      *)
(* simulation runs before all the domains are ready. This holds for every  *)
(* number of domains, every platform, every backend, and whatever domains  *)
(* fail, stop or call.                                                     *)

(* No process goes through the library without starting.                   *)
NoQuit == Quitters = {}

Started == {"run", "waitRunCall", "ended", "closed"}

(* Where a client blocks for the answer to a message of this type; the     *)
(* answer has the same type.                                               *)
AtBarrier == {"waitBind", "waitStart"}

Asking == {"waitModules", "waitSetupCall", "waitAddress"} \cup AtBarrier

Topic(state) ==
    CASE state = "waitModules" -> "DOMAIN_REGISTRY"
      [] state = "waitSetupCall" -> "SYSCALL"
      [] state = "waitAddress" -> "TARGET_SOCKET_QUERY"
      [] OTHER -> "BARRIER"

(* The conversation of d with the controller is at one of these points:    *)
(* nothing is asked, the request is under way behind the registrations,    *)
(* the barrier has counted d, the answer is under way, or d has started.   *)
Quiet(d) ==
    /\ down[d] = <<>>
    /\ \A k \in DOMAIN up[d] : up[d][k].type = "TARGET_SOCKET_REGISTRY"

Requested(d) ==
    /\ down[d] = <<>>
    /\ up[d] # <<>>
    /\ \A k \in DOMAIN up[d] :
         up[d][k].type = IF k = Len(up[d]) THEN Topic(pc[d])
                                           ELSE "TARGET_SOCKET_REGISTRY"

Arrived == {d \in Domains : pc[d] \in AtBarrier /\ up[d] = <<>> /\ down[d] = <<>>}

Replied(d) ==
    /\ up[d] = <<>>
    /\ down[d] # <<>>
    /\ \A k \in DOMAIN down[d] :
         down[d][k].type = IF k = 1 THEN Topic(pc[d]) ELSE "END"
    /\ pc[d] # "waitStart" => Len(down[d]) = 1

Launched(d) ==
    /\ \A k \in DOMAIN up[d] : up[d][k].type \in {"SYSCALL", "END"}
    /\ \A k \in DOMAIN down[d] : down[d][k].type \in {"SYSCALL", "END"}

Session(d) ==
    \/ pc[d] \in {"connect", "setup", "binding", "querying"} /\ Quiet(d)
    \/ pc[d] \in Asking /\ (Requested(d) \/ d \in Arrived \/ Replied(d))
    \/ pc[d] \in Started /\ Launched(d)

(* The two barriers, that of bind() with MPI and that of the start, have   *)
(* been opened to d: d has taken the message or it is on its way.          *)
BindOpen(d) ==
    /\ BarrierInBind
    /\ \/ pc[d] \in {"querying", "waitAddress", "waitStart"} \cup Started
       \/ pc[d] = "waitBind" /\ down[d] # <<>>

StartOpen(d) ==
    \/ pc[d] \in Started
    \/ pc[d] = "waitStart" /\ down[d] # <<>>

Open(d) == <<BindOpen(d), StartOpen(d)>>

SameRound == \A d, e \in Domains : Open(d) = Open(e)

(* The counter of the barrier counts the domains that have still to come.  *)
BarrierCount ==
    /\ Arrived # Domains
    /\ counter = IF Arrived = {} THEN 0 ELSE N - Cardinality(Arrived)

Sessions ==
    \A d \in Domains : Session(d) /\ (pc[d] = "waitBind" => BarrierInBind)

(* The controller hangs up after it has returned.                          *)
HangsUpLast == ~ linked => phase = "returned"

StartInv == EndInv /\ HangsUpLast /\ Sessions /\ SameRound /\ BarrierCount

-----------------------------------------------------------------------------
(* What is left of a stream when its head is taken, and what is added.     *)
LEMMA TakeFacts ==
    ASSUME NEW s \in Seq(Message), s # <<>>
    PROVE  /\ Head(s) \in Message /\ Head(s) = s[1]
           /\ Tail(s) \in Seq(Message)
           /\ Len(s) \in Nat \ {0} /\ Len(Tail(s)) = Len(s) - 1
           /\ DOMAIN s = 1 .. Len(s) /\ DOMAIN Tail(s) = 1 .. (Len(s) - 1)
           /\ \A k \in DOMAIN Tail(s) : Tail(s)[k] = s[k + 1]
           /\ Tail(s) = <<>> <=> Len(s) = 1
<1>1. Len(s) \in Nat \ {0} /\ DOMAIN s = 1 .. Len(s)
  BY EmptySeq, LenProperties
<1>2. /\ Head(s) \in Message /\ Tail(s) \in Seq(Message)
      /\ Len(Tail(s)) = Len(s) - 1
      /\ \A k \in 1 .. Len(Tail(s)) : Tail(s)[k] = s[k + 1]
  BY HeadTailProperties
<1>3. DOMAIN Tail(s) = 1 .. Len(Tail(s)) /\ (Tail(s) = <<>> <=> Len(Tail(s)) = 0)
  BY <1>2, EmptySeq, LenProperties
<1>4. Head(s) = s[1]
  OBVIOUS
<1>5. QED
  BY <1>1, <1>2, <1>3, <1>4

LEMMA AddFacts ==
    ASSUME NEW s \in Seq(Message), NEW m \in Message
    PROVE  /\ Append(s, m) \in Seq(Message) /\ Append(s, m) # <<>>
           /\ Len(s) \in Nat /\ Len(Append(s, m)) = Len(s) + 1
           /\ DOMAIN s = 1 .. Len(s) /\ DOMAIN Append(s, m) = 1 .. (Len(s) + 1)
           /\ \A k \in DOMAIN s : Append(s, m)[k] = s[k]
           /\ Append(s, m)[Len(s) + 1] = m
           /\ s = <<>> <=> Len(s) = 0
  BY AppendProperties, EmptySeq, LenProperties

LEMMA StreamUse ==
    ASSUME TypeOK, NEW d \in Domains
    PROVE  /\ up[d] \in Seq(Message) /\ down[d] \in Seq(Message)
           /\ pc[d] \in States
           /\ up \in Streams /\ down \in Streams
  BY DEF TypeOK, ChannelTypeOK, ClientTypeOK, Streams, States

(* Nothing but d and its streams changes.                                  *)
Only(d) ==
    \A e \in Domains \ {d} : pc'[e] = pc[e] /\ up'[e] = up[e] /\ down'[e] = down[e]

LEMMA GotoEffect ==
    ASSUME TypeOK, NEW d \in Domains, NEW from, NEW to, Goto(d, from, to)
    PROVE  /\ pc[d] = from /\ pc'[d] = to
           /\ \A e \in Domains \ {d} : pc'[e] = pc[e]
  BY DEF TypeOK, ClientTypeOK, Goto

LEMMA SendEffect ==
    ASSUME TypeOK, NEW d \in Domains, NEW m \in Message, Send(d, m)
    PROVE  /\ up'[d] = Append(up[d], m) /\ down' = down
           /\ \A e \in Domains \ {d} : up'[e] = up[e]
  BY DEF TypeOK, ChannelTypeOK, Send, Sent

LEMMA ReceiveEffect ==
    ASSUME TypeOK, NEW d \in Domains, Receive(d)
    PROVE  /\ down[d] # <<>> /\ down'[d] = Tail(down[d]) /\ up' = up
           /\ \A e \in Domains \ {d} : down'[e] = down[e]
  BY DEF TypeOK, ChannelTypeOK, Receive, Received

(* A step of d and its streams alone keeps the invariant if it keeps the   *)
(* session of d, and neither opens the barrier to d nor brings d to it.    *)
LEMMA LocalStep ==
    ASSUME StartInv, EndInv', HangsUpLast', NEW d \in Domains, Only(d),
           Session(d)', pc'[d] = "waitBind" => BarrierInBind,
           Open(d)' = Open(d),
           d \in Arrived' <=> d \in Arrived,
           counter' = counter
    PROVE  StartInv'
<1>1. ASSUME NEW e \in Domains \ {d}
      PROVE  /\ Session(e)' <=> Session(e)
             /\ Open(e)' = Open(e)
             /\ e \in Arrived' <=> e \in Arrived
  <2>1. pc'[e] = pc[e] /\ up'[e] = up[e] /\ down'[e] = down[e]
    BY DEF Only
  <2>2. e \in Arrived' <=> e \in Arrived
    BY <2>1 DEF Arrived
  <2>3. Open(e)' = Open(e)
    BY <2>1 DEF Open, BindOpen, StartOpen
  <2>4. /\ Quiet(e)' <=> Quiet(e)
        /\ Requested(e)' <=> Requested(e)
        /\ Replied(e)' <=> Replied(e)
        /\ Launched(e)' <=> Launched(e)
    BY <2>1 DEF Quiet, Requested, Replied, Launched
  <2>5. QED
    BY <2>1, <2>2, <2>3, <2>4 DEF Session
<1>2. Sessions'
  <2> SUFFICES ASSUME NEW e \in Domains
               PROVE  Session(e)' /\ (pc'[e] = "waitBind" => BarrierInBind)
    BY DEF Sessions, BarrierInBind
  <2>1. CASE e = d
    BY <2>1
  <2>2. CASE e # d
    BY <2>2, <1>1 DEF StartInv, Sessions, Only
  <2>3. QED
    BY <2>1, <2>2
<1>3. \A e \in Domains : Open(e)' = Open(e)
  BY <1>1
<1>4. SameRound'
  BY <1>3 DEF StartInv, SameRound
<1>5. Arrived' = Arrived
  BY <1>1 DEF Arrived
<1>6. BarrierCount'
  BY <1>5 DEF StartInv, BarrierCount
<1>7. QED
  BY <1>2, <1>4, <1>6 DEF StartInv

-----------------------------------------------------------------------------
(* The steps of a client, by what they do to its conversation.             *)
LEMMA ClientAsks ==
    ASSUME TypeOK, NEW d \in Domains, Session(d), NEW m \in Message,
           NEW from \in {"connect", "setup", "binding", "querying"}, NEW to \in Asking,
           Goto(d, from, to), Send(d, m), m.type = Topic(to)
    PROVE  /\ Only(d) /\ Session(d)' /\ pc[d] = from /\ pc'[d] = to
           /\ down[d] = <<>> /\ down'[d] = <<>>
           /\ d \notin Arrived /\ d \notin Arrived'
<1>1. /\ pc[d] = from /\ pc'[d] = to /\ Only(d)
      /\ up'[d] = Append(up[d], m) /\ down'[d] = down[d]
  BY GotoEffect, SendEffect DEF Only
<1>2. Quiet(d)
  BY <1>1 DEF Session, Asking, AtBarrier, Started
<1>3. up[d] \in Seq(Message)
  BY StreamUse
<1>4. Requested(d)'
  <2>1. down'[d] = <<>> /\ up'[d] # <<>>
    BY <1>1, <1>2, <1>3, AddFacts DEF Quiet
  <2>2. ASSUME NEW k \in DOMAIN up'[d]
        PROVE  up'[d][k].type = IF k = Len(up'[d]) THEN Topic(to)
                                ELSE "TARGET_SOCKET_REGISTRY"
    <3>1. /\ Len(up[d]) \in Nat /\ Len(up'[d]) = Len(up[d]) + 1
          /\ DOMAIN up[d] = 1 .. Len(up[d]) /\ DOMAIN up'[d] = 1 .. (Len(up[d]) + 1)
      BY <1>1, <1>3, AddFacts
    <3>2. CASE k = Len(up[d]) + 1
      BY <1>1, <1>3, <3>1, <3>2, AddFacts
    <3>3. CASE k # Len(up[d]) + 1
      <4>1. k \in DOMAIN up[d]
        BY <3>1, <3>3
      <4>2. up'[d][k] = up[d][k]
        BY <1>1, <1>3, <4>1, AddFacts
      <4>3. QED
        BY <1>2, <3>1, <3>3, <4>1, <4>2 DEF Quiet
    <3>4. QED
      BY <3>2, <3>3
  <2>3. QED
    BY <1>1, <2>1, <2>2 DEF Requested
<1>5. Session(d)' /\ d \notin Arrived'
  BY <1>1, <1>4 DEF Session, Requested, Arrived
<1>6. QED
  BY <1>1, <1>2, <1>4, <1>5 DEF Quiet, Requested, Arrived, AtBarrier

LEMMA ClientTakes ==
    ASSUME TypeOK, NEW d \in Domains, Session(d),
           NEW from \in Asking \ {"waitStart"}, NEW to \in {"setup", "querying"},
           Goto(d, from, to), Receive(d)
    PROVE  /\ Only(d) /\ Session(d)' /\ pc[d] = from /\ pc'[d] = to
           /\ down[d] # <<>> /\ d \notin Arrived /\ d \notin Arrived'
           /\ Head(down[d]).type = Topic(from)
<1>1. /\ pc[d] = from /\ pc'[d] = to /\ Only(d)
      /\ down[d] # <<>> /\ down'[d] = Tail(down[d]) /\ up'[d] = up[d]
  BY GotoEffect, ReceiveEffect DEF Only
<1>2. Replied(d)
  BY <1>1 DEF Session, Asking, AtBarrier, Started, Requested, Arrived
<1>3. up[d] \in Seq(Message) /\ down[d] \in Seq(Message)
  BY StreamUse
<1>4. Len(down[d]) = 1
  BY <1>1, <1>2 DEF Replied
<1>5. down'[d] = <<>> /\ Head(down[d]).type = Topic(from)
  BY <1>1, <1>2, <1>3, <1>4, TakeFacts DEF Replied
<1>6. Quiet(d)'
  <2>1. up'[d] = <<>> /\ DOMAIN up'[d] = {}
    BY <1>1, <1>2 DEF Replied
  <2>2. QED
    BY <1>5, <2>1 DEF Quiet
<1>7. QED
  BY <1>1, <1>5, <1>6 DEF Session, Arrived, AtBarrier

(* A domain that runs adds to its stream and takes what comes.             *)
LEMMA ClientRuns ==
    ASSUME TypeOK, NEW d \in Domains, Session(d),
           pc[d] \in Started, pc'[d] \in Started,
           \A e \in Domains \ {d} : pc'[e] = pc[e],
           \/ UNCHANGED <<up, down>>
           \/ Receive(d)
           \/ \E m \in Message : Send(d, m) /\ m.type \in {"SYSCALL", "END"}
    PROVE  /\ Only(d) /\ Session(d)' /\ d \notin Arrived /\ d \notin Arrived'
<1>1. Launched(d)
  BY DEF Session, Asking, AtBarrier, Started
<1>2. up[d] \in Seq(Message) /\ down[d] \in Seq(Message)
  BY StreamUse
<1>3. d \notin Arrived /\ d \notin Arrived'
  BY DEF Arrived, AtBarrier, Started
<1>4. CASE UNCHANGED <<up, down>>
  BY <1>1, <1>3, <1>4 DEF Only, Session, Launched
<1>5. CASE Receive(d)
  <2>1. Only(d) /\ down[d] # <<>> /\ down'[d] = Tail(down[d]) /\ up'[d] = up[d]
    BY <1>5, ReceiveEffect DEF Only
  <2>2. ASSUME NEW k \in DOMAIN down'[d]
        PROVE  k + 1 \in DOMAIN down[d] /\ down'[d][k] = down[d][k + 1]
    BY <1>2, <2>1, TakeFacts
  <2>3. Launched(d)'
    BY <1>1, <2>1, <2>2 DEF Launched
  <2>4. QED
    BY <1>3, <2>1, <2>3 DEF Session
<1>6. ASSUME NEW m \in Message, Send(d, m), m.type \in {"SYSCALL", "END"}
      PROVE  Only(d) /\ Session(d)'
  <2>1. Only(d) /\ up'[d] = Append(up[d], m) /\ down'[d] = down[d]
    BY <1>6, SendEffect DEF Only
  <2>2. ASSUME NEW k \in DOMAIN up'[d]
        PROVE  up'[d][k] = m \/ (k \in DOMAIN up[d] /\ up'[d][k] = up[d][k])
    BY <1>2, <2>1, AddFacts
  <2>3. Launched(d)'
    BY <1>1, <1>6, <2>1, <2>2 DEF Launched
  <2>4. QED
    BY <2>1, <2>3 DEF Session
<1>7. QED
  BY <1>3, <1>4, <1>5, <1>6

LEMMA ClientStart ==
    ASSUME StartInv, NoExit, NoQuit, EndInv', NEW d \in Domains, Progress(d) \/ Choice(d)
    PROVE  StartInv'
<1>t. TypeOK /\ Session(d) /\ (pc[d] = "waitBind" => BarrierInBind)
  BY DEF StartInv, EndInv, Sessions
<1>c. counter' = counter /\ phase' = phase
  BY DEF Progress, Choice, controllerVars
<1>h. HangsUpLast'
  <2>1. linked' = linked
    BY DEF Progress, Choice, ClientProgress, ClientChoice, Connect, GetModules, Start,
           Register, Registered, AskBind, PassBind, Ask, Bind, AskStart, PassStart,
           Answer, Poll, Finish, SetupCall, RunCall, Stop, Fail, Quit, Die, Close,
           Send, Receive, Request, channelVars
  <2>2. QED
    BY <2>1, <1>c DEF StartInv, HangsUpLast
<1>k. ASSUME Only(d), Session(d)', pc'[d] = "waitBind" => BarrierInBind,
             Open(d)' = Open(d), d \notin Arrived, d \notin Arrived'
      PROVE  StartInv'
  BY <1>c, <1>h, <1>k, LocalStep
<1>1. CASE Connect(d)
  <2>1. DomainRegistry \in Message /\ DomainRegistry.type = Topic("waitModules")
    BY MessageTypes DEF DomainRegistry, Topic
  <2>2. /\ Only(d) /\ Session(d)' /\ pc[d] = "connect" /\ pc'[d] = "waitModules"
        /\ d \notin Arrived /\ d \notin Arrived'
    BY <1>1, <1>t, <2>1, ClientAsks DEF Connect, Asking
  <2>3. Open(d)' = Open(d)
    BY <2>2 DEF Open, BindOpen, StartOpen, Started
  <2>4. QED
    BY <2>2, <2>3, <1>k
<1>2. CASE SetupCall(d)
  <2>1. PICK m \in Message : Send(d, m) /\ m.type = "SYSCALL"
    <3>1. PICK call \in SetupCalls[d] : Request(d, call)
      BY <1>2 DEF SetupCall
    <3>2. call \in Calls
      BY UseAssumption
    <3>3. calls'[d] \in Nat
      BY <1>t, <3>1, <3>2, RequestType, UseAssumption
    <3>4. PICK status \in Int : Send(d, Syscall(call, calls'[d], status))
      BY <3>1, ArgumentsType DEF Request
    <3>5. /\ Syscall(call, calls'[d], status) \in Message
          /\ Syscall(call, calls'[d], status).type = "SYSCALL"
      BY <3>2, <3>3, MessageTypes DEF Syscall
    <3>6. QED
      BY <3>4, <3>5
  <2>2. /\ Only(d) /\ Session(d)' /\ pc[d] = "setup" /\ pc'[d] = "waitSetupCall"
        /\ d \notin Arrived /\ d \notin Arrived'
    BY <1>2, <1>t, <2>1, ClientAsks DEF SetupCall, Asking, Topic
  <2>3. Open(d)' = Open(d)
    BY <2>2 DEF Open, BindOpen, StartOpen, Started
  <2>4. QED
    BY <2>2, <2>3, <1>k
<1>3. CASE AskBind(d)
  <2>1. Barrier \in Message /\ Barrier.type = Topic("waitBind")
    BY MessageTypes DEF Barrier, Topic
  <2>2. /\ Only(d) /\ Session(d)' /\ pc[d] = "binding" /\ pc'[d] = "waitBind"
        /\ down'[d] = <<>> /\ d \notin Arrived /\ d \notin Arrived'
    BY <1>3, <1>t, <2>1, ClientAsks DEF AskBind, Asking, AtBarrier
  <2>3. Open(d)' = Open(d)
    BY <2>2 DEF Open, BindOpen, StartOpen, Started
  <2>4. QED
    BY <1>3, <2>2, <2>3, <1>k DEF AskBind
<1>4. CASE Ask(d)
  <2>1. PICK m \in Message : Send(d, m) /\ m.type = Topic("waitAddress")
    <3>1. First(Unbound(d)) \in Socket
      BY <1>4, FirstType DEF Ask, Unbound, Imported
    <3>2. Query(First(Unbound(d)), NoAddress) \in Message
      BY <3>1, MessageTypes DEF NoAddress, Address
    <3>3. QED
      BY <1>4, <3>2 DEF Ask, Query, Topic
  <2>2. /\ Only(d) /\ Session(d)' /\ pc[d] = "querying" /\ pc'[d] = "waitAddress"
        /\ d \notin Arrived /\ d \notin Arrived'
    BY <1>4, <1>t, <2>1, ClientAsks DEF Ask, Asking
  <2>3. Open(d)' = Open(d)
    BY <2>2 DEF Open, BindOpen, StartOpen, Started
  <2>4. QED
    BY <2>2, <2>3, <1>k
<1>5. CASE AskStart(d)
  <2>1. Barrier \in Message /\ Barrier.type = Topic("waitStart")
    BY MessageTypes DEF Barrier, Topic
  <2>2. /\ Only(d) /\ Session(d)' /\ pc[d] = "querying" /\ pc'[d] = "waitStart"
        /\ down'[d] = <<>> /\ d \notin Arrived /\ d \notin Arrived'
    BY <1>5, <1>t, <2>1, ClientAsks DEF AskStart, Asking, AtBarrier
  <2>3. Open(d)' = Open(d)
    BY <2>2 DEF Open, BindOpen, StartOpen, Started
  <2>4. QED
    BY <2>2, <2>3, <1>k
<1>6. CASE GetModules(d) \/ (Answer(d) /\ pc[d] = "waitSetupCall")
  <2>1. PICK from \in {"waitModules", "waitSetupCall"} : Goto(d, from, "setup")
    BY <1>6 DEF GetModules, Answer, Goto
  <2>2. /\ Only(d) /\ Session(d)' /\ pc[d] = from /\ pc'[d] = "setup"
        /\ d \notin Arrived /\ d \notin Arrived'
    BY <1>6, <1>t, <2>1, ClientTakes DEF GetModules, Answer, Asking, AtBarrier
  <2>3. Open(d)' = Open(d)
    BY <2>2 DEF Open, BindOpen, StartOpen, Started
  <2>4. QED
    BY <2>2, <2>3, <1>k
<1>7. CASE PassBind(d) \/ Bind(d)
  <2>1. PICK from \in {"waitBind", "waitAddress"} : Goto(d, from, "querying")
    BY <1>7 DEF PassBind, Bind, Goto
  <2>2. /\ Only(d) /\ Session(d)' /\ pc[d] = from /\ pc'[d] = "querying"
        /\ down[d] # <<>> /\ d \notin Arrived /\ d \notin Arrived'
    BY <1>7, <1>t, <2>1, ClientTakes DEF PassBind, Bind, Asking, AtBarrier
  <2>3. Open(d)' = Open(d)
    BY <1>t, <2>2 DEF Open, BindOpen, StartOpen, Started
  <2>4. QED
    BY <2>2, <2>3, <1>k
<1>8. CASE Start(d) \/ Registered(d)
  <2>1. /\ pc[d] \in {"setup", "binding"} /\ pc'[d] \in {"binding", "querying"}
        /\ pc'[d] = "querying" => ~ BarrierInBind
        /\ Only(d) /\ up'[d] = up[d] /\ down'[d] = down[d]
    BY <1>8, <1>t, GotoEffect DEF Start, Registered, channelVars, Only
  <2>2. Quiet(d)' /\ Session(d)'
    BY <1>t, <2>1 DEF Session, Quiet, Asking, AtBarrier, Started
  <2>3. Open(d)' = Open(d)
    BY <2>1 DEF Open, BindOpen, StartOpen, Started
  <2>4. QED
    BY <2>1, <2>2, <2>3, <1>k DEF Arrived, AtBarrier
<1>9. CASE Register(d)
  <2>1. PICK m \in Message : Send(d, m) /\ m.type = "TARGET_SOCKET_REGISTRY"
    <3>1. First(Unregistered(d)) \in Socket
      BY <1>9, FirstType DEF Register, Unregistered, Exported
    <3>2. remotes[d] \in Seq(Socket) /\ Port(d) \in Nat
      BY <1>t DEF TypeOK, ClientTypeOK, Port
    <3>3. Registry(First(Unregistered(d)), [domain |-> d, port |-> Port(d)]) \in Message
      BY <3>1, <3>2, MessageTypes DEF Domains, Address
    <3>4. QED
      BY <1>9, <3>3 DEF Register, Registry
  <2>2. /\ pc[d] = "binding" /\ pc'[d] = "binding" /\ Only(d)
        /\ up'[d] = Append(up[d], m) /\ down'[d] = down[d]
    BY <1>9, <1>t, <2>1, SendEffect DEF Register, Only
  <2>3. Quiet(d)
    BY <1>t, <2>2 DEF Session, Asking, AtBarrier, Started
  <2>4. ASSUME NEW k \in DOMAIN up'[d]
        PROVE  up'[d][k] = m \/ (k \in DOMAIN up[d] /\ up'[d][k] = up[d][k])
    BY <1>t, <2>2, StreamUse, AddFacts
  <2>5. Quiet(d)' /\ Session(d)'
    BY <2>1, <2>2, <2>3, <2>4 DEF Session, Quiet
  <2>6. QED
    BY <2>2, <2>5, <1>k DEF Arrived, AtBarrier, Open, BindOpen, StartOpen, Started
<1>10. CASE PassStart(d)
  <2>1. /\ pc[d] = "waitStart" /\ pc'[d] = "run" /\ Only(d) /\ down[d] # <<>>
        /\ down'[d] = Tail(down[d]) /\ up'[d] = up[d]
    BY <1>10, <1>t, GotoEffect, ReceiveEffect DEF PassStart, Only
  <2>2. Replied(d)
    BY <1>t, <2>1 DEF Session, Asking, AtBarrier, Started, Requested, Arrived
  <2>3. up'[d] = <<>> /\ DOMAIN up'[d] = {}
    BY <2>1, <2>2 DEF Replied
  <2>4. ASSUME NEW k \in DOMAIN down'[d]
        PROVE  k + 1 \in DOMAIN down[d] /\ down'[d][k] = down[d][k + 1] /\ k + 1 # 1
    BY <1>t, <2>1, StreamUse, TakeFacts
  <2>5. Launched(d)'
    BY <2>2, <2>3, <2>4 DEF Launched, Replied
  <2>6. Open(d)' = Open(d)
    BY <2>1 DEF Open, BindOpen, StartOpen, Started
  <2>7. QED
    BY <2>1, <2>5, <2>6, <1>k DEF Session, Started, Arrived, AtBarrier
<1>11. CASE \/ RunCall(d) \/ (Answer(d) /\ pc[d] = "waitRunCall") \/ Poll(d) \/ Stop(d)
            \/ Finish(d) \/ Fail(d) \/ Close(d)
  <2>1. /\ pc[d] \in Started /\ pc'[d] \in Started
        /\ \A e \in Domains \ {d} : pc'[e] = pc[e]
    BY <1>11, <1>t, GotoEffect
    DEF RunCall, Answer, Poll, Stop, Finish, Fail, Close, Started
  <2>2. \/ UNCHANGED <<up, down>>
        \/ Receive(d)
        \/ \E m \in Message : Send(d, m) /\ m.type \in {"SYSCALL", "END"}
    <3>1. CASE RunCall(d)
      <4>1. PICK call \in RunCalls[d] : Request(d, call)
        BY <3>1 DEF RunCall
      <4>2. call \in Calls
        BY UseAssumption
      <4>3. calls'[d] \in Nat
        BY <1>t, <4>1, <4>2, RequestType, UseAssumption
      <4>4. PICK status \in Int : Send(d, Syscall(call, calls'[d], status))
        BY <4>1, ArgumentsType DEF Request
      <4>5. /\ Syscall(call, calls'[d], status) \in Message
            /\ Syscall(call, calls'[d], status).type = "SYSCALL"
        BY <4>2, <4>3, MessageTypes DEF Syscall
      <4>6. QED
        BY <4>4, <4>5
    <3>2. CASE Finish(d) \/ Fail(d)
      <4>1. \A status \in Int : End(status) \in Message /\ End(status).type = "END"
        BY MessageTypes DEF End, Status
      <4>2. QED
        BY <3>2, <4>1 DEF Finish, Fail
    <3>3. QED
      BY <1>11, <3>1, <3>2 DEF Answer, Poll, Stop, Close, channelVars
  <2>3. Only(d) /\ Session(d)' /\ d \notin Arrived /\ d \notin Arrived'
    BY <1>t, <2>1, <2>2, ClientRuns
  <2>4. Open(d)' = Open(d)
    BY <2>1 DEF Open, BindOpen, StartOpen, Started
  <2>5. QED
    BY <2>1, <2>3, <2>4, <1>k DEF Started
<1>12. CASE Quit(d)
  BY <1>12 DEF Quit, NoQuit
<1>13. CASE Die(d)
  <2>1. Ended(d)
    BY <1>13 DEF Die, StartInv, HangsUpLast, EndInv, Counted
  <2>2. QED
    BY <1>13, <2>1 DEF Die, Ended, Waiting
<1>14. Answer(d) => pc[d] \in {"waitSetupCall", "waitRunCall"}
  BY DEF Answer, Goto
<1>15. QED
  BY <1>1, <1>2, <1>3, <1>4, <1>5, <1>6, <1>7, <1>8, <1>9, <1>10, <1>11, <1>12,
     <1>13, <1>14
  DEF Progress, Choice, ClientProgress, ClientChoice

-----------------------------------------------------------------------------
(* What the type of the message at the head of its stream says of a domain.*)
LEMMA HeadSays ==
    ASSUME TypeOK, NEW d \in Domains, Session(d), up[d] # <<>>
    PROVE  /\ Head(up[d]).type \in {"DOMAIN_REGISTRY", "TARGET_SOCKET_QUERY", "BARRIER"} =>
                pc[d] \in Asking /\ Head(up[d]).type = Topic(pc[d])
           /\ Head(up[d]).type = "SYSCALL" =>
                pc[d] = "waitSetupCall" \/ pc[d] \in Started
           /\ Head(up[d]).type = "END" => pc[d] \in Started
           /\ Head(up[d]).type = "TARGET_SOCKET_REGISTRY" => pc[d] \notin Started
           /\ pc[d] \in Asking => Requested(d)
           /\ pc[d] \in Asking /\ Head(up[d]).type = Topic(pc[d]) => Len(up[d]) = 1
           /\ pc[d] \in Asking /\ Head(up[d]).type # Topic(pc[d]) => Len(up[d]) # 1
<1>1. /\ Len(up[d]) \in Nat \ {0} /\ 1 \in DOMAIN up[d] /\ Head(up[d]) = up[d][1]
  BY StreamUse, TakeFacts
<1>2. CASE pc[d] \in {"connect", "setup", "binding", "querying"} /\ Quiet(d)
  BY <1>1, <1>2 DEF Quiet, Asking, AtBarrier, Started
<1>3. CASE pc[d] \in Asking /\ Requested(d)
  <2>1. Topic(pc[d]) \in {"DOMAIN_REGISTRY", "SYSCALL", "TARGET_SOCKET_QUERY", "BARRIER"}
    BY DEF Topic
  <2>2. Topic(pc[d]) = "SYSCALL" => pc[d] = "waitSetupCall"
    BY DEF Topic
  <2>3. Head(up[d]).type = IF Len(up[d]) = 1 THEN Topic(pc[d])
                                             ELSE "TARGET_SOCKET_REGISTRY"
    BY <1>1, <1>3 DEF Requested
  <2>4. pc[d] \notin Started
    BY <1>3 DEF Asking, AtBarrier, Started
  <2>5. Head(up[d]).type = Topic(pc[d]) <=> Len(up[d]) = 1
    BY <2>1, <2>3
  <2>6. Head(up[d]).type \in {Topic(pc[d]), "TARGET_SOCKET_REGISTRY"}
    BY <2>3
  <2>7. QED
    BY <1>3, <2>1, <2>2, <2>4, <2>5, <2>6
<1>4. CASE pc[d] \in Started /\ Launched(d)
  BY <1>1, <1>4 DEF Launched, Asking, AtBarrier, Started
<1>5. QED
  BY <1>2, <1>3, <1>4 DEF Session, Arrived, Replied

LEMMA TopicTypes ==
    \A state : state \in Asking =>
        /\ Topic(state) # "TARGET_SOCKET_REGISTRY" /\ Topic(state) # "END"
        /\ Topic(state) = "BARRIER" => state \in AtBarrier
        /\ Topic(state) = "DOMAIN_REGISTRY" => state = "waitModules"
        /\ Topic(state) = "TARGET_SOCKET_QUERY" => state = "waitAddress"
        /\ Topic(state) = "SYSCALL" => state = "waitSetupCall"
  BY DEF Topic, Asking, AtBarrier

(* The controller takes the request of d and answers with its topic.       *)
LEMMA Reply ==
    ASSUME TypeOK, NEW d \in Domains, Session(d), up[d] # <<>>,
           pc[d] \in Asking \ AtBarrier, Head(up[d]).type = Topic(pc[d]),
           NEW m \in Message, m.type = Topic(pc[d]), UNCHANGED pc,
           up' = Received(up, d), down' = Sent(down, d, m)
    PROVE  /\ Only(d) /\ Session(d)' /\ Open(d)' = Open(d)
           /\ d \notin Arrived /\ d \notin Arrived'
<1>1. Requested(d) /\ Len(up[d]) = 1
  BY HeadSays
<1>2. /\ Only(d) /\ up'[d] = Tail(up[d]) /\ down'[d] = Append(down[d], m)
  BY DEF TypeOK, ChannelTypeOK, Received, Sent, Only
<1>3. up'[d] = <<>> /\ down[d] = <<>>
  BY <1>1, <1>2, StreamUse, TakeFacts DEF Requested
<1>4. down'[d] # <<>> /\ Len(down'[d]) = 1 /\ DOMAIN down'[d] = 1 .. 1 /\ down'[d][1] = m
  BY <1>2, <1>3, StreamUse, AddFacts
<1>5. Replied(d)'
  BY <1>3, <1>4 DEF Replied
<1>6. QED
  BY <1>2, <1>3, <1>5 DEF Session, Arrived, Open, BindOpen, StartOpen, Asking, Started,
                          AtBarrier

(* The controller takes and answers what a domain that runs has sent.      *)
LEMMA Attend ==
    ASSUME TypeOK, NEW d \in Domains, Session(d), pc[d] \in Started, UNCHANGED pc,
           up' = up \/ (up[d] # <<>> /\ up' = Received(up, d)),
           down' = down \/ \E m \in Message : /\ m.type \in {"SYSCALL", "END"}
                                              /\ down' = Sent(down, d, m)
    PROVE  /\ Only(d) /\ Session(d)' /\ Open(d)' = Open(d)
           /\ d \notin Arrived /\ d \notin Arrived'
<1>1. Launched(d)
  BY DEF Session, Asking, AtBarrier, Started
<1>2. up[d] \in Seq(Message) /\ down[d] \in Seq(Message)
  BY StreamUse
<1>3. Only(d)
  BY DEF TypeOK, ChannelTypeOK, Received, Sent, Only
<1>4. \A k \in DOMAIN up'[d] : up'[d][k].type \in {"SYSCALL", "END"}
  <2>1. CASE up' = up
    BY <1>1, <2>1 DEF Launched
  <2>2. CASE up[d] # <<>> /\ up' = Received(up, d)
    <3>1. up'[d] = Tail(up[d])
      BY <2>2 DEF TypeOK, ChannelTypeOK, Received
    <3>2. ASSUME NEW k \in DOMAIN up'[d]
          PROVE  k + 1 \in DOMAIN up[d] /\ up'[d][k] = up[d][k + 1]
      BY <1>2, <2>2, <3>1, TakeFacts
    <3>3. QED
      BY <1>1, <3>2 DEF Launched
  <2>3. QED
    BY <2>1, <2>2
<1>5. \A k \in DOMAIN down'[d] : down'[d][k].type \in {"SYSCALL", "END"}
  <2>1. CASE down' = down
    BY <1>1, <2>1 DEF Launched
  <2>2. ASSUME NEW m \in Message, m.type \in {"SYSCALL", "END"}, down' = Sent(down, d, m)
        PROVE  \A k \in DOMAIN down'[d] : down'[d][k].type \in {"SYSCALL", "END"}
    <3>1. down'[d] = Append(down[d], m)
      BY <2>2 DEF TypeOK, ChannelTypeOK, Sent
    <3>2. ASSUME NEW k \in DOMAIN down'[d]
          PROVE  down'[d][k] = m \/ (k \in DOMAIN down[d] /\ down'[d][k] = down[d][k])
      BY <1>2, <3>1, AddFacts
    <3>3. QED
      BY <1>1, <2>2, <3>2 DEF Launched
  <2>3. QED
    BY <2>1, <2>2
<1>6. Launched(d)'
  BY <1>4, <1>5 DEF Launched
<1>7. QED
  BY <1>3, <1>6 DEF Session, Open, BindOpen, StartOpen, Arrived, AtBarrier, Started

(* The controller takes a registration: what comes behind it stays.        *)
LEMMA TakeRegistry ==
    ASSUME TypeOK, NEW d \in Domains, Session(d), up[d] # <<>>,
           Head(up[d]).type = "TARGET_SOCKET_REGISTRY", UNCHANGED <<pc, down>>,
           up' = Received(up, d)
    PROVE  /\ Only(d) /\ Session(d)' /\ Open(d)' = Open(d)
           /\ d \notin Arrived /\ d \notin Arrived'
<1>1. up'[d] = Tail(up[d]) /\ Only(d)
  BY DEF TypeOK, ChannelTypeOK, Received, Only
<1>2. /\ Len(up[d]) \in Nat /\ Len(up'[d]) = Len(up[d]) - 1
      /\ DOMAIN up[d] = 1 .. Len(up[d]) /\ DOMAIN up'[d] = 1 .. (Len(up[d]) - 1)
      /\ \A k \in DOMAIN up'[d] : up'[d][k] = up[d][k + 1]
      /\ up'[d] = <<>> <=> Len(up[d]) = 1
  BY <1>1, StreamUse, TakeFacts
<1>3. Open(d)' = Open(d)
  BY DEF Open, BindOpen, StartOpen
<1>4. CASE Quiet(d) /\ pc[d] \in {"connect", "setup", "binding", "querying"}
  <2>1. ASSUME NEW k \in DOMAIN up'[d]
        PROVE  k + 1 \in DOMAIN up[d] /\ up'[d][k] = up[d][k + 1]
    BY <1>2
  <2>2. Quiet(d)'
    BY <1>4, <2>1 DEF Quiet
  <2>3. QED
    BY <1>1, <1>3, <1>4, <2>2 DEF Session, Arrived, AtBarrier
<1>5. CASE pc[d] \in Asking
  <2>1. Requested(d) /\ Len(up[d]) # 1
    BY <1>5, HeadSays, TopicTypes
  <2>2. up'[d] # <<>> /\ down'[d] = <<>>
    BY <1>2, <2>1 DEF Requested
  <2>3. ASSUME NEW k \in DOMAIN up'[d]
        PROVE  up'[d][k].type = IF k = Len(up'[d]) THEN Topic(pc[d])
                                                   ELSE "TARGET_SOCKET_REGISTRY"
    <3>1. k + 1 \in DOMAIN up[d] /\ up'[d][k] = up[d][k + 1]
          /\ (k + 1 = Len(up[d]) <=> k = Len(up'[d]))
      BY <1>2
    <3>2. QED
      BY <2>1, <3>1 DEF Requested
  <2>4. Requested(d)'
    BY <2>2, <2>3 DEF Requested
  <2>5. QED
    BY <1>1, <1>3, <1>5, <2>2, <2>4 DEF Session, Arrived
<1>6. QED
  BY <1>4, <1>5, HeadSays DEF Session

-----------------------------------------------------------------------------
(* The barrier takes one more domain. If it is not the last, it is counted.*)
LEMMA OneMore ==
    ASSUME StartInv, EndInv', HangsUpLast', UNCHANGED <<pc, down>>, NEW d \in Domains,
           up[d] # <<>>, Head(up[d]).type = "BARRIER", up' = Received(up, d),
           counter' = (IF counter = 0 THEN N ELSE counter) - 1, counter' # 0
    PROVE  StartInv'
<1>t. TypeOK /\ Session(d)
  BY DEF StartInv, EndInv, Sessions
<1>1. pc[d] \in AtBarrier /\ Requested(d) /\ Len(up[d]) = 1
  BY <1>t, HeadSays, TopicTypes
<1>2. /\ up'[d] = Tail(up[d])
      /\ \A e \in Domains \ {d} : up'[e] = up[e]
  BY <1>t DEF TypeOK, ChannelTypeOK, Received
<1>3. up'[d] = <<>>
  BY <1>t, <1>1, <1>2, StreamUse, TakeFacts
<1>4. d \notin Arrived /\ Arrived' = Arrived \cup {d}
  BY <1>1, <1>2, <1>3 DEF Arrived, Requested
<1>5. Sessions'
  <2> SUFFICES ASSUME NEW e \in Domains
               PROVE  Session(e)' /\ (pc'[e] = "waitBind" => BarrierInBind)
    BY DEF Sessions, BarrierInBind
  <2>1. Session(e) /\ (pc'[e] = "waitBind" => BarrierInBind)
    BY DEF StartInv, Sessions
  <2>2. CASE e = d
    BY <1>1, <1>4, <2>1, <2>2 DEF Session, Asking
  <2>3. CASE e # d
    <3>1. pc'[e] = pc[e] /\ up'[e] = up[e] /\ down'[e] = down[e]
      BY <1>2, <2>3
    <3>2. /\ Quiet(e)' <=> Quiet(e)
          /\ Requested(e)' <=> Requested(e)
          /\ Replied(e)' <=> Replied(e)
          /\ Launched(e)' <=> Launched(e)
          /\ e \in Arrived' <=> e \in Arrived
      BY <3>1 DEF Quiet, Requested, Replied, Launched, Arrived
    <3>3. QED
      BY <2>1, <3>1, <3>2 DEF Session
  <2>4. QED
    BY <2>2, <2>3
<1>6. SameRound'
  BY DEF StartInv, SameRound, Open, BindOpen, StartOpen
<1>7. BarrierCount'
  <2> DEFINE n == Cardinality(Arrived)
  <2>1. /\ n \in 0 .. N /\ n # N /\ (n = 0 <=> Arrived = {}) /\ N \in Nat \ {0}
        /\ Cardinality(Arrived') = n + 1
        /\ Arrived' # {}
    <3>1. Arrived \in SUBSET Domains /\ Arrived # Domains
      BY DEF Arrived, StartInv, BarrierCount
    <3>2. QED
      BY <1>4, <3>1, DomainsFinite
  <2>2. counter = IF Arrived = {} THEN 0 ELSE N - n
    BY DEF StartInv, BarrierCount
  <2>3. counter' = N - (n + 1)
    BY <2>1, <2>2
  <2>4. n + 1 # N
    <3>1. N - (n + 1) # 0
      BY <2>3
    <3> HIDE DEF n
    <3>2. QED
      BY <2>1, <3>1
  <2>5. Arrived' # Domains
    BY <2>1, <2>4, DomainsFinite
  <2>6. QED
    BY <2>1, <2>3, <2>5 DEF BarrierCount
<1>8. QED
  BY <1>5, <1>6, <1>7 DEF StartInv

(* The last domain opens the barrier to all of them, which are all there.  *)
LEMMA LastOne ==
    ASSUME StartInv, UNCHANGED pc, NEW d \in Domains,
           up[d] # <<>>, Head(up[d]).type = "BARRIER", up' = Received(up, d),
           counter' = (IF counter = 0 THEN N ELSE counter) - 1, counter' = 0,
           down' = Released(d)
    PROVE  \A e \in Domains :
             /\ pc[e] \in AtBarrier /\ pc[e] = pc[d]
             /\ down[e] = <<>> /\ up'[e] = <<>> /\ down'[e] # <<>>
             /\ Replied(e)'
<1>t. TypeOK /\ Session(d)
  BY DEF StartInv, EndInv, Sessions
<1>1. pc[d] \in AtBarrier /\ Requested(d) /\ Len(up[d]) = 1
  BY <1>t, HeadSays, TopicTypes
<1>2. /\ up'[d] = Tail(up[d])
      /\ \A e \in Domains \ {d} : up'[e] = up[e]
  BY <1>t DEF TypeOK, ChannelTypeOK, Received
<1>3. up'[d] = <<>> /\ down[d] = <<>>
  BY <1>t, <1>1, <1>2, StreamUse, TakeFacts DEF Requested
<1>4. d \notin Arrived
  BY <1>1 DEF Arrived, Requested
<1>5. Arrived \cup {d} = Domains
  <2> DEFINE n == Cardinality(Arrived)
  <2>1. Arrived \in SUBSET Domains /\ Arrived # Domains
    BY DEF Arrived, StartInv, BarrierCount
  <2>2. /\ n \in 0 .. N /\ (n = 0 <=> Arrived = {}) /\ N \in Nat \ {0} /\ n # N
        /\ Cardinality(Arrived \cup {d}) = n + 1
    BY <1>4, <2>1, DomainsFinite
  <2>3. counter = IF Arrived = {} THEN 0 ELSE N - n
    BY DEF StartInv, BarrierCount
  <2>4. n + 1 = N
    BY <2>2, <2>3
  <2>5. Arrived \cup {d} \in SUBSET Domains
    BY <2>1
  <2>6. QED
    BY <2>2, <2>4, <2>5, DomainsFinite
<1>6. ASSUME NEW e \in Domains
      PROVE  /\ pc[e] \in AtBarrier /\ down[e] = <<>> /\ up'[e] = <<>>
             /\ pc[e] = pc[d]
  <2>1. pc[e] \in AtBarrier /\ down[e] = <<>> /\ up'[e] = <<>>
    BY <1>1, <1>2, <1>3, <1>5 DEF Arrived
  <2>2. \A x \in Domains : pc[x] = "waitBind" => BarrierInBind
    BY DEF StartInv, Sessions
  <2>3. BindOpen(e) <=> BindOpen(d)
    <3>1. Open(e) = Open(d)
      BY DEF StartInv, SameRound
    <3>2. QED
      BY <3>1 DEF Open
  <2>4. QED
    BY <1>1, <1>3, <2>1, <2>2, <2>3 DEF BindOpen, AtBarrier, Started
<1>7. ASSUME NEW e \in Domains
      PROVE  down'[e] # <<>> /\ Replied(e)'
  <2>1. down'[e] = Append(<<>>, Barrier)
    BY <1>6 DEF Released
  <2>2. Topic(pc[e]) = "BARRIER" /\ Barrier.type = "BARRIER"
    BY <1>6 DEF Topic, AtBarrier, Barrier
  <2>3. down'[e] = <<Barrier>>
    BY <2>1
  <2>4. down'[e] # <<>> /\ Len(down'[e]) = 1 /\ DOMAIN down'[e] = 1 .. 1 /\ down'[e][1] = Barrier
    BY <2>3
  <2>5. QED
    BY <1>6, <2>2, <2>4 DEF Replied
<1>8. QED
  BY <1>6, <1>7

LEMMA OpenBarrier ==
    ASSUME StartInv, EndInv', HangsUpLast', UNCHANGED pc, NEW d \in Domains,
           up[d] # <<>>, Head(up[d]).type = "BARRIER", up' = Received(up, d),
           counter' = (IF counter = 0 THEN N ELSE counter) - 1, counter' = 0,
           down' = Released(d)
    PROVE  StartInv'
<1>1. \A e \in Domains :
         /\ pc[e] \in AtBarrier /\ pc[e] = pc[d] /\ down'[e] # <<>>
         /\ Replied(e)'
  BY LastOne
<1>2. Sessions'
  <2> SUFFICES ASSUME NEW e \in Domains
               PROVE  Session(e)' /\ (pc'[e] = "waitBind" => BarrierInBind)
    BY DEF Sessions, BarrierInBind
  <2>1. pc'[e] = "waitBind" => BarrierInBind
    BY DEF StartInv, Sessions
  <2>2. Session(e)'
    BY <1>1 DEF Session, Asking
  <2>3. QED
    BY <2>1, <2>2
<1>3. \A e \in Domains : down'[e] # <<>>
  BY <1>1
<1>4. Arrived' = {}
  BY <1>3 DEF Arrived
<1>5. SameRound'
  BY <1>1, <1>3 DEF SameRound, Open, BindOpen, StartOpen
<1>6. BarrierCount'
  BY <1>4 DEF BarrierCount
<1>7. QED
  BY <1>2, <1>5, <1>6 DEF StartInv
-----------------------------------------------------------------------------
(* After the first END every domain has started or been told to start.     *)
LEMMA AfterEnd ==
    ASSUME StartInv, ending # 0 \/ \E e \in Domains : Ended(e), NEW d \in Domains
    PROVE  StartOpen(d)
<1>1. PICK e \in Domains : Ended(e)
  BY DEF StartInv, EndInv, EndingCount, Counted
<1>2. StartOpen(e)
  BY <1>1 DEF StartOpen, Started, Ended
<1>3. QED
  BY <1>2 DEF StartInv, SameRound, Open

LEMMA NotifyStart ==
    ASSUME StartInv, EndInv', NotifyEnd, UNCHANGED pc
    PROVE  StartInv'
<1>c. PICK c \in Domains : c = cursor
  BY DEF StartInv, EndInv, TypeOK, ControllerTypeOK
<1>t. TypeOK /\ Session(c) /\ (pc[c] = "waitBind" => BarrierInBind)
  BY DEF StartInv, EndInv, Sessions
<1>h. HangsUpLast' /\ counter' = counter
  BY DEF NotifyEnd, StartInv, HangsUpLast
<1>1. up[c] = <<>> /\ up' = up /\ ending # 0 /\ down' = Sent(down, c, End(ending_status))
  BY <1>c DEF NotifyEnd
<1>2. End(ending_status) \in Message /\ End(ending_status).type = "END"
  BY <1>t, MessageTypes DEF TypeOK, ControllerTypeOK, End
<1>3. StartOpen(c)
  BY <1>t, <1>1, AfterEnd
<1>4. CASE pc[c] \in Started
  <2>1. /\ Only(c) /\ Session(c)' /\ Open(c)' = Open(c)
        /\ c \notin Arrived /\ c \notin Arrived'
    BY <1>t, <1>1, <1>2, <1>4, Attend
  <2>2. QED
    BY <1>t, <1>h, <2>1, LocalStep
<1>5. CASE pc[c] = "waitStart" /\ down[c] # <<>>
  <2>1. /\ Only(c) /\ up'[c] = <<>> /\ down'[c] = Append(down[c], End(ending_status))
    BY <1>t, <1>1 DEF TypeOK, ChannelTypeOK, Sent, Only
  <2>2. /\ Replied(c)
    BY <1>t, <1>5 DEF Session, Requested, Arrived, Started
  <2>3. /\ down'[c] # <<>>
        /\ \A k \in DOMAIN down'[c] :
             \/ k # 1 /\ down'[c][k] = End(ending_status)
             \/ k \in DOMAIN down[c] /\ down'[c][k] = down[c][k]
    <3>1. down[c] \in Seq(Message) /\ Len(down[c]) \in Nat \ {0}
      BY <1>t, <1>5, StreamUse, TakeFacts
    <3>2. QED
      BY <1>2, <2>1, <3>1, AddFacts
  <2>4. Replied(c)'
    BY <1>2, <1>5, <2>1, <2>2, <2>3 DEF Replied
  <2>5. Session(c)' /\ Open(c)' = Open(c) /\ c \notin Arrived /\ c \notin Arrived'
    BY <1>5, <2>3, <2>4
    DEF Session, Asking, AtBarrier, Open, BindOpen, StartOpen, Arrived
  <2>6. QED
    BY <1>t, <1>h, <2>1, <2>5, LocalStep
<1>6. QED
  BY <1>3, <1>4, <1>5 DEF StartOpen

LEMMA ControllerStart ==
    ASSUME StartInv, NoExit, EndInv', Controller
    PROVE  StartInv'
<1>p. UNCHANGED pc
  BY DEF Controller, clientVars
<1>t. TypeOK
  BY DEF StartInv, EndInv
<1>c. PICK c \in Domains : c = cursor
  BY <1>t DEF TypeOK, ControllerTypeOK
<1>s. \A d \in Domains : Session(d) /\ (pc[d] = "waitBind" => BarrierInBind)
  BY DEF StartInv, Sessions
<1>h. HangsUpLast'
  <2>1. CASE Hangup
    BY <2>1 DEF Hangup, HangsUpLast, controllerVars
  <2>2. CASE ControllerServe \/ \E d \in Domains : Accept(d)
    <3>1. phase # "returned" /\ linked' = linked
      BY <2>2 DEF Accept, ControllerServe, NotifyEnd, Skip, ServeEnd, ServeRegistry,
                  ServeQuery, ServeBarrier, ServeFile, ServeSbrk, ServeExit, Serving,
                  Turn, channelVars
    <3>2. QED
      BY <3>1 DEF StartInv, HangsUpLast
  <2>3. QED
    BY <2>1, <2>2 DEF Controller
<1>k. ASSUME NEW d \in Domains, Only(d), Session(d)', Open(d)' = Open(d),
             d \notin Arrived, d \notin Arrived', counter' = counter
      PROVE  StartInv'
  BY <1>p, <1>h, <1>s, <1>k, LocalStep
<1>1. ASSUME NEW d \in Domains, Accept(d)
      PROVE  StartInv'
  <2>1. pc[d] = "waitModules" /\ Topic(pc[d]) = "DOMAIN_REGISTRY"
    BY <1>1, <1>t, <1>s, HeadSays, TopicTypes DEF Accept
  <2>2. DomainRegistry \in Message /\ DomainRegistry.type = "DOMAIN_REGISTRY"
    BY MessageTypes DEF DomainRegistry
  <2>3. /\ Only(d) /\ Session(d)' /\ Open(d)' = Open(d)
        /\ d \notin Arrived /\ d \notin Arrived'
    BY <1>1, <1>p, <1>t, <1>s, <2>1, <2>2, Reply DEF Accept, Asking, AtBarrier
  <2>4. QED
    BY <1>1, <1>k, <2>3 DEF Accept
<1>2. CASE NotifyEnd
  BY <1>2, <1>p, NotifyStart
<1>3. CASE Skip \/ Hangup
  <2>1. up' = up /\ down' = down /\ counter' = counter
    BY <1>3 DEF Skip, Hangup, channelVars, controllerVars
  <2>2. Sessions' /\ SameRound' /\ BarrierCount'
    BY <2>1, <1>p
    DEF StartInv, Sessions, Session, Quiet, Requested, Arrived, Replied, Launched,
        SameRound, Open, BindOpen, StartOpen, BarrierCount, BarrierInBind
  <2>3. QED
    BY <1>h, <2>2 DEF StartInv
<1>4. CASE ServeEnd
  <2>1. /\ pc[c] \in Started /\ up[c] # <<>> /\ up' = Received(up, c)
        /\ down' = down /\ counter' = counter
    BY <1>4, <1>c, <1>t, <1>s, HeadSays DEF ServeEnd, Serving
  <2>2. QED
    BY <1>k, <1>p, <1>t, <1>s, <2>1, Attend
<1>5. CASE ServeRegistry
  <2>1. /\ up[c] # <<>> /\ Head(up[c]).type = "TARGET_SOCKET_REGISTRY"
        /\ up' = Received(up, c) /\ down' = down /\ counter' = counter
    BY <1>5, <1>c DEF ServeRegistry, Serving
  <2>2. QED
    BY <1>k, <1>p, <1>t, <1>s, <2>1, TakeRegistry
<1>6. CASE ServeQuery
  <2> DEFINE m == Query(Head(up[c]).socketname, targets[Head(up[c]).socketname])
  <2>1. /\ up[c] # <<>> /\ Head(up[c]).type = "TARGET_SOCKET_QUERY"
        /\ up' = Received(up, c) /\ down' = Sent(down, c, m) /\ counter' = counter
    BY <1>6, <1>c DEF ServeQuery, Serving
  <2>2. m \in Message /\ m.type = "TARGET_SOCKET_QUERY"
    <3>1. Head(up[c]).socketname \in Socket
      BY <1>t, <2>1, StreamUse, ReceivedType, MessageFields
    <3>2. targets[Head(up[c]).socketname] \in Address
      BY <1>t, <3>1 DEF TypeOK, ControllerTypeOK
    <3>3. QED
      BY <3>1, <3>2, MessageTypes DEF Query
  <2>3. pc[c] = "waitAddress" /\ Topic(pc[c]) = "TARGET_SOCKET_QUERY"
    BY <1>t, <1>s, <2>1, HeadSays, TopicTypes
  <2> HIDE DEF m
  <2>4. QED
    BY <1>k, <1>p, <1>t, <1>s, <2>1, <2>2, <2>3, Reply DEF Asking, AtBarrier
<1>7. CASE ServeBarrier
  <2>1. /\ up[c] # <<>> /\ Head(up[c]).type = "BARRIER" /\ up' = Received(up, c)
        /\ counter' = (IF counter = 0 THEN N ELSE counter) - 1
        /\ counter' # 0 => down' = down
        /\ counter' = 0 => down' = Released(c)
    BY <1>7, <1>c DEF ServeBarrier, Serving, Arrivals
  <2>2. QED
    BY <1>h, <1>p, <1>t, <2>1, OneMore, OpenBarrier
<1>8. CASE ServeFile \/ ServeSbrk
  <2>1. up[c] # <<>> /\ Head(up[c]).type = "SYSCALL" /\ up' = Received(up, c)
        /\ counter' = counter
    BY <1>8, <1>c DEF ServeFile, ServeSbrk, Serving
  <2>2. PICK m \in Message : m.type = "SYSCALL" /\ down' = Sent(down, c, m)
    <3>1. Head(up[c]) \in Message
      BY <1>t, <2>1, StreamUse, TakeFacts
    <3>2. [Head(up[c]) EXCEPT !.value = heap_sbrk] \in Message
      BY <1>t, <2>1, <3>1, MessageFields DEF TypeOK, ControllerTypeOK
    <3>3. [Head(up[c]) EXCEPT !.value = heap_sbrk].type = "SYSCALL"
      BY <2>1, <3>1 DEF Message
    <3>4. QED
      BY <1>8, <1>c, <2>1, <3>1, <3>2, <3>3 DEF ServeFile, ServeSbrk
  <2>3. CASE pc[c] = "waitSetupCall"
    <3>1. Topic(pc[c]) = "SYSCALL"
      BY <2>3 DEF Topic
    <3>2. QED
      BY <1>k, <1>p, <1>t, <1>s, <2>1, <2>2, <2>3, <3>1, Reply DEF Asking, AtBarrier
  <2>4. CASE pc[c] \in Started
    BY <1>k, <1>p, <1>t, <1>s, <2>1, <2>2, <2>4, Attend
  <2>5. QED
    BY <1>t, <1>s, <2>1, <2>3, <2>4, HeadSays
<1>9. CASE ServeExit
  <2>1. /\ up[c] # <<>> /\ Head(up[c]).type = "SYSCALL" /\ Head(up[c]).call = "EXIT"
    BY <1>9, <1>c DEF ServeExit, Serving
  <2>2. 1 \in DOMAIN up[c] /\ Head(up[c]) = up[c][1]
    BY <1>t, <2>1, StreamUse, TakeFacts
  <2>3. QED
    BY <1>t, <2>1, <2>2 DEF StartInv, EndInv, StreamInv, ExitFree
<1>10. QED
  BY <1>1, <1>2, <1>3, <1>4, <1>5, <1>6, <1>7, <1>8, <1>9 DEF Controller, ControllerServe

LEMMA StartInitially == Init => StartInv
<1> SUFFICES ASSUME Init PROVE StartInv
  OBVIOUS
<1>1. EndInv
  BY EndInitially
<1>2. \A d \in Domains : pc[d] = "connect" /\ up[d] = <<>> /\ DOMAIN up[d] = {}
                         /\ down[d] = <<>>
  BY DEF Init, ChannelInit, ClientInit
<1>3. Sessions
  BY <1>2 DEF Sessions, Session, Quiet
<1>4. SameRound
  BY <1>2 DEF SameRound, Open, BindOpen, StartOpen, Started
<1>5. Arrived = {} /\ Domains # {}
  BY <1>2, NAssumption DEF Arrived, AtBarrier, Domains
<1>6. QED
  BY <1>1, <1>3, <1>4, <1>5
  DEF StartInv, HangsUpLast, BarrierCount, Init, ChannelInit, ControllerInit

LEMMA StartStep ==
    ASSUME NoExit, NoQuit, StartInv, [Next]_vars
    PROVE  StartInv'
<1>1. EndInv'
  BY EndStep DEF StartInv
<1>2. CASE Controller
  BY <1>1, <1>2, ControllerStart
<1>3. ASSUME NEW d \in Domains, Progress(d) \/ Choice(d)
      PROVE  StartInv'
  BY <1>1, <1>3, ClientStart
<1>4. CASE UNCHANGED vars
  BY <1>1, <1>4
  DEF vars, channelVars, controllerVars, clientVars, StartInv, HangsUpLast, Sessions,
      Session, Quiet, Requested, Arrived, Replied, Launched, SameRound, Open, BindOpen,
      StartOpen, BarrierCount, BarrierInBind
<1>5. QED
  BY <1>2, <1>3, <1>4 DEF Next, Done

(* If every domain starts and none calls EXIT, the conversation of each    *)
(* domain with the controller stays in step, the barriers open to all the  *)
(* domains at once and their counter counts those still to come.           *)
THEOREM StartInvariant == ASSUME NoExit, NoQuit PROVE Spec => []StartInv
<1>1. StartInv /\ [Next]_vars => StartInv'
  BY StartStep
<1>2. QED
  BY <1>1, StartInitially, PTL DEF Spec

(* If every domain starts and none calls EXIT, no simulation runs before   *)
(* all the domains have bound their sockets and are at the start barrier.  *)
THEOREM StartTogetherCorrect == ASSUME NoExit, NoQuit PROVE Spec => []StartTogether
<1>1. StartInv => StartTogether
  <2> SUFFICES ASSUME StartInv, NEW d \in Domains, Running(d), NEW e \in Domains
               PROVE  Ready(e)
    BY DEF StartTogether
  <2>1. StartOpen(d)
    BY DEF StartOpen, Running, Started
  <2>2. StartOpen(e)
    BY <2>1 DEF StartInv, SameRound, Open
  <2>3. QED
    BY <2>2 DEF StartOpen, Ready, Started
<1>2. QED
  BY <1>1, StartInvariant, PTL
=============================================================================
