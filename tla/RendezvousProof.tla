--------------------------- MODULE RendezvousProof ---------------------------
(***************************************************************************)
(* Proofs about Rendezvous for any servers, dialers, names and bounds.     *)
(***************************************************************************)
EXTENDS Rendezvous, Functions, FiniteSetTheorems, SequenceTheorems, TLAPS

(* The actions, by what they can change.                                   *)
Searches(s) == Bind(s) \/ Listen(s)
Publishes(s) == PublishInit(s) \/ ClientCallback(s) \/ EntryRefused(s) \/ Announce(s)
Disturbs == Rename \/ Renamed \/ DaemonFail
Accepts(s) == ControllerAccept(s) \/ ReadRegistry(s) \/ RemoteAccept(s)
DialerStep(c) == DialerProgress(c) \/ ResolverFailure(c)

LEMMA StepCases ==
    ASSUME [Next]_vars
    PROVE  \/ \E s \in Server : Searches(s) \/ Publishes(s) \/ Accepts(s) \/ Leave(s)
           \/ Disturbs
           \/ \E c \in Dialer : DialerStep(c)
           \/ UNCHANGED vars
  BY DEF Next, Progress, DaemonChoice, DaemonProgress, ServerProgress,
         Searches, Publishes, Disturbs, Accepts, DialerStep

-----------------------------------------------------------------------------
(* Type correctness. That failed connects stay within Tries rests on the   *)
(* step of the dialer: one that still dials has tries left.                *)
Searching == {"browse", "resolve", "deaf"}

TriesLeft ==
    \A c \in Dialer : /\ step[c] \in Searching => failed[c] = 0
                      /\ step[c] = "dial" => failed[c] < Tries

USE DEF vars, serverVars, publishVars, daemonVars, dialVars, At

LEMMA SearchType == ASSUME TypeOK, NEW s \in Server, Searches(s) PROVE TypeOK'
<1>0. /\ stage' \in [Server -> Stages]
      /\ port' \in [Server -> Nat \ {0}]
  <2>1. port[s] + 1 \in Nat \ {0} BY DEF TypeOK
  <2>2. CASE Bind(s) BY <2>1, <2>2 DEF TypeOK, Bind, Stages
  <2>3. CASE Listen(s) BY <2>1, <2>3 DEF TypeOK, Listen, Stages
  <2>4. QED BY <2>2, <2>3 DEF Searches
<1>1. CASE Bind(s) BY <1>0, <1>1 DEF TypeOK, Bind
<1>2. CASE Listen(s) BY <1>0, <1>2 DEF TypeOK, Listen
<1>3. QED BY <1>1, <1>2 DEF Searches

LEMMA TailType ==
    ASSUME NEW S, NEW seq \in Seq(S), seq # <<>>
    PROVE  Head(seq) \in S /\ Tail(seq) \in Seq(S)
  BY HeadTailProperties

LEMMA PublishType == ASSUME TypeOK, NEW s \in Server, Publishes(s) PROVE TypeOK'
<1>0. (Created(s) \/ Rejected(s) \/ CreateServices(s)) /\ TypeOK =>
        /\ group' \in [Server -> {"none", "empty", "committed", "established"}]
        /\ poll' \in [Server -> {"none", "polling", "quit", "stopped"}]
  BY DEF TypeOK, Created, Rejected, CreateServices
<1>1. CASE PublishInit(s) BY <1>0, <1>1 DEF TypeOK, PublishInit, Stages
<1>2. CASE ClientCallback(s)
  <2>1. events' \in [Server -> Seq({"running", "registering", "failure"})]
    BY <1>2, TailType DEF TypeOK, ClientCallback
  <2>2. QED BY <1>0, <1>2, <2>1 DEF TypeOK, ClientCallback, Reset, Withdrawn
<1>3. CASE EntryRefused(s) BY <1>0, <1>3 DEF TypeOK, EntryRefused
<1>4. CASE Announce(s) BY <1>4 DEF TypeOK, Announce
<1>5. QED BY <1>1, <1>2, <1>3, <1>4 DEF Publishes

LEMMA DisturbType == ASSUME TypeOK, Disturbs PROVE TypeOK'
<1>0. \A state \in {"running", "registering", "failure"} :
        Told(state) \in [Server -> Seq({"running", "registering", "failure"})]
  BY DEF TypeOK, Told
<1>1. CASE Rename BY <1>0, <1>1, KindAssumption DEF TypeOK, Rename
<1>2. CASE Renamed BY <1>0, <1>2 DEF TypeOK, Renamed
<1>3. CASE DaemonFail BY <1>0, <1>3, KindAssumption DEF TypeOK, DaemonFail, Withdrawn
<1>4. QED BY <1>1, <1>2, <1>3 DEF Disturbs

LEMMA AcceptType == ASSUME TypeOK, NEW s \in Server, Accepts(s) PROVE TypeOK'
<1>1. CASE ControllerAccept(s)
  <2>1. backlog' \in [Server -> Seq(Dialer)] /\ Head(backlog[s]) \in Dialer
    BY <1>1, TailType DEF TypeOK, ControllerAccept
  <2>2. QED BY <1>1, <2>1 DEF TypeOK, ControllerAccept
<1>2. CASE ReadRegistry(s)
  <2>1. Slot(s) \in AllSlots /\ reading[s] \in Dialer
    BY <1>2 DEF TypeOK, ReadRegistry, Slot, AllSlots
  <2>2. QED BY <1>2, <2>1 DEF TypeOK, ReadRegistry
<1>3. CASE RemoteAccept(s)
  <2>1. backlog' \in [Server -> Seq(Dialer)] /\ Head(backlog[s]) \in Dialer
    BY <1>3, TailType DEF TypeOK, RemoteAccept
  <2>2. 1 \in AllSlots BY DEF AllSlots
  <2>3. QED BY <1>3, <2>1, <2>2 DEF TypeOK, RemoteAccept
<1>4. QED BY <1>1, <1>2, <1>3 DEF Accepts

LEMMA LeaveType == ASSUME TypeOK, NEW s \in Server, Leave(s) PROVE TypeOK'
<1>1. CASE StopPoll(s) BY <1>1 DEF TypeOK, StopPoll, Stages
<1>2. CASE FreeClient(s) BY <1>2 DEF TypeOK, FreeClient, Withdrawn, Stages
<1>3. CASE CloseSocket(s) BY <1>3 DEF TypeOK, CloseSocket, Stages
<1>4. QED BY <1>1, <1>2, <1>3 DEF Leave

LEMMA DialType ==
    ASSUME TypeOK, TriesLeft, NEW c \in Dialer, DialerStep(c)
    PROVE  TypeOK'
<1>1. CASE BrowserNew(c) BY <1>1 DEF TypeOK, BrowserNew
<1>2. CASE ResolverFound(c) BY <1>2 DEF TypeOK, ResolverFound
<1>3. CASE ResolverFailure(c) BY <1>3 DEF TypeOK, ResolverFailure
<1>4. CASE DiscoverFail(c) BY <1>4 DEF TypeOK, DiscoverFail
<1>5. CASE Dial(c) BY <1>5 DEF TypeOK, Dial
<1>6. CASE DialFail(c)
  <2>1. failed[c] + 1 \in 0 .. Tries
    BY <1>6, KindAssumption DEF TypeOK, TriesLeft, DialFail
  <2>2. QED BY <1>6, <2>1 DEF TypeOK, DialFail
<1>7. CASE SendRegistry(c) BY <1>7 DEF TypeOK, SendRegistry
<1>8. QED BY <1>1, <1>2, <1>3, <1>4, <1>5, <1>6, <1>7 DEF DialerStep, DialerProgress, Discover

LEMMA TriesStep == ASSUME TypeOK, TriesLeft, [Next]_vars PROVE TriesLeft'
<1>1. CASE \E c \in Dialer : DialerStep(c)
  <2>1. PICK c \in Dialer : DialerStep(c) BY <1>1
  <2>2. CASE BrowserNew(c) BY <2>2 DEF TypeOK, TriesLeft, Searching, BrowserNew
  <2>3. CASE ResolverFound(c)
    BY <2>3, KindAssumption DEF TypeOK, TriesLeft, Searching, ResolverFound
  <2>4. CASE ResolverFailure(c) BY <2>4 DEF TypeOK, TriesLeft, Searching, ResolverFailure
  <2>5. CASE DiscoverFail(c) BY <2>5 DEF TypeOK, TriesLeft, Searching, DiscoverFail
  <2>6. CASE Dial(c) BY <2>6 DEF TypeOK, TriesLeft, Searching, Dial
  <2>7. CASE DialFail(c)
    <3>1. \A x \in Dialer \ {c} : step'[x] = step[x] /\ failed'[x] = failed[x]
      BY <2>7 DEF TypeOK, DialFail
    <3>2. step[c] = "dial" /\ failed[c] \in Nat /\ failed[c] < Tries /\ Tries \in Nat
      BY <2>7, KindAssumption DEF TypeOK, TriesLeft, DialFail
    <3>3. failed'[c] = failed[c] + 1 BY <2>7 DEF TypeOK, DialFail
    <3>4. CASE GivesUp(c)
      <4>1. step'[c] = "lost" BY <2>7, <3>4 DEF TypeOK, DialFail
      <4>2. QED BY <3>1, <4>1 DEF TriesLeft, Searching
    <3>5. CASE ~ GivesUp(c)
      <4>1. step'[c] = "dial" BY <2>7, <3>2, <3>5 DEF DialFail
      <4>2. failed'[c] < Tries BY <3>2, <3>3, <3>5 DEF GivesUp
      <4>3. QED BY <3>1, <4>1, <4>2 DEF TriesLeft, Searching
    <3>6. QED BY <3>4, <3>5
  <2>8. CASE SendRegistry(c) BY <2>8 DEF TypeOK, TriesLeft, Searching, SendRegistry
  <2>9. QED BY <2>1, <2>2, <2>3, <2>4, <2>5, <2>6, <2>7, <2>8 DEF DialerStep, DialerProgress, Discover
<1>2. CASE UNCHANGED <<step, failed>> BY <1>2 DEF TriesLeft
<1>3. CASE UNCHANGED failed /\ \E R \in SUBSET Server : Withdrawn(R)
  BY <1>3 DEF TypeOK, TriesLeft, Searching, Withdrawn
<1>4. ASSUME NEW s \in Server, Searches(s) \/ Publishes(s) \/ Accepts(s) \/ Leave(s)
      PROVE  TriesLeft'
  <2>1. CASE ClientCallback(s) \/ FreeClient(s)
    <3>1. UNCHANGED failed /\ (UNCHANGED step \/ Withdrawn({s}))
      BY <2>1 DEF ClientCallback, Reset, FreeClient
    <3>2. {s} \in SUBSET Server OBVIOUS
    <3>3. QED BY <1>2, <1>3, <3>1, <3>2
  <2>2. CASE Searches(s) \/ Accepts(s)
    BY <2>2, <1>2 DEF Searches, Bind, Listen, Accepts, ControllerAccept, ReadRegistry,
       RemoteAccept
  <2>3. CASE PublishInit(s) \/ EntryRefused(s) \/ Announce(s)
    BY <2>3, <1>2 DEF PublishInit, EntryRefused, Announce
  <2>4. CASE StopPoll(s) \/ CloseSocket(s)
    BY <2>4, <1>2 DEF StopPoll, CloseSocket
  <2>5. QED BY <1>4, <2>1, <2>2, <2>3, <2>4 DEF Publishes, Leave
<1>5. CASE Disturbs BY <1>5, <1>2, <1>3 DEF Disturbs, Rename, Renamed, DaemonFail
<1>6. CASE UNCHANGED vars BY <1>6, <1>2
<1>7. QED BY <1>1, <1>4, <1>5, <1>6, StepCases

LEMMA InitType == Init => TypeOK
  BY KindAssumption DEF Init, TypeOK, Stages, AllSlots

(* The state of every server, of its publishing thread, of the daemon and  *)
(* of every dialer is one the code can be in.                              *)
THEOREM RendezvousTypeCorrect == Spec => []TypeOK
<1>1. Init => TriesLeft
  BY KindAssumption DEF Init, TriesLeft
<1>2. TypeOK /\ TriesLeft /\ [Next]_vars => TypeOK' /\ TriesLeft'
  <2>1. CASE UNCHANGED vars BY <2>1 DEF TypeOK, TriesLeft
  <2>2. QED BY <2>1, StepCases, SearchType, PublishType, DisturbType, AcceptType,
               LeaveType, DialType, TriesStep
<1>3. QED BY InitType, <1>1, <1>2, PTL DEF Spec

-----------------------------------------------------------------------------
(* Ports. Two servers never listen on one; a port that a server has passed *)
(* belongs to another server that is through with its search.              *)
Through(s) == stage[s] \notin {"search", "bound"}

OnePort ==
    \A s, r \in Server : s # r /\ Listening(s) /\ Listening(r) => port[s] # port[r]

Passed ==
    \A s \in Server : \A p \in 1 .. (port[s] - 1) :
        \E r \in Server \ {s} : Through(r) /\ port[r] = p

(* But for the search, a step leaves the ports alone; a server that is     *)
(* through stays so, and none starts to listen.                            *)
Settled ==
    /\ UNCHANGED port
    /\ \A s \in Server : /\ stage'[s] = "left" \/ stage[s] # "left"
                         /\ Through(s) <=> Through(s)'
                         /\ Listening(s)' => Listening(s)

LEMMA StageStep ==
    ASSUME TypeOK, [Next]_vars
    PROVE  Settled \/ \E s \in Server : Searches(s)
<1>1. ASSUME stage' = stage, port' = port PROVE Settled
  BY <1>1 DEF Settled, Through, Listening
<1>2. ASSUME NEW s \in Server, UNCHANGED port,
             \/ At(s, "listening", "open")
             \/ At(s, "open", "stopped")
             \/ At(s, "stopped", "freed")
             \/ At(s, "freed", "left")
      PROVE  Settled
  BY <1>2 DEF TypeOK, Settled, Through, Listening
<1>3. ASSUME NEW s \in Server, Publishes(s) \/ Accepts(s) \/ Leave(s)
      PROVE  Settled
  <2>1. CASE PublishInit(s) BY <2>1, <1>2 DEF PublishInit
  <2>2. CASE ClientCallback(s) \/ EntryRefused(s) \/ Announce(s)
    BY <2>2, <1>1 DEF ClientCallback, EntryRefused, Announce
  <2>3. CASE Accepts(s)
    BY <2>3, <1>1 DEF Accepts, ControllerAccept, ReadRegistry, RemoteAccept
  <2>4. CASE Leave(s)
    BY <2>4, <1>2 DEF Leave, StopPoll, FreeClient, CloseSocket
  <2>5. QED BY <1>3, <2>1, <2>2, <2>3, <2>4 DEF Publishes
<1>4. CASE Disturbs BY <1>4, <1>1 DEF Disturbs, Rename, Renamed, DaemonFail
<1>5. CASE \E c \in Dialer : DialerStep(c)
  BY <1>5, <1>1 DEF DialerStep, DialerProgress, Discover, BrowserNew, ResolverFound,
     ResolverFailure,
     DiscoverFail, Dial, DialFail, SendRegistry
<1>6. QED BY <1>1, <1>3, <1>4, <1>5, StepCases

LEMMA OnePortStep == ASSUME TypeOK, OnePort, [Next]_vars PROVE OnePort'
<1>1. CASE Settled BY <1>1 DEF OnePort, Settled
<1>2. ASSUME NEW s \in Server, Bind(s) PROVE OnePort'
  <2>1. \A r \in Server \ {s} : stage'[r] = stage[r] /\ port'[r] = port[r]
    BY <1>2 DEF TypeOK, Bind
  <2>2. ~ Listening(s)' BY <1>2 DEF TypeOK, Bind, Listening
  <2>3. QED BY <2>1, <2>2 DEF OnePort, Listening
<1>3. ASSUME NEW s \in Server, Listen(s) PROVE OnePort'
  <2>1. \A r \in Server \ {s} : stage'[r] = stage[r] /\ port'[r] = port[r]
    BY <1>3 DEF TypeOK, Listen
  <2>2. CASE Taken(s)
    <3>1. ~ Listening(s)' BY <1>3, <2>2 DEF TypeOK, Listen, Listening
    <3>2. QED BY <2>1, <3>1 DEF OnePort, Listening
  <2>3. CASE ~ Taken(s)
    <3>1. port'[s] = port[s] BY <1>3, <2>3 DEF TypeOK, Listen
    <3>2. QED BY <2>1, <2>3, <3>1 DEF OnePort, Listening, Taken
  <2>4. QED BY <2>2, <2>3
<1>4. QED BY <1>1, <1>2, <1>3, StageStep DEF Searches

LEMMA PassedStep == ASSUME TypeOK, Passed, [Next]_vars PROVE Passed'
<1>1. CASE Settled BY <1>1 DEF Passed, Settled
<1>2. ASSUME NEW s \in Server, Searches(s) PROVE Passed'
  <2>1. \A r \in Server \ {s} : stage'[r] = stage[r] /\ port'[r] = port[r]
    BY <1>2 DEF TypeOK, Searches, Bind, Listen
  <2>2. ~ Through(s) BY <1>2 DEF Searches, Bind, Listen, Through
  <2>3. \/ port'[s] = port[s]
        \/ port'[s] = port[s] + 1 /\ Taken(s)
    BY <1>2 DEF TypeOK, Searches, Bind, Listen
  <2>4. port[s] \in Nat \ {0} BY DEF TypeOK
  <2>5. Taken(s) => \E r \in Server \ {s} : Through(r) /\ port[r] = port[s]
    BY DEF Taken, Listening, Through
  <2>6. \A p \in 1 .. (port'[s] - 1) :
          \E r \in Server \ {s} : Through(r) /\ port[r] = p
    <3>1. ASSUME NEW p \in 1 .. (port'[s] - 1)
          PROVE  \E r \in Server \ {s} : Through(r) /\ port[r] = p
      <4>1. p \in 1 .. (port[s] - 1) \/ (p = port[s] /\ Taken(s))
        BY <2>3, <2>4, <3>1
      <4>2. QED BY <4>1, <2>5 DEF Passed
    <3>2. QED BY <3>1
  <2>7. \A r \in Server : Through(r) => Through(r)' /\ port'[r] = port[r]
    BY <2>1, <2>2 DEF Through
  <2>8. ASSUME NEW q \in Server, NEW p \in 1 .. (port'[q] - 1)
        PROVE  \E r \in Server \ {q} : Through(r)' /\ port'[r] = p
    <3>1. \E r \in Server \ {q} : Through(r) /\ port[r] = p
      <4>1. CASE q = s BY <4>1, <2>6, <2>8
      <4>2. CASE q # s BY <4>2, <2>1, <2>8 DEF Passed
      <4>3. QED BY <4>1, <4>2
    <3>2. QED BY <3>1, <2>7
  <2>9. QED BY <2>8 DEF Passed
<1>3. QED BY <1>1, <1>2, StageStep

(* As many ports are passed as there are other servers, at most.           *)
LEMMA PassedSuffices == ASSUME TypeOK, Passed PROVE PortsSuffice
<1>1. SUFFICES ASSUME NEW s \in Server PROVE port[s] <= Cardinality(Server)
  BY DEF PortsSuffice
<1>. DEFINE n == port[s] - 1
            owner == [p \in 1 .. n |-> CHOOSE r \in Server \ {s} : Through(r) /\ port[r] = p]
<1>2. n \in Nat BY DEF TypeOK
<1>3. \A p \in 1 .. n : owner[p] \in Server \ {s} /\ port[owner[p]] = p
  BY DEF Passed
<1>4. owner \in Injection(1 .. n, Server \ {s})
  <2>1. owner \in [1 .. n -> Server \ {s}] BY <1>3
  <2>2. \A p, q \in 1 .. n : owner[p] = owner[q] => p = q BY <1>3
  <2>3. QED BY <2>1, <2>2 DEF Injection, IsInjective
<1>5. IsFiniteSet(Server \ {s}) /\ Cardinality(Server \ {s}) = Cardinality(Server) - 1
  BY KindAssumption, FS_RemoveElement
<1>6. Cardinality(1 .. n) <= Cardinality(Server \ {s})
  BY <1>4, <1>5, FS_Injection
<1>7. Cardinality(1 .. n) = n BY <1>2, FS_Interval
<1>8. QED
  BY <1>2, <1>5, <1>6, <1>7, KindAssumption, FS_CardinalityType DEF TypeOK

(* The search for a port ends within as many ports as there are servers,   *)
(* however the binds and the listens of the servers interleave.            *)
THEOREM SearchEnds == Spec => []PortsSuffice
<1>1. Init => Passed BY DEF Init, Passed
<1>2. TypeOK /\ Passed /\ [Next]_vars => Passed' BY PassedStep
<1>3. TypeOK /\ Passed => PortsSuffice BY PassedSuffices
<1>4. QED BY RendezvousTypeCorrect, <1>1, <1>2, <1>3, PTL DEF Spec

-----------------------------------------------------------------------------
(* Records. A publishing loop runs while its server is open, and an entry  *)
(* is in the daemon until the server has joined that loop.                 *)
LoopOpen == \A s \in Server : poll[s] = "polling" => stage[s] = "open"

EntryOpen == \A s \in Server : group[s] # "none" => stage[s] \in {"open", "stopped"}

LEMMA PublishOpen ==
    ASSUME TypeOK, LoopOpen, EntryOpen, NEW s \in Server, Publishes(s)
    PROVE  LoopOpen' /\ EntryOpen'
<1>1. /\ \A r \in Server \ {s} : /\ poll'[r] = poll[r]
                                 /\ group'[r] = group[r]
                                 /\ stage'[r] = stage[r]
      /\ stage'[s] = "open" \/ (stage'[s] = stage[s] /\ group[s] # "none" /\ poll'[s] = poll[s])
  <2>0. CreateServices(s) => \A r \in Server \ {s} : poll'[r] = poll[r] /\ group'[r] = group[r]
    BY DEF TypeOK, CreateServices, Created, Rejected
  <2>1. CASE PublishInit(s) BY <2>0, <2>1 DEF TypeOK, PublishInit
  <2>2. CASE ClientCallback(s)
    <3>1. stage' = stage /\ stage[s] = "open" BY <2>2 DEF ClientCallback, LoopOpen
    <3>2. \A r \in Server \ {s} : poll'[r] = poll[r] /\ group'[r] = group[r]
      BY <2>0, <2>2 DEF TypeOK, ClientCallback, Reset
    <3>3. QED BY <3>1, <3>2
  <2>3. CASE EntryRefused(s)
    <3>1. stage' = stage /\ stage[s] = "open" BY <2>3 DEF EntryRefused, LoopOpen
    <3>2. QED BY <2>3, <3>1 DEF TypeOK, EntryRefused, Rejected
  <2>4. CASE Announce(s)
    <3>1. stage' = stage /\ poll' = poll /\ group[s] # "none" BY <2>4 DEF Announce
    <3>2. QED BY <2>4, <3>1 DEF TypeOK, Announce
  <2>5. QED BY <2>1, <2>2, <2>3, <2>4 DEF Publishes
<1>2. QED BY <1>1 DEF LoopOpen, EntryOpen

LEMMA LeaveOpen ==
    ASSUME TypeOK, LoopOpen, EntryOpen, NEW s \in Server, Leave(s)
    PROVE  LoopOpen' /\ EntryOpen'
<1>1. CASE StopPoll(s) BY <1>1 DEF TypeOK, StopPoll, LoopOpen, EntryOpen
<1>2. CASE FreeClient(s) BY <1>2 DEF TypeOK, FreeClient, LoopOpen, EntryOpen
<1>3. CASE CloseSocket(s) BY <1>3 DEF TypeOK, CloseSocket, LoopOpen, EntryOpen
<1>4. QED BY <1>1, <1>2, <1>3 DEF Leave

LEMMA OpenStep ==
    ASSUME TypeOK, LoopOpen, EntryOpen, [Next]_vars
    PROVE  LoopOpen' /\ EntryOpen'
<1>1. ASSUME stage' = stage, poll' = poll,
             \A s \in Server : group[s] = "none" => group'[s] = "none"
      PROVE  LoopOpen' /\ EntryOpen'
  BY <1>1 DEF LoopOpen, EntryOpen
<1>2. ASSUME NEW s \in Server, Searches(s) PROVE LoopOpen' /\ EntryOpen'
  <2>1. /\ poll' = poll /\ group' = group
        /\ stage[s] \in {"search", "bound"}
        /\ \A r \in Server \ {s} : stage'[r] = stage[r]
    BY <1>2 DEF TypeOK, Searches, Bind, Listen
  <2>2. QED BY <2>1 DEF LoopOpen, EntryOpen
<1>3. ASSUME NEW s \in Server, Accepts(s) PROVE LoopOpen' /\ EntryOpen'
  BY <1>1, <1>3 DEF Accepts, ControllerAccept, ReadRegistry, RemoteAccept
<1>4. CASE Disturbs
  <2>1. CASE Rename \/ Renamed BY <1>1, <2>1 DEF Rename, Renamed
  <2>2. CASE DaemonFail BY <1>1, <2>2 DEF DaemonFail
  <2>3. QED BY <1>4, <2>1, <2>2 DEF Disturbs
<1>5. CASE \E c \in Dialer : DialerStep(c)
  BY <1>5, <1>1 DEF DialerStep, DialerProgress, Discover, BrowserNew, ResolverFound,
     ResolverFailure,
     DiscoverFail, Dial, DialFail, SendRegistry
<1>6. CASE UNCHANGED vars BY <1>1, <1>6
<1>7. QED BY <1>2, <1>3, <1>4, <1>5, <1>6, PublishOpen, LeaveOpen, StepCases

(* What a browser can see can be dialled, and only its publisher answers.  *)
THEOREM RecordsAlwaysDialable == Spec => []RecordsAreDialable
<1>1. Init => OnePort /\ LoopOpen /\ EntryOpen
  BY DEF Init, OnePort, Listening, LoopOpen, EntryOpen
<1>2. TypeOK /\ OnePort /\ LoopOpen /\ EntryOpen /\ [Next]_vars
        => OnePort' /\ LoopOpen' /\ EntryOpen'
  BY OnePortStep, OpenStep
<1>3. OnePort /\ EntryOpen => RecordsAreDialable
  BY DEF OnePort, EntryOpen, RecordsAreDialable, Visible, Listening
<1>4. QED BY RendezvousTypeCorrect, <1>1, <1>2, <1>3, PTL DEF Spec

-----------------------------------------------------------------------------
(* Connections. Who dials has the port of a server that is through with    *)
(* its search: that server still has the port, or has left.                *)
AddressKnown ==
    \A c \in Dialer : step[c] = "dial" => address[c] = port[Goal[c]] /\ Through(Goal[c])

LEMMA AddressStep ==
    ASSUME TypeOK, EntryOpen, AddressKnown, [Next]_vars
    PROVE  AddressKnown'
<1>0. \A c \in Dialer : Goal[c] \in Server BY KindAssumption
<1>1. ASSUME Settled,
             \A c \in Dialer : step'[c] = "dial" =>
                \/ step[c] = "dial" /\ address'[c] = address[c]
                \/ address'[c] = port[Goal[c]] /\ Visible(Goal[c])
      PROVE  AddressKnown'
  <2>1. \A s \in Server : Visible(s) => Through(s) BY DEF EntryOpen, Visible, Through
  <2>2. ASSUME NEW c \in Dialer, step'[c] = "dial"
        PROVE  address'[c] = port'[Goal[c]] /\ Through(Goal[c])'
    <3>1. address'[c] = port[Goal[c]] /\ Through(Goal[c])
      BY <1>0, <1>1, <2>1, <2>2 DEF AddressKnown
    <3>2. QED BY <1>0, <1>1, <3>1 DEF Settled
  <2>3. QED BY <2>2 DEF AddressKnown
<1>2. ASSUME NEW s \in Server, Searches(s) PROVE AddressKnown'
  <2>1. /\ ~ Through(s)
        /\ \A r \in Server \ {s} : port'[r] = port[r] /\ stage'[r] = stage[r]
        /\ step' = step /\ address' = address
    BY <1>2 DEF TypeOK, Searches, Bind, Listen, Through
  <2>2. QED BY <1>0, <2>1 DEF AddressKnown, Through
<1>3. ASSUME Settled, address' = address,
             \A c \in Dialer : step'[c] = "dial" => step[c] = "dial"
      PROVE  AddressKnown'
  BY <1>1, <1>3
<1>4. CASE Settled
  <2>1. \A R : Withdrawn(R) => \A c \in Dialer : step'[c] = "dial" => step[c] = "dial"
    BY DEF Withdrawn
  <2>2. ASSUME NEW s \in Server, Publishes(s) \/ Accepts(s) \/ Leave(s)
        PROVE  AddressKnown'
    <3>1. CASE ClientCallback(s)
      <4>1. step' = step \/ Withdrawn({s}) BY <3>1 DEF ClientCallback, Reset
      <4>2. address' = address BY <3>1 DEF ClientCallback
      <4>3. QED BY <1>3, <1>4, <2>1, <4>1, <4>2
    <3>2. CASE PublishInit(s) \/ EntryRefused(s) \/ Announce(s)
      BY <1>3, <1>4, <3>2 DEF PublishInit, EntryRefused, Announce
    <3>3. CASE Accepts(s)
      BY <1>3, <1>4, <3>3 DEF Accepts, ControllerAccept, ReadRegistry, RemoteAccept
    <3>4. CASE StopPoll(s) \/ CloseSocket(s)
      BY <1>3, <1>4, <3>4 DEF StopPoll, CloseSocket
    <3>5. CASE FreeClient(s) BY <1>3, <1>4, <2>1, <3>5 DEF FreeClient
    <3>6. QED BY <2>2, <3>1, <3>2, <3>3, <3>4, <3>5 DEF Publishes, Leave
  <2>3. CASE Disturbs
    <3>1. CASE Rename \/ Renamed BY <1>3, <1>4, <3>1 DEF Rename, Renamed
    <3>2. CASE DaemonFail BY <1>3, <1>4, <2>1, <3>2 DEF DaemonFail
    <3>3. QED BY <2>3, <3>1, <3>2 DEF Disturbs
  <2>4. ASSUME NEW c \in Dialer, DialerStep(c) PROVE AddressKnown'
    <3>1. CASE ResolverFound(c)
      BY <1>1, <1>4, <3>1 DEF TypeOK, ResolverFound, Matches
    <3>2. CASE BrowserNew(c) \/ ResolverFailure(c) \/ DiscoverFail(c) \/ Dial(c)
               \/ DialFail(c) \/ SendRegistry(c)
      <4>1. address' = address /\ \A x \in Dialer : step'[x] = "dial" => step[x] = "dial"
        BY <3>2 DEF TypeOK, BrowserNew, ResolverFailure, DiscoverFail, Dial, DialFail,
           SendRegistry
      <4>2. QED BY <1>3, <1>4, <4>1
    <3>3. QED BY <2>4, <3>1, <3>2 DEF DialerStep, DialerProgress, Discover
  <2>5. CASE UNCHANGED vars BY <1>3, <1>4, <2>5
  <2>6. CASE \E s \in Server : Searches(s) BY <1>2, <2>6
  <2>7. QED BY <2>2, <2>3, <2>4, <2>5, <2>6, StepCases
<1>5. QED BY <1>2, <1>4, StageStep

LEMMA ConnectionsStep ==
    ASSUME TypeOK, [Next]_vars, NEW s \in Server, NEW c \in Connections(s)'
    PROVE  c \in Connections(s) \/ (c \in Dialer /\ step[c] = "dial" /\ Reaches(c, s))
<1>1. /\ c # Nobody
      /\ \/ \E k \in DOMAIN backlog'[s] : c = backlog'[s][k]
         \/ c = reading'[s]
         \/ \E d \in AllSlots : c = connfd'[s][d]
  BY DEF Connections
<1>2. (\/ \E k \in DOMAIN backlog[s] : c = backlog[s][k]
       \/ c = reading[s]
       \/ \E d \in AllSlots : c = connfd[s][d]) => c \in Connections(s)
  BY <1>1 DEF Connections
<1>3. ASSUME reading' = reading, connfd' = connfd,
             backlog' = backlog \/ \E r \in Server : backlog' = [backlog EXCEPT ![r] = <<>>]
      PROVE  c \in Connections(s)
  <2>1. backlog'[s] = backlog[s] \/ backlog'[s] = <<>> BY <1>3 DEF TypeOK
  <2>2. QED BY <1>3, <1>1, <1>2, <2>1
<1>4. ASSUME NEW q \in Seq(Dialer), q # <<>>
      PROVE  /\ 1 \in DOMAIN q /\ Head(q) = q[1]
             /\ \A k \in DOMAIN Tail(q) : k + 1 \in DOMAIN q /\ Tail(q)[k] = q[k + 1]
  BY <1>4, HeadTailProperties
<1>5. ASSUME NEW r \in Server, Accepts(r) PROVE c \in Connections(s)
  <2>1. CASE ControllerAccept(r)
    <3>1. backlog[r] \in Seq(Dialer) /\ backlog[r] # <<>>
      BY <2>1 DEF TypeOK, ControllerAccept
    <3>2. /\ reading'[s] \in {reading[s], backlog[s][1]} /\ connfd' = connfd
          /\ reading'[s] = backlog[s][1] => 1 \in DOMAIN backlog[s] \/ reading'[s] = reading[s]
      BY <1>4, <2>1, <3>1 DEF TypeOK, ControllerAccept
    <3>3. \A k \in DOMAIN backlog'[s] :
             \E j \in DOMAIN backlog[s] : backlog'[s][k] = backlog[s][j]
      BY <1>4, <2>1, <3>1 DEF TypeOK, ControllerAccept
    <3>4. QED BY <1>1, <1>2, <3>2, <3>3
  <2>2. CASE ReadRegistry(r)
    <3>1. Slot(r) \in AllSlots BY <2>2 DEF TypeOK, ReadRegistry, Slot, AllSlots
    <3>2. /\ backlog' = backlog /\ (reading'[s] = reading[s] \/ reading'[s] = Nobody)
          /\ \A d \in AllSlots : connfd'[s][d] = connfd[s][d] \/ connfd'[s][d] = reading[s]
      BY <2>2, <3>1 DEF TypeOK, ReadRegistry
    <3>3. QED BY <1>1, <1>2, <3>2
  <2>3. CASE RemoteAccept(r)
    <3>1. backlog[r] \in Seq(Dialer) /\ backlog[r] # <<>>
      BY <2>3 DEF TypeOK, RemoteAccept
    <3>2. 1 \in AllSlots BY DEF AllSlots
    <3>3. /\ reading' = reading
          /\ \A d \in AllSlots : \/ connfd'[s][d] = connfd[s][d]
                                 \/ 1 \in DOMAIN backlog[s] /\ connfd'[s][d] = backlog[s][1]
      BY <1>4, <2>3, <3>1, <3>2 DEF TypeOK, RemoteAccept
    <3>4. \A k \in DOMAIN backlog'[s] :
             \E j \in DOMAIN backlog[s] : backlog'[s][k] = backlog[s][j]
      BY <1>4, <2>3, <3>1 DEF TypeOK, RemoteAccept
    <3>5. QED BY <1>1, <1>2, <3>3, <3>4
  <2>4. QED BY <1>5, <2>1, <2>2, <2>3 DEF Accepts
<1>6. ASSUME NEW x \in Dialer, Dial(x)
      PROVE  c \in Connections(s) \/ (c \in Dialer /\ step[c] = "dial" /\ Reaches(c, s))
  <2>1. PICK r \in Server : Reaches(x, r) /\ backlog' = [backlog EXCEPT ![r] = Append(@, x)]
    BY <1>6 DEF Dial
  <2>2. /\ reading' = reading /\ connfd' = connfd /\ step[x] = "dial"
        /\ backlog[r] \in Seq(Dialer)
    BY <1>6 DEF TypeOK, Dial
  <2>3. \A k \in DOMAIN Append(backlog[r], x) :
           Append(backlog[r], x)[k] = x \/ (k \in DOMAIN backlog[r]
                                            /\ Append(backlog[r], x)[k] = backlog[r][k])
    BY <2>2, AppendProperties
  <2>4. CASE s = r BY <2>1, <2>2, <2>3, <2>4 DEF TypeOK, Connections
  <2>5. CASE s # r BY <2>1, <2>2, <2>5 DEF TypeOK, Connections
  <2>6. QED BY <2>4, <2>5
<1>7. ASSUME NEW r \in Server, Searches(r) \/ Publishes(r) \/ Leave(r)
      PROVE  c \in Connections(s)
  <2>1. reading' = reading /\ connfd' = connfd
        /\ (backlog' = backlog \/ backlog' = [backlog EXCEPT ![r] = <<>>])
    BY <1>7 DEF Searches, Bind, Listen, Publishes, PublishInit, ClientCallback,
       EntryRefused, Announce, Leave, StopPoll, FreeClient, CloseSocket
  <2>2. QED BY <1>3, <2>1
<1>8. CASE Disturbs BY <1>3, <1>8 DEF Disturbs, Rename, Renamed, DaemonFail
<1>9. ASSUME NEW x \in Dialer, DialerStep(x)
      PROVE  c \in Connections(s) \/ (c \in Dialer /\ step[c] = "dial" /\ Reaches(c, s))
  BY <1>3, <1>6, <1>9 DEF DialerStep, DialerProgress, Discover, BrowserNew, ResolverFound,
     ResolverFailure, DiscoverFail, DialFail, SendRegistry
<1>10. CASE UNCHANGED vars BY <1>3, <1>10
<1>11. QED BY <1>5, <1>7, <1>8, <1>9, <1>10, StepCases

LEMMA ServesStep ==
    ASSUME TypeOK, OnePort, AddressKnown, ServesOwn, [Next]_vars
    PROVE  ServesOwn'
<1>1. \A r \in Server : stage[r] = "left" => stage'[r] = "left"
  <2>1. CASE Settled BY <2>1 DEF Settled
  <2>2. ASSUME NEW s \in Server, Searches(s)
        PROVE  \A r \in Server : stage[r] = "left" => stage'[r] = "left"
    BY <2>2 DEF TypeOK, Searches, Bind, Listen
  <2>3. QED BY <2>1, <2>2, StageStep
<1>2. ASSUME NEW s \in Server, NEW c \in Connections(s)'
      PROVE  Goal[c] = s \/ stage'[Goal[c]] = "left"
  <2>1. CASE c \in Connections(s)
    <3>1. c \in Dialer BY <2>1 DEF TypeOK, Connections
    <3>2. Goal[c] \in Server BY <3>1, KindAssumption
    <3>3. QED BY <1>1, <2>1, <3>2 DEF ServesOwn
  <2>2. CASE c \in Dialer /\ step[c] = "dial" /\ Reaches(c, s)
    <3>1. Goal[c] \in Server BY <2>2, KindAssumption
    <3>2. CASE Listening(Goal[c])
      BY <2>2, <3>1, <3>2 DEF AddressKnown, OnePort, Reaches
    <3>3. CASE ~ Listening(Goal[c])
      <4>1. stage[Goal[c]] = "left"
        BY <2>2, <3>1, <3>3 DEF TypeOK, Stages, AddressKnown, Through, Listening
      <4>2. QED BY <1>1, <3>1, <4>1
    <3>4. QED BY <3>2, <3>3
  <2>3. QED BY <1>2, <2>1, <2>2, ConnectionsStep
<1>3. QED BY <1>2 DEF ServesOwn

(* A server is connected to those who looked for it and to nobody else,    *)
(* but for dialers whose own server has left.                              *)
THEOREM AlwaysServesOwn == Spec => []ServesOwn
<1>1. Init => OnePort /\ LoopOpen /\ EntryOpen /\ AddressKnown /\ ServesOwn
  BY DEF Init, OnePort, Listening, LoopOpen, EntryOpen, AddressKnown, ServesOwn, Connections
<1>2. TypeOK /\ OnePort /\ LoopOpen /\ EntryOpen /\ AddressKnown /\ ServesOwn /\ [Next]_vars
        => OnePort' /\ LoopOpen' /\ EntryOpen' /\ AddressKnown' /\ ServesOwn'
  BY OnePortStep, OpenStep, AddressStep, ServesStep
<1>3. QED BY RendezvousTypeCorrect, <1>1, <1>2, PTL DEF Spec

-----------------------------------------------------------------------------
(* Registration. A client is in one place of one controller at a time: in  *)
(* the backlog, read, or seated. The proof that a controller only reads    *)
(* registries of its own clients: a client that comes to another one finds *)
(* its own has left, which was then complete and has a seat for it.        *)
Controllers == Server \ Remotes

Queued(s) == {backlog[s][k] : k \in DOMAIN backlog[s]}
Seated(s) == {connfd[s][d] : d \in AllSlots} \ {Nobody}
Seats(s) == {d \in Slots(s) : connfd[s][d] # Nobody}

OnePlace(s) ==
    /\ \A c \in Connections(s) : step[c] \in {"connected", "registered"}
    /\ \A j, k \in DOMAIN backlog[s] : backlog[s][j] = backlog[s][k] => j = k
    /\ \A c \in Queued(s) : c # reading[s] /\ c \notin Seated(s)
    /\ reading[s] \notin Seated(s)

RightSeat(s) ==
    /\ \A d \in AllSlots : connfd[s][d] # Nobody =>
         connfd[s][d] \in Clients(s) /\ Domain[connfd[s][d]] = d
    /\ accepted[s] = Cardinality(Seats(s))

LeavesComplete(s) == stage[s] \in {"stopped", "freed", "left"} => Complete(s)

ServedOnce ==
    \A s, t \in Controllers : \A c \in Connections(s) : c \in Connections(t) => s = t

RegistryInv ==
    /\ \A c \in Dialer : step[c] = "registered" => Goal[c] \notin Remotes
    /\ \A s \in Controllers : OnePlace(s) /\ RightSeat(s) /\ LeavesComplete(s)
    /\ ServedOnce

LEMMA OneClientPerDomain ==
    ASSUME NEW s \in Controllers, NEW a \in Clients(s), NEW b \in Clients(s),
           Domain[a] = Domain[b]
    PROVE  a = b
<1> DEFINE D == {Domain[c] : c \in Clients(s)}
           f == [c \in Clients(s) |-> Domain[c]]
<1>1. IsFiniteSet(Clients(s)) /\ Cardinality(Clients(s)) \in Nat
  BY KindAssumption, FS_Subset, FS_CardinalityType DEF Clients
<1>2. D = 1 .. Cardinality(Clients(s))
  BY ClientAssumption DEF Controllers
<1>3. Cardinality(D) = Cardinality(Clients(s))
  <2>1. \A n \in Nat : Cardinality(1 .. n) = n
    BY FS_Interval
  <2>2. QED
    BY <1>1, <1>2, <2>1
<1>4. f \in Surjection(Clients(s), D)
  BY DEF Surjection
<1>5. f \in Injection(Clients(s), D)
  BY <1>1, <1>3, <1>4, FS_Surjection
<1>6. f[a] = f[b]
  OBVIOUS
<1>7. QED
  BY <1>5, <1>6 DEF Injection, IsInjective

LEMMA SeatsFinite ==
    ASSUME NEW s \in Controllers
    PROVE  /\ IsFiniteSet(Slots(s))
           /\ IsFiniteSet(Seats(s))
           /\ Cardinality(Seats(s)) \in Nat
           /\ Slots(s) \subseteq AllSlots
<1>1. Slots(s) = 1 .. Cardinality(Clients(s))
  BY ClientAssumption DEF Controllers, Slots
<1>2. IsFiniteSet(Clients(s)) /\ Cardinality(Clients(s)) \in Nat
  BY KindAssumption, FS_Subset, FS_CardinalityType DEF Clients
<1>3. IsFiniteSet(Slots(s))
  BY <1>1, <1>2, FS_Interval
<1>4. IsFiniteSet(Seats(s)) /\ Cardinality(Seats(s)) \in Nat
  BY <1>3, FS_Subset, FS_CardinalityType DEF Seats
<1>5. Slots(s) \subseteq AllSlots
  BY DEF Controllers, Slots, AllSlots, Clients
<1>6. QED
  BY <1>3, <1>4, <1>5

(* A step that moves nobody from one place to another.                     *)
Moves(s) ==
    ~ /\ reading'[s] = reading[s]
      /\ connfd'[s] = connfd[s]
      /\ accepted'[s] = accepted[s]
      /\ backlog'[s] = backlog[s] \/ backlog'[s] = <<>>

StepsOn ==
    \A c \in Dialer :
        /\ step[c] \in {"connected", "registered"} => step'[c] \in {"connected", "registered"}
        /\ step'[c] = "registered" => step[c] = "registered" \/ Goal[c] \notin Remotes

LEMMA StayRegistry ==
    ASSUME TypeOK, RegistryInv, StepsOn, NEW s \in Controllers, ~ Moves(s)
    PROVE  (OnePlace(s) /\ RightSeat(s))'
<1>1. /\ Queued(s)' \subseteq Queued(s) /\ Seated(s)' = Seated(s) /\ Seats(s)' = Seats(s)
      /\ \A j, k \in DOMAIN backlog'[s] : /\ j \in DOMAIN backlog[s] /\ k \in DOMAIN backlog[s]
                                          /\ backlog'[s][j] = backlog[s][j]
                                          /\ backlog'[s][k] = backlog[s][k]
  BY DEF Moves, Queued, Seated, Seats
<1>2. Connections(s)' \subseteq Connections(s)
  BY <1>1 DEF Connections, Moves
<1>3. Connections(s) \subseteq Dialer
  BY DEF TypeOK, Connections, Controllers
<1>4. OnePlace(s)'
  BY <1>1, <1>2, <1>3 DEF RegistryInv, OnePlace, StepsOn, Moves
<1>5. RightSeat(s)'
  BY <1>1 DEF RegistryInv, RightSeat, Moves
<1>6. QED
  BY <1>4, <1>5

LEMMA DialRegistry ==
    ASSUME TypeOK, RegistryInv, NEW c \in Dialer, Dial(c), NEW s \in Controllers
    PROVE  (OnePlace(s) /\ RightSeat(s))'
<1>1. PICK r \in Server : Reaches(c, r) /\ backlog' = [backlog EXCEPT ![r] = Append(@, c)]
  BY DEF Dial
<1>2. StepsOn
  BY DEF Dial, StepsOn, TypeOK
<1>3. CASE s # r
  <2>1. ~ Moves(s)
    BY <1>1, <1>3 DEF Dial, Moves, TypeOK, Controllers
  <2>2. QED
    BY <1>2, <2>1, StayRegistry
<1>4. CASE s = r
  <2>1. /\ backlog'[s] = Append(backlog[s], c) /\ backlog[s] \in Seq(Dialer)
        /\ reading'[s] = reading[s] /\ connfd'[s] = connfd[s] /\ accepted'[s] = accepted[s]
    BY <1>1, <1>4 DEF Dial, TypeOK
  <2>2. c \notin Connections(s) /\ c # Nobody
    BY KindAssumption DEF RegistryInv, OnePlace, Dial
  <2>3. c \notin Queued(s) /\ c # reading[s] /\ c \notin Seated(s)
    BY <2>2 DEF Connections, Queued, Seated
  <2>4. DOMAIN Append(backlog[s], c) = 1 .. Len(backlog[s]) + 1
    BY <2>1, AppendProperties
  <2>5. /\ DOMAIN backlog[s] = 1 .. Len(backlog[s]) /\ Len(backlog[s]) \in Nat
        /\ Append(backlog[s], c)[Len(backlog[s]) + 1] = c
        /\ \A k \in 1 .. Len(backlog[s]) : Append(backlog[s], c)[k] = backlog[s][k]
    BY <2>1, AppendProperties, LenProperties
  <2>6. Queued(s)' = Queued(s) \cup {c}
    BY <2>1, <2>4, <2>5 DEF Queued
  <2>7. Seated(s)' = Seated(s) /\ Seats(s)' = Seats(s)
    BY <2>1 DEF Seated, Seats
  <2>8. Connections(s)' = Connections(s) \cup {c}
    <3>1. Connections(s)' = ((Queued(s) \cup {c}) \cup {reading[s]} \cup {connfd[s][d] : d \in AllSlots}) \ {Nobody}
      BY <2>1, <2>6 DEF Connections, Queued
    <3>2. QED
      BY <2>2, <3>1 DEF Connections, Queued
  <2>9. ASSUME NEW j \in DOMAIN backlog'[s], NEW k \in DOMAIN backlog'[s],
               backlog'[s][j] = backlog'[s][k]
        PROVE  j = k
    <3>1. \A i \in 1 .. Len(backlog[s]) : backlog[s][i] # c
      BY <2>3, <2>5 DEF Queued
    <3>2. CASE j \in 1 .. Len(backlog[s]) /\ k \in 1 .. Len(backlog[s])
      BY <2>1, <2>5, <2>9, <3>2 DEF RegistryInv, OnePlace
    <3>3. CASE j = Len(backlog[s]) + 1 \/ k = Len(backlog[s]) + 1
      BY <2>1, <2>4, <2>5, <2>9, <3>1, <3>3
    <3>4. QED
      BY <2>1, <2>4, <2>5, <3>2, <3>3
  <2>10. \A x \in Connections(s) : step'[x] \in {"connected", "registered"}
    <3>1. Connections(s) \subseteq Dialer
      BY DEF TypeOK, Connections, Controllers
    <3>2. QED
      BY <1>2, <3>1 DEF RegistryInv, OnePlace, StepsOn
  <2>11. step'[c] = "connected"
    BY DEF Dial, TypeOK
  <2>12. OnePlace(s)'
    BY <2>1, <2>3, <2>6, <2>7, <2>8, <2>9, <2>10, <2>11 DEF RegistryInv, OnePlace
  <2>13. QED
    BY <2>1, <2>7, <2>12 DEF RegistryInv, RightSeat
<1>5. QED
  BY <1>3, <1>4

LEMMA AcceptRegistry ==
    ASSUME TypeOK, RegistryInv, NEW s \in Controllers, ControllerAccept(s)
    PROVE  (OnePlace(s) /\ RightSeat(s))'
<1> DEFINE c == Head(backlog[s])
<1>1. /\ backlog[s] \in Seq(Dialer) /\ backlog[s] # <<>> /\ s \in Server
      /\ backlog'[s] = Tail(backlog[s]) /\ reading[s] = Nobody /\ reading'[s] = c
      /\ connfd' = connfd /\ accepted' = accepted /\ step' = step
  BY DEF TypeOK, ControllerAccept, Controllers
<1>2. /\ 1 \in DOMAIN backlog[s] /\ c = backlog[s][1] /\ c \in Dialer
      /\ \A k \in DOMAIN Tail(backlog[s]) :
           k + 1 \in DOMAIN backlog[s] /\ Tail(backlog[s])[k] = backlog[s][k + 1]
      /\ \A k \in DOMAIN Tail(backlog[s]) : k \in Nat \ {0}
  BY <1>1, HeadTailProperties
<1>3. Queued(s)' \subseteq Queued(s) /\ c \in Queued(s)
  BY <1>1, <1>2 DEF Queued
<1>4. c \notin Queued(s)'
  BY <1>1, <1>2 DEF Queued, RegistryInv, OnePlace
<1>5. \A j, k \in DOMAIN backlog'[s] : backlog'[s][j] = backlog'[s][k] => j = k
  <2> SUFFICES ASSUME NEW j \in DOMAIN backlog'[s], NEW k \in DOMAIN backlog'[s],
                      backlog'[s][j] = backlog'[s][k]
               PROVE  j = k
    OBVIOUS
  <2>1. j + 1 = k + 1
    BY <1>1, <1>2 DEF RegistryInv, OnePlace
  <2>2. QED
    BY <1>1, <1>2, <2>1
<1>6. Seated(s)' = Seated(s) /\ Seats(s)' = Seats(s)
  BY <1>1 DEF Seated, Seats
<1>7. Connections(s)' \subseteq Connections(s)
  BY <1>1, <1>3, KindAssumption DEF Connections, Queued
<1>8. OnePlace(s)'
  <2>1. c \notin Seated(s)
    BY <1>3 DEF RegistryInv, OnePlace
  <2>2. \A x \in Queued(s)' : x # c /\ x \notin Seated(s)
    BY <1>3, <1>4 DEF RegistryInv, OnePlace
  <2>3. \A x \in Connections(s)' : step'[x] \in {"connected", "registered"}
    BY <1>1, <1>7 DEF RegistryInv, OnePlace
  <2>4. QED
    BY <1>1, <1>5, <1>6, <2>1, <2>2, <2>3 DEF OnePlace
<1>9. QED
  BY <1>1, <1>6, <1>8 DEF RegistryInv, RightSeat

LEMMA CompleteSeats ==
    ASSUME TypeOK, RegistryInv, NEW s \in Controllers, Complete(s), NEW d \in Slots(s)
    PROVE  connfd[s][d] \in Clients(s) /\ Domain[connfd[s][d]] = d
<1>1. Seats(s) = Slots(s)
  BY SeatsFinite, FS_Subset DEF Complete, RegistryInv, RightSeat, Seats
<1>2. d \in AllSlots /\ connfd[s][d] # Nobody
  BY <1>1, SeatsFinite DEF Seats
<1>3. QED
  BY <1>2 DEF RegistryInv, RightSeat

(* The registry a controller reads is of a client of its own.              *)
LEMMA ReadsOwn ==
    ASSUME TypeOK, ServesOwn, RegistryInv, NEW s \in Controllers, reading[s] # Nobody,
           step[reading[s]] = "registered"
    PROVE  reading[s] \in Clients(s)
<1> DEFINE c == reading[s]
           t == Goal[c]
<1>1. /\ c \in Dialer /\ s \in Server /\ c \in Connections(s)
      /\ t \in Controllers /\ t \in Server
  BY KindAssumption DEF TypeOK, Controllers, RegistryInv, Connections
<1> HIDE DEF c, t
<1>2. CASE t = s
  BY <1>1, <1>2 DEF Clients, c, t
<1>3. CASE t # s
  <2>1. stage[t] = "left"
    BY <1>1, <1>3 DEF ServesOwn, t
  <2>2. Complete(t)
    BY <1>1, <2>1 DEF RegistryInv, LeavesComplete
  <2>3. c \in Clients(t) /\ Domain[c] \in Slots(t) /\ Domain[c] \in AllSlots
    BY <1>1, SeatsFinite DEF Clients, Slots, Controllers, t
  <2> DEFINE b == connfd[t][Domain[c]]
  <2>4. b \in Clients(t) /\ Domain[b] = Domain[c]
    BY <1>1, <2>2, <2>3, CompleteSeats
  <2>5. b = c
    BY <1>1, <2>3, <2>4, OneClientPerDomain
  <2>6. c \in Connections(t)
    BY <1>1, <2>3, <2>5, KindAssumption DEF Connections
  <2>7. QED
    BY <1>1, <1>3, <2>6 DEF RegistryInv, ServedOnce
<1>4. QED
  BY <1>2, <1>3 DEF c

LEMMA ReadRegistryStep ==
    ASSUME TypeOK, ServesOwn, RegistryInv, NEW s \in Controllers, ReadRegistry(s)
    PROVE  (OnePlace(s) /\ RightSeat(s))' /\ ~ Complete(s)
<1> DEFINE c == reading[s]
           d == Domain[c]
<1>1. c \in Dialer /\ c # Nobody /\ s \in Server /\ s \notin Remotes
  BY DEF TypeOK, ReadRegistry, Controllers
<1>2. c \in Clients(s)
  BY ReadsOwn DEF ReadRegistry
<1>3. d \in Slots(s) /\ d \in AllSlots
  BY <1>1, <1>2 DEF Slots, AllSlots
<1>4. /\ connfd'[s] = [connfd[s] EXCEPT ![d] = c] /\ connfd[s] \in [AllSlots -> Dialer \cup {Nobody}]
      /\ accepted'[s] = accepted[s] + 1 /\ reading'[s] = Nobody
      /\ backlog' = backlog /\ step' = step
  BY <1>1 DEF TypeOK, ReadRegistry, Slot
<1>5. connfd[s][d] = Nobody
  <2> SUFFICES ASSUME connfd[s][d] # Nobody PROVE FALSE
    OBVIOUS
  <2> DEFINE b == connfd[s][d]
  <2>1. b \in Clients(s) /\ Domain[b] = d
    BY <1>3 DEF RegistryInv, RightSeat
  <2>3. b = c
    BY <1>2, <2>1, OneClientPerDomain
  <2>4. b \in Seated(s)
    BY <1>3 DEF Seated
  <2>5. QED
    BY <2>3, <2>4 DEF RegistryInv, OnePlace
<1>6. Seated(s)' = Seated(s) \cup {c}
  <2>1. \A x \in AllSlots : connfd'[s][x] = IF x = d THEN c ELSE connfd[s][x]
    BY <1>3, <1>4
  <2>2. QED
    BY <1>1, <1>3, <1>5, <2>1 DEF Seated
<1>7. Seats(s)' = Seats(s) \cup {d} /\ d \notin Seats(s)
  <2>1. \A x \in AllSlots : connfd'[s][x] = IF x = d THEN c ELSE connfd[s][x]
    BY <1>3, <1>4
  <2>2. Slots(s) \subseteq AllSlots /\ Slots(s)' = Slots(s)
    BY SeatsFinite DEF Slots, Clients
  <2>3. \A x : x \in Seats(s)' <=> x \in Slots(s) /\ connfd'[s][x] # Nobody
    BY <2>2 DEF Seats
  <2>4. \A x : x \in Seats(s) <=> x \in Slots(s) /\ connfd[s][x] # Nobody
    BY DEF Seats
  <2>5. QED
    BY <1>1, <1>3, <1>5, <2>1, <2>2, <2>3, <2>4
<1>8. Connections(s)' \subseteq Connections(s) /\ Queued(s)' = Queued(s)
  <2>1. Queued(s)' = Queued(s)
    BY <1>4 DEF Queued
  <2>2. \A x : x \in Connections(s) <=> x # Nobody /\ (x \in Queued(s) \/ x = reading[s] \/ x \in Seated(s))
    BY DEF Connections, Queued, Seated
  <2>3. \A x : x \in Connections(s)' <=>
              x # Nobody /\ (x \in Queued(s)' \/ x = reading'[s] \/ x \in Seated(s)')
    BY DEF Connections, Queued, Seated
  <2>4. QED
    BY <1>4, <1>6, <2>1, <2>2, <2>3
<1>9. OnePlace(s)'
  <2>1. \A x \in Queued(s)' : x # Nobody /\ x \notin Seated(s)'
    <3>1. Queued(s) \subseteq Dialer
      BY <1>1 DEF TypeOK, Queued
    <3>2. QED
      BY <1>6, <1>8, <3>1, KindAssumption DEF RegistryInv, OnePlace
  <2>2. Nobody \notin Seated(s)'
    BY DEF Seated
  <2>3. \A x \in Connections(s)' : step'[x] \in {"connected", "registered"}
    BY <1>4, <1>8 DEF RegistryInv, OnePlace
  <2>4. \A j, k \in DOMAIN backlog'[s] : backlog'[s][j] = backlog'[s][k] => j = k
    BY <1>4 DEF RegistryInv, OnePlace
  <2>5. QED
    BY <1>4, <2>1, <2>2, <2>3, <2>4 DEF OnePlace
<1>10. RightSeat(s)'
  <2>1. Cardinality(Seats(s)') = Cardinality(Seats(s)) + 1
    BY <1>7, SeatsFinite, FS_AddElement
  <2>2. accepted'[s] = Cardinality(Seats(s)')
    BY <1>4, <2>1 DEF RegistryInv, RightSeat
  <2>3. ASSUME NEW x \in AllSlots, connfd'[s][x] # Nobody
        PROVE  connfd'[s][x] \in Clients(s) /\ Domain[connfd'[s][x]] = x
    BY <1>2, <1>3, <1>4, <2>3 DEF RegistryInv, RightSeat
  <2>4. QED
    BY <2>2, <2>3 DEF RightSeat, Clients
<1>11. ~ Complete(s)
  BY <1>2, <1>3, <1>5, CompleteSeats, KindAssumption DEF Clients
<1>12. QED
  BY <1>9, <1>10, <1>11

LEMMA PlacesStep ==
    ASSUME TypeOK, ServesOwn, RegistryInv, [Next]_vars
    PROVE  /\ \A c \in Dialer : step'[c] = "registered" => Goal[c] \notin Remotes
           /\ \A s \in Controllers : (OnePlace(s) /\ RightSeat(s))'
           /\ \A s \in Controllers : Complete(s) => accepted'[s] = accepted[s]
<1> DEFINE Goals == \A c \in Dialer : step'[c] = "registered" => Goal[c] \notin Remotes
           Fits(s) == (OnePlace(s) /\ RightSeat(s))'
           Stays(s) == Complete(s) => accepted'[s] = accepted[s]
           Good == Goals /\ \A s \in Controllers : Fits(s) /\ Stays(s)
<1>0. StepsOn => Goals
  BY DEF RegistryInv, StepsOn
<1>1. ASSUME StepsOn, NEW s \in Controllers, ~ Moves(s)
      PROVE  Fits(s) /\ Stays(s)
  BY <1>1, StayRegistry DEF Moves
<1>2. ASSUME StepsOn, \A s \in Controllers : ~ Moves(s)
      PROVE  Good
  BY <1>0, <1>1, <1>2
<1>3. ASSUME UNCHANGED step, NEW r \in Controllers, Fits(r) /\ Stays(r),
             \A s \in Controllers \ {r} : ~ Moves(s)
      PROVE  Good
  <2>1. StepsOn
    BY <1>3 DEF StepsOn
  <2>2. \A s \in Controllers : Fits(s) /\ Stays(s)
    BY <1>1, <1>3, <2>1
  <2>3. QED
    BY <1>0, <2>1, <2>2
<1>4. ASSUME NEW s \in Server, Accepts(s) PROVE Good
  <2>1. CASE ControllerAccept(s)
    <3>1. s \in Controllers /\ UNCHANGED step /\ \A r \in Controllers \ {s} : ~ Moves(r)
      BY <2>1 DEF ControllerAccept, Controllers, Moves, TypeOK
    <3>2. Fits(s) /\ Stays(s)
      BY <2>1, <3>1, AcceptRegistry DEF ControllerAccept
    <3>3. QED
      BY <1>3, <3>1, <3>2
  <2>2. CASE ReadRegistry(s) /\ s \in Controllers
    <3>1. UNCHANGED step /\ \A r \in Controllers \ {s} : ~ Moves(r)
      BY <2>2 DEF ReadRegistry, Controllers, Moves, TypeOK
    <3>2. Fits(s) /\ Stays(s)
      BY <2>2, ReadRegistryStep
    <3>3. QED
      BY <1>3, <2>2, <3>1, <3>2
  <2>3. CASE (ReadRegistry(s) \/ RemoteAccept(s)) /\ s \notin Controllers
    <3>1. StepsOn /\ \A r \in Controllers : ~ Moves(r)
      BY <2>3 DEF ReadRegistry, RemoteAccept, Controllers, Moves, StepsOn, TypeOK
    <3>2. QED
      BY <1>2, <3>1
  <2>4. QED
    BY <1>4, <2>1, <2>2, <2>3 DEF Accepts, RemoteAccept, Controllers
<1>5. ASSUME NEW s \in Server, Searches(s) \/ Publishes(s) \/ Leave(s) PROVE Good
  <2>1. \A r \in Controllers : ~ Moves(r)
    BY <1>5 DEF Controllers, Moves, TypeOK, Searches, Bind, Listen, Publishes, PublishInit,
       ClientCallback, EntryRefused, Announce, Leave, StopPoll, FreeClient, CloseSocket
  <2>2. step' = step \/ Withdrawn({s})
    BY <1>5 DEF Searches, Bind, Listen, Publishes, PublishInit, Reset,
       ClientCallback, EntryRefused, Announce, Leave, StopPoll, FreeClient, CloseSocket
  <2>3. StepsOn
    BY <2>2 DEF StepsOn, Withdrawn, TypeOK
  <2>4. QED
    BY <1>2, <2>1, <2>3
<1>6. CASE Disturbs \/ UNCHANGED vars
  <2>1. \A r \in Controllers : ~ Moves(r)
    BY <1>6 DEF Disturbs, Rename, Renamed, DaemonFail, Controllers, Moves, TypeOK
  <2>2. step' = step \/ Withdrawn(Server)
    BY <1>6 DEF Disturbs, Rename, Renamed, DaemonFail
  <2>3. StepsOn
    BY <2>2 DEF StepsOn, Withdrawn, TypeOK
  <2>4. QED
    BY <1>2, <2>1, <2>3
<1>7. ASSUME NEW c \in Dialer, DialerStep(c) PROVE Good
  <2>1. CASE Dial(c)
    <3>1. StepsOn /\ accepted' = accepted
      BY <2>1 DEF Dial, StepsOn, TypeOK
    <3>2. \A s \in Controllers : Fits(s)
      BY <2>1, DialRegistry
    <3>3. QED
      BY <1>0, <3>1, <3>2
  <2>2. CASE Discover(c) \/ ResolverFailure(c) \/ DialFail(c) \/ SendRegistry(c)
    <3>1. \A r \in Controllers : ~ Moves(r)
      BY <2>2 DEF Discover, BrowserNew, ResolverFound, ResolverFailure, DiscoverFail,
         DialFail, SendRegistry, Controllers, Moves, TypeOK
    <3>2. StepsOn
      BY <2>2 DEF Discover, BrowserNew, ResolverFound, ResolverFailure, DiscoverFail,
         DialFail, SendRegistry, StepsOn, TypeOK
    <3>3. QED
      BY <1>2, <3>1, <3>2
  <2>3. QED
    BY <1>7, <2>1, <2>2 DEF DialerStep, DialerProgress
<1>8. Good
  BY <1>4, <1>5, <1>6, <1>7, StepCases
<1>9. QED
  BY <1>8

LEMMA LeavesStep ==
    ASSUME TypeOK, [Next]_vars, NEW s \in Controllers, stage'[s] \in {"stopped", "freed", "left"}
    PROVE  stage[s] \in {"stopped", "freed", "left"} \/ Complete(s)
<1>1. s \in Server /\ s \notin Remotes
  BY DEF Controllers
<1>2. ASSUME NEW r \in Server, Leave(r)
      PROVE  stage[s] \in {"stopped", "freed", "left"} \/ Complete(s)
  <2>1. CASE StopPoll(r)
    BY <1>1, <2>1 DEF StopPoll, TypeOK
  <2>2. CASE FreeClient(r) \/ CloseSocket(r)
    BY <1>1, <2>2 DEF FreeClient, CloseSocket, TypeOK
  <2>3. QED
    BY <1>2, <2>1, <2>2 DEF Leave
<1>3. ASSUME NEW r \in Server, Searches(r) \/ Publishes(r) \/ Accepts(r)
      PROVE  stage[s] \in {"stopped", "freed", "left"}
  BY <1>1, <1>3 DEF Searches, Bind, Listen, Publishes, PublishInit, ClientCallback,
     EntryRefused, Announce, Accepts, ControllerAccept, ReadRegistry, RemoteAccept, TypeOK
<1>4. CASE Disturbs \/ UNCHANGED vars
  BY <1>4 DEF Disturbs, Rename, Renamed, DaemonFail
<1>5. ASSUME NEW c \in Dialer, DialerStep(c)
      PROVE  stage' = stage
  BY <1>5 DEF DialerStep, DialerProgress, Discover, BrowserNew, ResolverFound, ResolverFailure,
     DiscoverFail, Dial, DialFail, SendRegistry
<1>6. QED
  BY <1>2, <1>3, <1>4, <1>5, StepCases

LEMMA RegistryStep ==
    ASSUME TypeOK, OnePort, ServesOwn, RegistryInv, [Next]_vars
    PROVE  RegistryInv'
<1>1. \A s \in Controllers : LeavesComplete(s)'
  <2> SUFFICES ASSUME NEW s \in Controllers, stage'[s] \in {"stopped", "freed", "left"}
               PROVE  Complete(s)'
    BY DEF LeavesComplete
  <2>1. Complete(s)
    BY LeavesStep DEF RegistryInv, LeavesComplete
  <2>2. accepted'[s] = accepted[s]
    BY <2>1, PlacesStep
  <2>3. QED
    BY <2>1, <2>2 DEF Complete, Slots, Clients
<1>2. ServedOnce'
  <2> SUFFICES ASSUME NEW s \in Controllers, NEW t \in Controllers,
                      NEW c \in Connections(s)', c \in Connections(t)'
               PROVE  s = t
    BY DEF ServedOnce
  <2>1. s \in Server /\ t \in Server
    BY DEF Controllers
  <2>2. /\ c \in Connections(s) \/ (step[c] = "dial" /\ Reaches(c, s))
        /\ c \in Connections(t) \/ (step[c] = "dial" /\ Reaches(c, t))
    BY <2>1, ConnectionsStep
  <2>3. c \in Connections(s) \/ c \in Connections(t) => step[c] # "dial"
    BY DEF RegistryInv, OnePlace
  <2>4. Reaches(c, s) /\ Reaches(c, t) => s = t
    BY <2>1 DEF Reaches, OnePort
  <2>5. c \in Connections(s) /\ c \in Connections(t) => s = t
    BY DEF RegistryInv, ServedOnce
  <2>6. QED
    BY <2>2, <2>3, <2>4, <2>5
<1>3. QED
  BY <1>1, <1>2, PlacesStep DEF RegistryInv

LEMMA RegistryInit == Init => RegistryInv
<1> SUFFICES ASSUME Init PROVE RegistryInv
  OBVIOUS
<1>1. ASSUME NEW s \in Controllers
      PROVE  OnePlace(s) /\ RightSeat(s) /\ LeavesComplete(s) /\ Connections(s) = {}
  <2>1. /\ backlog[s] = <<>> /\ reading[s] = Nobody /\ accepted[s] = 0
        /\ connfd[s] = [d \in AllSlots |-> Nobody] /\ Slots(s) \subseteq AllSlots
        /\ stage[s] = "search"
    BY SeatsFinite DEF Init, Controllers
  <2>2. Queued(s) = {} /\ Seated(s) = {} /\ Connections(s) = {} /\ Seats(s) = {}
    BY <2>1 DEF Queued, Seated, Connections, Seats
  <2>3. QED
    BY <2>1, <2>2, FS_EmptySet DEF OnePlace, RightSeat, LeavesComplete
<1>2. QED
  BY <1>1 DEF RegistryInv, ServedOnce, Init

(* A controller that has taken as many connections as it has domains has   *)
(* one of each: nobody registered over somebody else, and no stranger that *)
(* came to a port that changed hands was taken for a client.               *)
THEOREM AllRegisteredCorrect == Spec => []AllRegistered
<1>1. Init => OnePort /\ RegistryInv
  BY RegistryInit DEF Init, OnePort, Listening
<1>2. TypeOK /\ OnePort /\ ServesOwn /\ RegistryInv /\ [Next]_vars => OnePort' /\ RegistryInv'
  BY OnePortStep, RegistryStep
<1>3. TypeOK /\ RegistryInv => AllRegistered
  BY CompleteSeats DEF AllRegistered, Controllers
<1>4. QED
  BY RendezvousTypeCorrect, AlwaysServesOwn, <1>1, <1>2, <1>3, PTL DEF Spec
=============================================================================
