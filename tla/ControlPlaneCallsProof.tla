----------------------- MODULE ControlPlaneCallsProof -----------------------
(***************************************************************************)
(* The system calls: what may be under way between a domain and the        *)
(* controller, and the regions of the heap that sbrk hands out.            *)
(***************************************************************************)
EXTENDS ControlPlaneRunProof

CallsIn(stream) == {k \in DOMAIN stream : stream[k].type = "SYSCALL"}

CallCount(stream) == Cardinality(CallsIn(stream))

(* The END of the controller is under way to d at most once, and only      *)
(* after it was sent.                                                      *)
EndsIn(stream) == {k \in DOMAIN stream : stream[k].type = "END"}

Ending == ending # 0 \/ phase = "returned"

EndOnce(d) ==
    /\ \A j, k \in EndsIn(down[d]) : j = k
    /\ EndsIn(down[d]) # {} => Ending /\ ending_notify[d]

(* END was sent to d or received from it, and is not under way any more.   *)
Taken(d) == Ending /\ ending_notify[d] /\ EndsIn(down[d]) = {}

(* Each call of d is under way once, and one call more than the one d      *)
(* waits for may be if END took the place of its answer.                   *)
CallBound(d) ==
    CallCount(up[d]) + CallCount(down[d]) <=
        (IF Calling(d) THEN 1 ELSE 0) + (IF Taken(d) THEN 1 ELSE 0)

LateInv == \A d \in Domains : EndOnce(d) /\ CallBound(d)

(* The call the controller will answer is the one d waits for.             *)
CallAsked(d) ==
    Calling(d) /\ up[d] # <<>> => up[d][Len(up[d])] = pending[d]

(* The answer to an sbrk call of d is under way.                           *)
Given(d) == Sbrking(d) /\ down[d] # <<>>

(* The regions granted or on their way are below the break and apart.      *)
Below(r) == r.base + r.size <= heap_sbrk

AllApart ==
    \A d, e \in Domains : \A j \in DOMAIN granted[d], k \in DOMAIN granted[e] :
        (d # e \/ j # k) => Apart(granted[d][j], granted[e][k])

GrantedBelow(d) == \A j \in DOMAIN granted[d] : Below(granted[d][j])

GivenFresh(d) ==
    Given(d) =>
        /\ Below(Returned(d))
        /\ \A e \in Domains : \A j \in DOMAIN granted[e] :
             Apart(granted[e][j], Returned(d))

GivenOnce ==
    \A d, e \in Domains : Given(d) /\ Given(e) /\ d # e => Apart(Returned(d), Returned(e))

Heap ==
    /\ AllApart
    /\ GivenOnce
    /\ \A d \in Domains : GrantedBelow(d) /\ GivenFresh(d)

(* Until a domain ends, a call of d is under way alone, once, and only     *)
(* while d waits for its answer.                                           *)
CallAlone(d) ==
    /\ Calling(d) /\ down[d] # <<>> => up[d] = <<>> /\ Head(down[d]).type = "SYSCALL"
    /\ up[d] # <<>> /\ Head(up[d]).type = "SYSCALL" => Calling(d) /\ Len(up[d]) = 1
    /\ pc[d] \in {"setup", "run"} => down[d] = <<>>

AloneInv == NobodyEnded => \A d \in Domains : CallAlone(d)

HeapInv ==
    /\ \A d \in Domains : CallAsked(d)
    /\ NobodyEnded /\ NothingGivenBack => Heap

-----------------------------------------------------------------------------
(* The number of calls in a stream whose head is taken or that is added to.*)
LEMMA CallsFinite ==
    ASSUME NEW s \in Seq(Message)
    PROVE  /\ IsFiniteSet(CallsIn(s)) /\ CallCount(s) \in Nat
           /\ s = <<>> => CallCount(s) = 0
<1>1. DOMAIN s = 1 .. Len(s) /\ Len(s) \in Nat
  BY LenProperties
<1>2. IsFiniteSet(DOMAIN s)
  BY <1>1, FS_Interval
<1>3. CallsIn(s) \in SUBSET DOMAIN s
  BY DEF CallsIn
<1>4. IsFiniteSet(CallsIn(s))
  BY <1>2, <1>3, FS_Subset
<1>5. s = <<>> => CallsIn(s) = {}
  BY DEF CallsIn
<1>6. QED
  BY <1>4, <1>5, FS_CardinalityType, FS_EmptySet DEF CallCount

LEMMA CallsAdded ==
    ASSUME NEW s \in Seq(Message), NEW m \in Message
    PROVE  CallCount(Append(s, m)) =
             CallCount(s) + (IF m.type = "SYSCALL" THEN 1 ELSE 0)
<1>1. /\ DOMAIN s = 1 .. Len(s) /\ Len(s) \in Nat
      /\ DOMAIN Append(s, m) = 1 .. (Len(s) + 1)
      /\ \A k \in DOMAIN s : Append(s, m)[k] = s[k]
      /\ Append(s, m)[Len(s) + 1] = m
  BY AddFacts
<1>2. Len(s) + 1 \notin CallsIn(s)
  BY <1>1 DEF CallsIn
<1>3. IsFiniteSet(CallsIn(s)) /\ CallCount(s) \in Nat
  BY CallsFinite
<1>4. CASE m.type = "SYSCALL"
  <2>1. CallsIn(Append(s, m)) = CallsIn(s) \cup {Len(s) + 1}
    BY <1>1, <1>4 DEF CallsIn
  <2>2. Cardinality(CallsIn(s) \cup {Len(s) + 1}) = Cardinality(CallsIn(s)) + 1
    BY <1>2, <1>3, FS_AddElement
  <2>3. QED
    BY <1>4, <2>1, <2>2 DEF CallCount
<1>5. CASE m.type # "SYSCALL"
  <2>1. CallsIn(Append(s, m)) = CallsIn(s)
    BY <1>1, <1>5 DEF CallsIn
  <2>2. QED
    BY <1>3, <1>5, <2>1 DEF CallCount
<1>6. QED
  BY <1>4, <1>5

LEMMA CallsTaken ==
    ASSUME NEW s \in Seq(Message), s # <<>>
    PROVE  /\ CallCount(Tail(s)) <= CallCount(s)
           /\ Head(s).type = "SYSCALL" => CallCount(Tail(s)) <= CallCount(s) - 1
<1>1. /\ Tail(s) \in Seq(Message) /\ Head(s) = s[1] /\ 1 \in DOMAIN s
      /\ \A k \in DOMAIN Tail(s) :
           k \in Nat \ {0} /\ k + 1 \in DOMAIN s /\ Tail(s)[k] = s[k + 1]
  BY TakeFacts
<1>2. /\ IsFiniteSet(CallsIn(s)) /\ CallCount(s) \in Nat
      /\ IsFiniteSet(CallsIn(Tail(s))) /\ CallCount(Tail(s)) \in Nat
  BY <1>1, CallsFinite
<1>3. IsFiniteSet(CallsIn(s) \ {1})
      /\ Cardinality(CallsIn(s) \ {1}) =
           IF 1 \in CallsIn(s) THEN Cardinality(CallsIn(s)) - 1
                               ELSE Cardinality(CallsIn(s))
  BY <1>2, FS_RemoveElement
<1>4. PICK f : f = [k \in CallsIn(Tail(s)) |-> k + 1]
  OBVIOUS
<1>5. f \in Injection(CallsIn(Tail(s)), CallsIn(s) \ {1})
  <2>1. \A k \in CallsIn(Tail(s)) : k \in Nat \ {0} /\ k + 1 \in CallsIn(s) \ {1}
    BY <1>1 DEF CallsIn
  <2>2. f \in [CallsIn(Tail(s)) -> CallsIn(s) \ {1}]
    BY <1>4, <2>1
  <2>3. \A j, k \in CallsIn(Tail(s)) : f[j] = f[k] => j = k
    BY <1>4, <2>1
  <2>4. QED
    BY <2>2, <2>3 DEF Injection, IsInjective
<1>6. Cardinality(CallsIn(Tail(s))) <= Cardinality(CallsIn(s) \ {1})
  BY <1>3, <1>5, FS_Injection
<1>7. Head(s).type = "SYSCALL" => 1 \in CallsIn(s)
  BY <1>1 DEF CallsIn
<1>8. QED
  BY <1>2, <1>3, <1>6, <1>7 DEF CallCount

(* The same for the END of the controller.                                 *)
LEMMA EndsAdded ==
    ASSUME NEW s \in Seq(Message), NEW m \in Message
    PROVE  /\ m.type # "END" => EndsIn(Append(s, m)) = EndsIn(s)
           /\ m.type = "END" => EndsIn(Append(s, m)) = EndsIn(s) \cup {Len(s) + 1}
  BY AddFacts DEF EndsIn

LEMMA EndsTaken ==
    ASSUME NEW s \in Seq(Message), s # <<>>, \A j, k \in EndsIn(s) : j = k
    PROVE  /\ \A j, k \in EndsIn(Tail(s)) : j = k
           /\ EndsIn(Tail(s)) # {} => EndsIn(s) # {}
           /\ EndsIn(Tail(s)) = {} => EndsIn(s) = {} \/ Head(s).type = "END"
           /\ Head(s).type = "END" => EndsIn(Tail(s)) = {} /\ EndsIn(s) # {}
<1>1. /\ Head(s) = s[1] /\ 1 \in DOMAIN s
      /\ \A k \in DOMAIN Tail(s) :
           k \in Nat \ {0} /\ k + 1 \in DOMAIN s /\ Tail(s)[k] = s[k + 1]
  BY TakeFacts
<1>2. \A k \in EndsIn(Tail(s)) : k \in Nat \ {0} /\ k + 1 \in EndsIn(s)
  BY <1>1 DEF EndsIn
<1>3. \A j, k \in EndsIn(Tail(s)) : j = k
  <2> SUFFICES ASSUME NEW j \in EndsIn(Tail(s)), NEW k \in EndsIn(Tail(s))
               PROVE  j = k
    OBVIOUS
  <2>1. j + 1 = k + 1
    BY <1>2
  <2>2. QED
    BY <1>2, <2>1
<1>4. Head(s).type = "END" => 1 \in EndsIn(s)
  BY <1>1 DEF EndsIn
<1>5. Head(s).type = "END" => EndsIn(Tail(s)) = {}
  <2> SUFFICES ASSUME Head(s).type = "END", NEW k \in EndsIn(Tail(s)) PROVE FALSE
    OBVIOUS
  <2>1. k + 1 = 1 /\ k \in Nat \ {0}
    BY <1>2, <1>4
  <2>2. QED
    BY <2>1
<1>6. ASSUME EndsIn(Tail(s)) = {}, Head(s).type # "END", NEW k \in EndsIn(s)
      PROVE  FALSE
  <2>1. k \in DOMAIN s /\ s[k].type = "END" /\ k # 1
    BY <1>1, <1>6 DEF EndsIn
  <2>2. k - 1 \in DOMAIN Tail(s) /\ (k - 1) + 1 = k
    BY <2>1, TakeFacts
  <2>3. k - 1 \in EndsIn(Tail(s))
    BY <1>1, <2>1, <2>2 DEF EndsIn
  <2>4. QED
    BY <1>6, <2>3
<1>7. QED
  BY <1>2, <1>3, <1>4, <1>5, <1>6

-----------------------------------------------------------------------------
(* Nobody forgets that the run ends.                                       *)
LEMMA NoticeStays ==
    ASSUME StartInv, NoExit, [Next]_vars, NEW e \in Domains, Ending, ending_notify[e]
    PROVE  Ending' /\ ending_notify'[e]
<1>t. TypeOK
  BY DEF StartInv, EndInv
<1>c. PICK c \in Domains : c = cursor
  BY <1>t DEF TypeOK, ControllerTypeOK
<1>1. CASE UNCHANGED <<phase, ending, ending_notify>>
  BY <1>1 DEF Ending
<1>2. CASE NotifyEnd
  BY <1>2, <1>t DEF NotifyEnd, Turn, Marked, Ending, TypeOK, ControllerTypeOK
<1>3. CASE ServeEnd
  <2>1. /\ phase = "serving" /\ ActionEnd(c, Head(up[c]).status)
        /\ phase' = IF ending' = 0 THEN "returned" ELSE phase
    BY <1>3, <1>c DEF ServeEnd, Serving, Turn
  <2>2. ending # 0
    BY <2>1 DEF Ending
  <2>3. ending_notify' = Marked(ending_notify, c)
    BY <2>1, <2>2 DEF ActionEnd, FirstEnd
  <2>4. QED
    BY <1>t, <2>1, <2>3 DEF Marked, Ending, TypeOK, ControllerTypeOK
<1>4. ASSUME NEW d \in Domains, Accept(d)
      PROVE  Ending' /\ ending_notify'[e]
  BY <1>4 DEF Accept, Ending
<1>5. ~ ServeExit
  <2> SUFFICES ASSUME ServeExit PROVE FALSE
    OBVIOUS
  <2>1. up[c] # <<>> /\ Head(up[c]).type = "SYSCALL" /\ Head(up[c]).call = "EXIT"
    BY <1>c DEF ServeExit, Serving
  <2>2. 1 \in DOMAIN up[c] /\ Head(up[c]) = up[c][1]
    BY <1>t, <2>1, StreamUse, TakeFacts
  <2>3. QED
    BY <1>t, <2>1, <2>2 DEF StartInv, EndInv, StreamInv, ExitFree
<1>6. QED
  BY <1>1, <1>2, <1>3, <1>4, <1>5
  DEF Next, Done, Controller, ControllerServe, Skip, ServeRegistry, ServeQuery,
      ServeBarrier, ServeFile, ServeSbrk, Hangup, controllerVars, Progress, Choice, vars

(* What a step of the controller does to the streams of one domain.        *)
LEMMA ServedLate ==
    ASSUME StartInv, LateInv, NEW e \in Domains, pc'[e] = pc[e],
           Ending /\ ending_notify[e] => Ending' /\ ending_notify'[e],
           up'[e] = up[e] \/ (up[e] # <<>> /\ up'[e] = Tail(up[e])),
           \/ down'[e] = down[e]
           \/ \E m \in Message :
                /\ down'[e] = Append(down[e], m)
                /\ m.type # "END"
                /\ m.type = "SYSCALL" => /\ up[e] # <<>> /\ up'[e] = Tail(up[e])
                                         /\ Head(up[e]).type = "SYSCALL"
    PROVE  EndOnce(e)' /\ CallBound(e)'
<1>1. up[e] \in Seq(Message) /\ down[e] \in Seq(Message)
  BY StreamUse DEF StartInv, EndInv
<1>2. up'[e] \in Seq(Message)
  BY <1>1, TakeFacts
<1>3. /\ CallCount(up[e]) \in Nat /\ CallCount(down[e]) \in Nat
      /\ CallCount(up'[e]) \in Nat /\ CallCount(up'[e]) <= CallCount(up[e])
  BY <1>1, <1>2, CallsFinite, CallsTaken
<1>4. EndsIn(down'[e]) = EndsIn(down[e])
  BY <1>1, EndsAdded
<1>5. EndOnce(e) /\ CallBound(e)
  BY DEF LateInv
<1>6. EndOnce(e)'
  BY <1>4, <1>5 DEF EndOnce, EndsIn
<1>7. Taken(e) => Taken(e)'
  BY <1>4 DEF Taken, EndsIn
<1>8. Calling(e)' <=> Calling(e)
  BY DEF Calling
<1>9. /\ CallCount(down'[e]) \in Nat
      /\ CallCount(up'[e]) + CallCount(down'[e]) <= CallCount(up[e]) + CallCount(down[e])
  <2>1. CASE down'[e] = down[e]
    BY <1>3, <2>1
  <2>2. ASSUME NEW m \in Message, down'[e] = Append(down[e], m), m.type # "SYSCALL"
        PROVE  CallCount(down'[e]) = CallCount(down[e])
    BY <1>1, <1>3, <2>2, CallsAdded
  <2>3. ASSUME NEW m \in Message, down'[e] = Append(down[e], m), m.type = "SYSCALL",
               up[e] # <<>>, up'[e] = Tail(up[e]), Head(up[e]).type = "SYSCALL"
        PROVE  /\ CallCount(down'[e]) = CallCount(down[e]) + 1
               /\ CallCount(up'[e]) <= CallCount(up[e]) - 1
    BY <1>1, <2>3, CallsAdded, CallsTaken
  <2>4. QED
    BY <1>3, <2>1, <2>2, <2>3
<1>10. (CallCount(up[e]))' = CallCount(up'[e]) /\ (CallCount(down[e]))' = CallCount(down'[e])
  BY DEF CallCount, CallsIn
<1>11. QED
  BY <1>3, <1>5, <1>6, <1>7, <1>8, <1>9, <1>10 DEF CallBound

LEMMA ControllerLate ==
    ASSUME StartInv, LateInv, NoExit, Controller
    PROVE  LateInv'
<1>t. TypeOK /\ [Next]_vars /\ UNCHANGED pc
  BY DEF StartInv, EndInv, Next, Controller, clientVars
<1>c. PICK c \in Domains : c = cursor
  BY <1>t DEF TypeOK, ControllerTypeOK
<1>n. \A e \in Domains : Ending /\ ending_notify[e] => Ending' /\ ending_notify'[e]
  BY <1>t, NoticeStays
<1>k. \A e \in Domains : up[e] \in Seq(Message) /\ down[e] \in Seq(Message)
  BY <1>t, StreamUse
<1>1. ASSUME NotifyEnd, NEW e \in Domains
      PROVE  EndOnce(e)' /\ CallBound(e)'
  <2> DEFINE m == End(ending_status)
  <2>1. /\ up' = up /\ ending # 0 /\ ~ ending_notify[c] /\ down' = Sent(down, c, m)
        /\ ending' = ending /\ ending_notify' = Marked(ending_notify, c)
    BY <1>1, <1>c DEF NotifyEnd
  <2>2. m \in Message /\ m.type = "END"
    BY <1>t, MessageTypes DEF TypeOK, ControllerTypeOK, End
  <2> HIDE DEF m
  <2>3. CASE e # c
    <3>1. down'[e] = down[e]
      BY <1>t, <2>1, <2>3 DEF Sent, TypeOK, ChannelTypeOK
    <3>2. QED
      BY <1>t, <1>n, <2>1, <3>1, ServedLate
  <2>4. CASE e = c
    <3>1. down'[c] = Append(down[c], m) /\ Ending' /\ ending_notify'[c]
      BY <1>t, <2>1
      DEF Sent, Marked, Ending, TypeOK, ChannelTypeOK, ControllerTypeOK
    <3>2. EndsIn(down[c]) = {}
      BY <2>1 DEF LateInv, EndOnce
    <3>3. EndsIn(down'[c]) = {Len(down[c]) + 1}
      BY <1>k, <2>2, <3>1, <3>2, EndsAdded
    <3>4. EndOnce(c)'
      BY <3>1, <3>3 DEF EndOnce, EndsIn
    <3>5. CallCount(down'[c]) = CallCount(down[c]) + 0
      BY <1>k, <2>2, <3>1, CallsAdded
    <3>6. CallCount(down[c]) \in Nat /\ CallCount(up[c]) \in Nat
      BY <1>k, CallsFinite
    <3>7. ~ Taken(c) /\ (Calling(c)' <=> Calling(c))
      BY <1>t, <2>1 DEF Taken, Calling
    <3>8. (CallCount(up[c]))' = CallCount(up[c]) /\ (CallCount(down[c]))' = CallCount(down'[c])
      BY <2>1 DEF CallCount, CallsIn
    <3>9. CallBound(c)'
      BY <3>5, <3>6, <3>7, <3>8 DEF LateInv, CallBound
    <3>10. QED
      BY <2>4, <3>4, <3>9
  <2>5. QED
    BY <2>3, <2>4
<1>2. ASSUME NEW d \in Domains, up[d] # <<>>, up' = Received(up, d),
             \/ down' = down \/ down' = Released(d)
             \/ \E m \in Message :
                  /\ down' = Sent(down, d, m)
                  /\ m.type # "END"
                  /\ m.type = "SYSCALL" => Head(up[d]).type = "SYSCALL"
      PROVE  LateInv'
  <2>1. \A e \in Domains : up'[e] = IF e = d THEN Tail(up[d]) ELSE up[e]
    BY <1>t, <1>2 DEF Received, TypeOK, ChannelTypeOK
  <2>2. ASSUME NEW e \in Domains
        PROVE  \/ down'[e] = down[e]
               \/ \E m \in Message :
                    /\ down'[e] = Append(down[e], m)
                    /\ m.type # "END"
                    /\ m.type = "SYSCALL" => e = d /\ Head(up[d]).type = "SYSCALL"
    <3>1. CASE down' = down
      BY <3>1
    <3>2. CASE down' = Released(d)
      BY <3>2, MessageTypes DEF Released, Barrier
    <3>3. ASSUME NEW m \in Message, down' = Sent(down, d, m), m.type # "END",
                 m.type = "SYSCALL" => Head(up[d]).type = "SYSCALL"
          PROVE  down'[e] = down[e] \/ (e = d /\ down'[e] = Append(down[e], m))
      BY <1>t, <3>3 DEF Sent, TypeOK, ChannelTypeOK
    <3>4. QED
      BY <1>2, <3>1, <3>2, <3>3
  <2>3. ASSUME NEW e \in Domains
        PROVE  EndOnce(e)' /\ CallBound(e)'
    BY <1>2, <1>n, <1>t, <2>1, <2>2, ServedLate
  <2>4. QED
    BY <2>3 DEF LateInv
<1>3. ASSUME NEW d \in Domains, Accept(d)
      PROVE  LateInv'
  <2>1. DomainRegistry \in Message /\ DomainRegistry.type = "DOMAIN_REGISTRY"
    BY MessageTypes DEF DomainRegistry
  <2>2. QED
    BY <1>2, <1>3, <2>1 DEF Accept
<1>4. CASE ServeEnd \/ ServeRegistry \/ ServeBarrier
  BY <1>2, <1>4, <1>c DEF ServeEnd, ServeRegistry, ServeBarrier, Serving
<1>5. CASE ServeQuery
  <2>1. PICK s : s = Head(up[c]).socketname
    OBVIOUS
  <2>2. /\ up[c] # <<>> /\ Head(up[c]).type = "TARGET_SOCKET_QUERY"
        /\ up' = Received(up, c) /\ down' = Sent(down, c, Query(s, targets[s]))
    BY <1>5, <1>c, <2>1 DEF ServeQuery, Serving
  <2>3. s \in Socket /\ targets[s] \in Address
    <3>1. Head(up[c]) \in Message
      BY <1>k, <2>2, TakeFacts
    <3>2. QED
      BY <1>t, <2>1, <2>2, <3>1, MessageFields DEF TypeOK, ControllerTypeOK
  <2>4. Query(s, targets[s]) \in Message
        /\ Query(s, targets[s]).type = "TARGET_SOCKET_QUERY"
    BY <2>3, MessageTypes DEF Query
  <2>5. QED
    BY <1>2, <2>2, <2>4
<1>6. CASE ServeFile \/ ServeSbrk
  <2>1. up[c] # <<>> /\ Head(up[c]).type = "SYSCALL" /\ up' = Received(up, c)
    BY <1>6, <1>c DEF ServeFile, ServeSbrk, Serving
  <2>2. PICK m \in Message : m.type = "SYSCALL" /\ down' = Sent(down, c, m)
    <3>1. Head(up[c]) \in Message
      BY <1>k, <2>1, TakeFacts
    <3>2. [Head(up[c]) EXCEPT !.value = heap_sbrk] \in Message
      BY <1>t, <2>1, <3>1, MessageFields DEF TypeOK, ControllerTypeOK
    <3>3. [Head(up[c]) EXCEPT !.value = heap_sbrk].type = "SYSCALL"
      BY <2>1, <3>1 DEF Message
    <3>4. QED
      BY <1>6, <1>c, <2>1, <3>1, <3>2, <3>3 DEF ServeFile, ServeSbrk
  <2>3. QED
    BY <1>2, <2>1, <2>2
<1>7. CASE Skip \/ Hangup
  <2>1. up' = up /\ down' = down
    BY <1>7 DEF Skip, Hangup, channelVars
  <2>2. QED
    BY <1>n, <1>t, <2>1, ServedLate DEF LateInv
<1>8. ~ ServeExit
  <2> SUFFICES ASSUME ServeExit PROVE FALSE
    OBVIOUS
  <2>1. up[c] # <<>> /\ Head(up[c]).type = "SYSCALL" /\ Head(up[c]).call = "EXIT"
    BY <1>c DEF ServeExit, Serving
  <2>2. 1 \in DOMAIN up[c] /\ Head(up[c]) = up[c][1]
    BY <1>k, <2>1, TakeFacts
  <2>3. QED
    BY <1>t, <2>1, <2>2 DEF StartInv, EndInv, StreamInv, ExitFree
<1>9. QED
  BY <1>1, <1>3, <1>4, <1>5, <1>6, <1>7, <1>8 DEF Controller, ControllerServe, LateInv

(* The steps of a domain, by what they do to its own streams.              *)
LEMMA StillLate ==
    ASSUME LateInv, NEW e \in Domains, up'[e] = up[e], down'[e] = down[e],
           UNCHANGED <<phase, ending, ending_notify>>, Calling(e)' <=> Calling(e)
    PROVE  EndOnce(e)' /\ CallBound(e)'
<1>1. /\ (EndsIn(down[e]))' = EndsIn(down[e]) /\ (Ending' <=> Ending)
      /\ (CallCount(up[e]))' = CallCount(up[e])
      /\ (CallCount(down[e]))' = CallCount(down[e])
  BY DEF EndsIn, Ending, CallCount, CallsIn
<1>2. Taken(e)' <=> Taken(e)
  BY <1>1 DEF Taken
<1>3. QED
  BY <1>1, <1>2 DEF LateInv, EndOnce, CallBound

LEMMA SentLate ==
    ASSUME StartInv, LateInv, NEW d \in Domains, NEW m \in Message,
           up'[d] = Append(up[d], m), down'[d] = down[d],
           UNCHANGED <<phase, ending, ending_notify>>,
           IF m.type = "SYSCALL" THEN ~ Calling(d) /\ Calling(d)'
                                 ELSE Calling(d)' <=> Calling(d)
    PROVE  EndOnce(d)' /\ CallBound(d)'
<1>1. up[d] \in Seq(Message) /\ down[d] \in Seq(Message)
  BY StreamUse DEF StartInv, EndInv
<1>2. CallCount(up[d]) \in Nat /\ CallCount(down[d]) \in Nat
  BY <1>1, CallsFinite
<1>3. CallCount(up'[d]) = CallCount(up[d]) + (IF m.type = "SYSCALL" THEN 1 ELSE 0)
  BY <1>1, CallsAdded
<1>4. EndOnce(d) /\ CallBound(d)
  BY DEF LateInv
<1>5. EndOnce(d)' /\ (Taken(d)' <=> Taken(d))
  BY <1>4 DEF EndOnce, EndsIn, Taken, Ending
<1>6. (CallCount(up[d]))' = CallCount(up'[d]) /\ (CallCount(down[d]))' = CallCount(down[d])
  BY DEF CallCount, CallsIn
<1>7. QED
  BY <1>2, <1>3, <1>4, <1>5, <1>6 DEF CallBound

LEMMA TakenLate ==
    ASSUME StartInv, LateInv, NEW d \in Domains, Receive(d),
           UNCHANGED <<phase, ending, ending_notify>>,
           \/ Calling(d)' <=> Calling(d)
           \/ Calling(d) /\ ~ Calling(d)' /\ Head(down[d]).type \in {"SYSCALL", "END"}
    PROVE  EndOnce(d)' /\ CallBound(d)'
<1>1. /\ up[d] \in Seq(Message) /\ down[d] \in Seq(Message) /\ down[d] # <<>>
      /\ down'[d] = Tail(down[d]) /\ up' = up
  BY StreamUse, ReceiveEffect DEF StartInv, EndInv
<1>2. Tail(down[d]) \in Seq(Message)
  BY <1>1, TakeFacts
<1>3. /\ CallCount(up[d]) \in Nat /\ CallCount(down[d]) \in Nat
      /\ CallCount(Tail(down[d])) \in Nat
  BY <1>1, <1>2, CallsFinite
<1>4. /\ CallCount(Tail(down[d])) <= CallCount(down[d])
      /\ Head(down[d]).type = "SYSCALL" =>
           CallCount(Tail(down[d])) <= CallCount(down[d]) - 1
  BY <1>1, CallsTaken
<1>5. EndOnce(d) /\ CallBound(d)
  BY DEF LateInv
<1>6. /\ \A j, k \in EndsIn(Tail(down[d])) : j = k
      /\ EndsIn(Tail(down[d])) # {} => EndsIn(down[d]) # {}
      /\ Head(down[d]).type = "END" => EndsIn(Tail(down[d])) = {} /\ EndsIn(down[d]) # {}
  BY <1>1, <1>5, EndsTaken DEF EndOnce
<1>7. (EndsIn(down[d]))' = EndsIn(Tail(down[d])) /\ (Ending' <=> Ending)
  BY <1>1 DEF EndsIn, Ending
<1>8. EndOnce(d)'
  BY <1>5, <1>6, <1>7 DEF EndOnce
<1>9. /\ Taken(d) => Taken(d)'
      /\ Head(down[d]).type = "END" => ~ Taken(d) /\ Taken(d)'
  BY <1>5, <1>6, <1>7 DEF EndOnce, Taken
<1>10. /\ (CallCount(up[d]))' = CallCount(up[d])
       /\ (CallCount(down[d]))' = CallCount(Tail(down[d]))
  BY <1>1 DEF CallCount, CallsIn
<1>11. CASE Calling(d)' <=> Calling(d)
  BY <1>3, <1>4, <1>5, <1>8, <1>9, <1>10, <1>11 DEF CallBound
<1>12. CASE Calling(d) /\ ~ Calling(d)' /\ Head(down[d]).type = "SYSCALL"
  BY <1>3, <1>4, <1>5, <1>8, <1>9, <1>10, <1>12 DEF CallBound
<1>13. CASE Calling(d) /\ ~ Calling(d)' /\ Head(down[d]).type = "END"
  BY <1>3, <1>4, <1>5, <1>8, <1>9, <1>10, <1>13 DEF CallBound
<1>14. QED
  BY <1>11, <1>12, <1>13

(* The message that ends a call is the answer, or the END in its place.    *)
LEMMA AnswerHead ==
    ASSUME StartInv, NEW d \in Domains, Calling(d), down[d] # <<>>
    PROVE  /\ Head(down[d]).type \in {"SYSCALL", "END"}
           /\ pc[d] = "waitSetupCall" =>
                up[d] = <<>> /\ Len(down[d]) = 1 /\ Head(down[d]).type = "SYSCALL"
<1>1. down[d] \in Seq(Message) /\ Session(d)
  BY StreamUse DEF StartInv, EndInv, Sessions
<1>2. 1 \in DOMAIN down[d] /\ Head(down[d]) = down[d][1]
  BY <1>1, TakeFacts
<1>3. CASE pc[d] = "waitSetupCall"
  <2>1. Replied(d) /\ Topic(pc[d]) = "SYSCALL"
    BY <1>1, <1>3 DEF Session, Asking, AtBarrier, Started, Requested, Arrived, Topic
  <2>2. QED
    BY <1>2, <1>3, <2>1 DEF Replied
<1>4. CASE pc[d] = "waitRunCall"
  BY <1>1, <1>2, <1>4 DEF Session, Asking, AtBarrier, Started, Launched
<1>5. QED
  BY <1>3, <1>4 DEF Calling

(* What a call of d sends.                                                 *)
LEMMA CallSent ==
    ASSUME TypeOK, NEW d \in Domains, NEW call \in SetupCalls[d] \cup RunCalls[d],
           Request(d, call)
    PROVE  \E m \in Message : /\ Send(d, m) /\ m.type = "SYSCALL" /\ m.call = call
                              /\ pending' = [pending EXCEPT ![d] = m]
<1>1. call \in Calls
  BY UseAssumption
<1>2. calls'[d] \in Nat
  BY <1>1, RequestType, UseAssumption
<1>3. PICK value \in Int :
        /\ Send(d, Syscall(call, calls'[d], value))
        /\ pending' = [pending EXCEPT ![d] = Syscall(call, calls'[d], value)]
  BY ArgumentsType DEF Request
<1>4. /\ Syscall(call, calls'[d], value) \in Message
      /\ Syscall(call, calls'[d], value).type = "SYSCALL"
      /\ Syscall(call, calls'[d], value).call = call
  BY <1>1, <1>2, MessageTypes DEF Syscall
<1>5. QED
  BY <1>3, <1>4

LEMMA ClientLate ==
    ASSUME StartInv, NoQuit, LateInv, NEW d \in Domains, Progress(d) \/ Choice(d)
    PROVE  LateInv'
<1>t. TypeOK
  BY DEF StartInv, EndInv
<1>c. UNCHANGED <<phase, ending, ending_notify, linked>>
  <2>1. UNCHANGED <<phase, ending, ending_notify>>
    BY DEF Progress, Choice, controllerVars
  <2>2. linked' = linked
    BY DEF Progress, Choice, ClientProgress, ClientChoice, Connect, GetModules, Start,
           Register, Registered, AskBind, PassBind, Ask, Bind, AskStart, PassStart,
           Answer, Poll, Finish, SetupCall, RunCall, Stop, Fail, Quit, Die, Close,
           Send, Receive, Request, channelVars
  <2>3. QED
    BY <2>1, <2>2
<1>k. ASSUME Only(d), EndOnce(d)', CallBound(d)'
      PROVE  LateInv'
  <2>1. ASSUME NEW e \in Domains \ {d}
        PROVE  EndOnce(e)' /\ CallBound(e)'
    BY <1>c, <1>k, StillLate DEF Only, Calling
  <2>2. QED
    BY <1>k, <2>1 DEF LateInv
<1>s. ASSUME NEW m \in Message, Send(d, m),
             \A e \in Domains \ {d} : pc'[e] = pc[e],
             IF m.type = "SYSCALL" THEN ~ Calling(d) /\ Calling(d)'
                                   ELSE Calling(d)' <=> Calling(d)
      PROVE  LateInv'
  <2>1. up'[d] = Append(up[d], m) /\ down'[d] = down[d] /\ Only(d)
    BY <1>s, <1>t, SendEffect DEF Only
  <2>2. QED
    BY <1>c, <1>k, <1>s, <2>1, SentLate
<1>r. ASSUME Receive(d), \A e \in Domains \ {d} : pc'[e] = pc[e],
             \/ Calling(d)' <=> Calling(d)
             \/ Calling(d) /\ ~ Calling(d)'
      PROVE  LateInv'
  <2>1. Only(d) /\ down[d] # <<>>
    BY <1>r, <1>t, ReceiveEffect DEF Only
  <2>2. Calling(d) => Head(down[d]).type \in {"SYSCALL", "END"}
    BY <2>1, AnswerHead
  <2>3. QED
    BY <1>c, <1>k, <1>r, <2>1, <2>2, TakenLate
<1>q. ASSUME UNCHANGED channelVars, \A e \in Domains \ {d} : pc'[e] = pc[e],
             Calling(d)' <=> Calling(d)
      PROVE  LateInv'
  <2>1. Only(d)
    BY <1>q DEF Only, channelVars
  <2>2. up' = up /\ down' = down
    BY <1>q DEF channelVars
  <2>3. QED
    BY <1>c, <1>k, <1>q, <2>1, <2>2, StillLate
<1>1. CASE Connect(d)
  <2>1. DomainRegistry \in Message /\ DomainRegistry.type # "SYSCALL"
    BY MessageTypes DEF DomainRegistry
  <2>2. QED
    BY <1>1, <1>s, <1>t, <2>1, GotoEffect DEF Connect, Calling
<1>2. CASE AskBind(d) \/ AskStart(d)
  <2>1. Barrier \in Message /\ Barrier.type # "SYSCALL"
    BY MessageTypes DEF Barrier
  <2>2. QED
    BY <1>2, <1>s, <1>t, <2>1, GotoEffect DEF AskBind, AskStart, Calling
<1>3. CASE Finish(d) \/ Fail(d)
  <2>1. \A status \in Int : End(status) \in Message /\ End(status).type # "SYSCALL"
    BY MessageTypes DEF End, Status
  <2>2. QED
    BY <1>3, <1>s, <1>t, <2>1, GotoEffect DEF Finish, Fail, Calling
<1>4. CASE Register(d)
  <2>1. PICK m \in Message : Send(d, m) /\ m.type = "TARGET_SOCKET_REGISTRY"
    <3>1. First(Unregistered(d)) \in Socket
      BY <1>4, FirstType DEF Register, Unregistered, Exported
    <3>2. remotes[d] \in Seq(Socket) /\ Port(d) \in Nat
      BY <1>t DEF TypeOK, ClientTypeOK, Port
    <3>3. Registry(First(Unregistered(d)), [domain |-> d, port |-> Port(d)]) \in Message
      BY <3>1, <3>2, MessageTypes DEF Domains, Address
    <3>4. QED
      BY <1>4, <3>3 DEF Register, Registry
  <2>2. QED
    BY <1>4, <1>s, <2>1 DEF Register, Calling
<1>5. CASE Ask(d)
  <2>1. PICK m \in Message : Send(d, m) /\ m.type = "TARGET_SOCKET_QUERY"
    <3>1. First(Unbound(d)) \in Socket
      BY <1>5, FirstType DEF Ask, Unbound, Imported
    <3>2. Query(First(Unbound(d)), NoAddress) \in Message
      BY <3>1, MessageTypes DEF NoAddress, Address
    <3>3. QED
      BY <1>5, <3>2 DEF Ask, Query
  <2>2. QED
    BY <1>5, <1>s, <1>t, <2>1, GotoEffect DEF Ask, Calling
<1>6. CASE SetupCall(d) \/ RunCall(d)
  <2>1. PICK call \in SetupCalls[d] \cup RunCalls[d] : Request(d, call)
    BY <1>6 DEF SetupCall, RunCall
  <2>2. PICK m \in Message : Send(d, m) /\ m.type = "SYSCALL"
    BY <1>t, <2>1, CallSent
  <2>3. QED
    BY <1>6, <1>s, <1>t, <2>2, GotoEffect DEF SetupCall, RunCall, Calling
<1>7. CASE \/ GetModules(d) \/ PassBind(d) \/ Bind(d) \/ PassStart(d) \/ Poll(d)
           \/ Answer(d)
  BY <1>7, <1>r, <1>t, GotoEffect
  DEF GetModules, PassBind, Bind, PassStart, Poll, Answer, Calling
<1>8. CASE Start(d) \/ Registered(d) \/ Stop(d) \/ Close(d)
  BY <1>8, <1>q, <1>t, GotoEffect DEF Start, Registered, Stop, Close, Calling
<1>9. ~ Quit(d)
  BY DEF Quit, NoQuit
<1>10. ~ Die(d)
  <2> SUFFICES ASSUME Die(d) PROVE FALSE
    OBVIOUS
  <2>1. Ended(d)
    BY DEF Die, StartInv, HangsUpLast, EndInv, Counted
  <2>2. QED
    BY <2>1 DEF Die, Ended, Waiting
<1>11. QED
  BY <1>1, <1>2, <1>3, <1>4, <1>5, <1>6, <1>7, <1>8, <1>9, <1>10
  DEF Progress, Choice, ClientProgress, ClientChoice

LEMMA LateInitially == Init => LateInv
<1> SUFFICES ASSUME Init, NEW d \in Domains PROVE EndOnce(d) /\ CallBound(d)
  BY DEF LateInv
<1>1. up[d] = <<>> /\ down[d] = <<>>
  BY DEF Init, ChannelInit
<1>2. EndsIn(down[d]) = {} /\ CallCount(up[d]) = 0 /\ CallCount(down[d]) = 0
  BY <1>1, FS_EmptySet DEF EndsIn, CallsIn, CallCount
<1>3. QED
  BY <1>2 DEF EndOnce, CallBound

LEMMA LateStep ==
    ASSUME NoExit, NoQuit, StartInv, LateInv, [Next]_vars
    PROVE  LateInv'
<1>1. ASSUME NEW d \in Domains, Progress(d) \/ Choice(d)
      PROVE  LateInv'
  BY <1>1, ClientLate
<1>2. CASE UNCHANGED vars
  BY <1>2, StillLate DEF vars, channelVars, controllerVars, clientVars, LateInv, Calling
<1>3. QED
  BY <1>1, <1>2, ControllerLate DEF Next, Done

(* If every domain starts and none calls EXIT, what is under way between   *)
(* any domain and the controller is the one call the domain blocks in, and *)
(* once the run ends at most one answer that END overtook.                 *)
THEOREM AnswersAtMostOneLateCorrect ==
    ASSUME NoExit, NoQuit PROVE Spec => []AnswersAtMostOneLate
<1>1. ASSUME StartInv, LateInv PROVE AnswersAtMostOneLate
  <2> SUFFICES ASSUME NEW d \in Domains
               PROVE  Outstanding(d) <=
                        (IF Calling(d) THEN 1 ELSE 0)
                        + (IF NobodyEnded THEN 0 ELSE 1)
    BY DEF AnswersAtMostOneLate
  <2>1. Outstanding(d) = CallCount(up[d]) + CallCount(down[d])
    BY DEF Outstanding, CallCount, CallsIn
  <2>2. CallCount(up[d]) \in Nat /\ CallCount(down[d]) \in Nat
    BY <1>1, CallsFinite, StreamUse DEF StartInv, EndInv
  <2>3. Taken(d) => ~ NobodyEnded
    BY DEF Taken, Ending, NobodyEnded
  <2>4. QED
    BY <1>1, <2>1, <2>2, <2>3 DEF LateInv, CallBound
<1>2. LateInv /\ StartInv /\ [Next]_vars => LateInv'
  BY LateStep
<1>3. QED
  BY <1>1, <1>2, LateInitially, StartInvariant, PTL DEF Spec

-----------------------------------------------------------------------------
(* The calls under way while nobody has ended.                             *)
LEMMA EndedStays ==
    ASSUME StartInv, NoExit, [Next]_vars, NobodyEnded'
    PROVE  NobodyEnded
<1>t. TypeOK
  BY DEF StartInv, EndInv
<1>c. PICK c \in Domains : c = cursor
  BY <1>t DEF TypeOK, ControllerTypeOK
<1>1. CASE UNCHANGED <<phase, ending>>
  BY <1>1 DEF NobodyEnded
<1>2. CASE ServeEnd
  <2>1. /\ phase = "serving"
        /\ ActionEnd(c, Head(up[c]).status)
        /\ phase' = IF ending' = 0 THEN "returned" ELSE phase
    BY <1>2, <1>c DEF ServeEnd, Serving, Turn
  <2>2. QED
    BY <2>1 DEF NobodyEnded
<1>3. ASSUME NEW d \in Domains, Accept(d)
      PROVE  NobodyEnded
  BY <1>3 DEF Accept, NobodyEnded
<1>4. ~ ServeExit
  <2> SUFFICES ASSUME ServeExit PROVE FALSE
    OBVIOUS
  <2>1. up[c] # <<>> /\ Head(up[c]).type = "SYSCALL" /\ Head(up[c]).call = "EXIT"
    BY <1>c DEF ServeExit, Serving
  <2>2. 1 \in DOMAIN up[c] /\ Head(up[c]) = up[c][1]
    BY <1>t, <2>1, StreamUse, TakeFacts
  <2>3. QED
    BY <1>t, <2>1, <2>2 DEF StartInv, EndInv, StreamInv, ExitFree
<1>5. QED
  BY <1>1, <1>2, <1>3, <1>4
  DEF Next, Done, Controller, ControllerServe, NotifyEnd, Skip, ServeRegistry,
      ServeQuery, ServeBarrier, ServeFile, ServeSbrk, Hangup, controllerVars, Progress,
      Choice, vars

(* A stream of calls alone has as many of them as messages.                *)
LEMMA CallsCounted ==
    ASSUME NEW s \in Seq(Message), \A k \in DOMAIN s : s[k].type = "SYSCALL"
    PROVE  CallCount(s) = Len(s) /\ Len(s) \in Nat /\ (s = <<>> <=> Len(s) = 0)
<1>1. DOMAIN s = 1 .. Len(s) /\ Len(s) \in Nat /\ (s = <<>> <=> Len(s) = 0)
  BY LenProperties, EmptySeq
<1>2. CallsIn(s) = 1 .. Len(s)
  BY <1>1 DEF CallsIn
<1>3. PICK n \in Nat : n = Len(s)
  BY <1>1
<1>4. Cardinality(1 .. n) = IF 1 > n THEN 0 ELSE (n - 1) + 1
  BY FS_Interval
<1>5. Cardinality(1 .. n) = n
  BY <1>4
<1>6. QED
  BY <1>1, <1>2, <1>3, <1>5 DEF CallCount

LEMMA RunningStreams ==
    ASSUME StartInv, LateInv, NobodyEnded, NEW d \in Domains, Running(d)
    PROVE  /\ \A k \in DOMAIN up[d] : up[d][k].type = "SYSCALL"
           /\ \A k \in DOMAIN down[d] : down[d][k].type = "SYSCALL"
           /\ ~ Calling(d) => up[d] = <<>> /\ down[d] = <<>>
           /\ down[d] # <<>> => up[d] = <<>>
           /\ up[d] # <<>> => Len(up[d]) = 1
<1>1. up[d] \in Seq(Message) /\ down[d] \in Seq(Message) /\ Session(d)
  BY StreamUse DEF StartInv, EndInv, Sessions
<1>2. Launched(d)
  BY <1>1 DEF Running, Session, Asking, AtBarrier
<1>3. \A k \in DOMAIN up[d] : up[d][k].type = "SYSCALL"
  BY <1>2 DEF Launched, StartInv, EndInv, StreamInv, EndClosesStream, Ended, Running
<1>4. \A k \in DOMAIN down[d] : down[d][k].type = "SYSCALL"
  BY <1>2 DEF Launched, LateInv, EndOnce, EndsIn, Ending, NobodyEnded
<1>5. CallCount(up[d]) = Len(up[d]) /\ CallCount(down[d]) = Len(down[d])
  BY <1>1, <1>3, <1>4, CallsCounted
<1>6. ~ Taken(d)
  BY DEF Taken, Ending, NobodyEnded
<1>7. CallBound(d)
  BY DEF LateInv
<1>8. PICK i \in Nat, k \in Nat : i = Len(up[d]) /\ k = Len(down[d])
  BY <1>1, LenProperties
<1>9. i + k <= 1 /\ (~ Calling(d) => i + k <= 0)
  <2> DEFINE x == IF Calling(d) THEN 1 ELSE 0
             y == IF Taken(d) THEN 1 ELSE 0
  <2>1. i + k <= x + y
    BY <1>5, <1>7, <1>8 DEF CallBound
  <2>2. x \in Nat /\ y = 0 /\ x <= 1 /\ (~ Calling(d) => x = 0)
    BY <1>6
  <2> HIDE DEF x, y
  <2>3. QED
    BY <2>1, <2>2
<1>10. /\ up[d] = <<>> <=> i = 0
       /\ down[d] = <<>> <=> k = 0
  BY <1>1, <1>8, EmptySeq
<1>11. /\ ~ Calling(d) => i = 0 /\ k = 0
       /\ k # 0 => i = 0
       /\ i # 0 => i = 1
  BY <1>9
<1>12. QED
  BY <1>3, <1>4, <1>8, <1>10, <1>11

LEMMA CallsAlone == StartInv /\ LateInv => AloneInv
<1> SUFFICES ASSUME StartInv, LateInv, NobodyEnded, NEW d \in Domains
             PROVE  CallAlone(d)
  BY DEF AloneInv
<1>1. /\ up[d] \in Seq(Message) /\ down[d] \in Seq(Message) /\ Session(d)
      /\ pc[d] \in States
  BY StreamUse DEF StartInv, EndInv, Sessions
<1>3. /\ up[d] # <<>> => 1 \in DOMAIN up[d] /\ Head(up[d]) = up[d][1]
      /\ down[d] # <<>> => 1 \in DOMAIN down[d] /\ Head(down[d]) = down[d][1]
  BY <1>1, TakeFacts
<1>4. CASE Running(d)
  <2>1. /\ \A k \in DOMAIN down[d] : down[d][k].type = "SYSCALL"
        /\ ~ Calling(d) => up[d] = <<>> /\ down[d] = <<>>
        /\ down[d] # <<>> => up[d] = <<>>
        /\ up[d] # <<>> => Len(up[d]) = 1
    BY <1>4, RunningStreams
  <2>2. CASE pc[d] = "run"
    <3>1. ~ Calling(d)
      BY <2>2 DEF Calling
    <3>2. QED
      BY <2>1, <2>2, <3>1 DEF CallAlone
  <2>3. CASE pc[d] = "waitRunCall"
    <3>1. Calling(d)
      BY <2>3 DEF Calling
    <3>2. QED
      BY <1>3, <2>1, <2>3, <3>1 DEF CallAlone
  <2>4. QED
    BY <1>4, <2>2, <2>3 DEF Running
<1>5. CASE pc[d] = "waitSetupCall"
  <2>1. down[d] # <<>> => up[d] = <<>> /\ Head(down[d]).type = "SYSCALL"
    BY <1>5, AnswerHead DEF Calling
  <2>2. up[d] # <<>> => Requested(d)
    BY <1>1, <1>5 DEF Session, Asking, AtBarrier, Started, Arrived, Replied
  <2>3. up[d] # <<>> /\ Head(up[d]).type = "SYSCALL" => Len(up[d]) = 1
    BY <1>3, <2>2 DEF Requested
  <2>4. QED
    BY <1>5, <2>1, <2>3 DEF CallAlone, Calling
<1>6. CASE ~ Running(d) /\ pc[d] # "waitSetupCall"
  <2>1. ~ Calling(d) /\ pc[d] # "run"
    BY <1>6 DEF Calling, Running
  <2>2. pc[d] = "setup" => down[d] = <<>>
    BY <1>1 DEF Session, Quiet, Asking, AtBarrier, Started
  <2>3. ~ (up[d] # <<>> /\ Head(up[d]).type = "SYSCALL")
    <3> SUFFICES ASSUME up[d] # <<>>, up[d][1].type = "SYSCALL", 1 \in DOMAIN up[d]
                 PROVE  FALSE
      BY <1>3
    <3>1. ~ Quiet(d)
      BY DEF Quiet
    <3>2. pc[d] \notin Asking
      <4> SUFFICES ASSUME pc[d] \in Asking PROVE FALSE
        OBVIOUS
      <4>1. Requested(d)
        BY <1>1, <3>1 DEF Session, Asking, AtBarrier, Started, Arrived, Replied
      <4>2. Topic(pc[d]) = "SYSCALL"
        BY <4>1 DEF Requested
      <4>3. QED
        BY <1>6, <4>2 DEF Topic, Asking, AtBarrier
    <3>3. Ended(d)
      BY <1>1, <1>6, <3>1, <3>2 DEF Session, Started, Ended, Running
    <3>4. ~ Taken(d) /\ CallBound(d)
      BY DEF Taken, Ending, NobodyEnded, LateInv
    <3>5. /\ IsFiniteSet(CallsIn(up[d])) /\ CallCount(up[d]) \in Nat
          /\ CallCount(down[d]) \in Nat
      BY <1>1, CallsFinite
    <3>6. CallCount(up[d]) = 0
      BY <2>1, <3>4, <3>5 DEF CallBound
    <3>7. CallsIn(up[d]) = {}
      BY <3>5, <3>6, FS_EmptySet DEF CallCount
    <3>8. QED
      BY <3>7 DEF CallsIn
  <2>4. QED
    BY <2>1, <2>2, <2>3 DEF CallAlone
<1>7. QED
  BY <1>4, <1>5, <1>6

-----------------------------------------------------------------------------
(* The heap. A step that grants nothing and gives nothing new.             *)
LEMMA HeapSame ==
    ASSUME Heap, granted' = granted, heap_sbrk' = heap_sbrk,
           \A d \in Domains : Given(d)' => /\ Given(d) /\ pending'[d] = pending[d]
                                           /\ Head(down'[d]) = Head(down[d])
    PROVE  Heap'
<1>1. \A d \in Domains : Given(d)' => Given(d) /\ Returned(d)' = Returned(d)
  BY DEF Returned
<1>2. \A r : Below(r)' <=> Below(r)
  BY DEF Below
<1>3. ASSUME NEW d \in Domains PROVE GrantedBelow(d)'
  BY <1>2 DEF Heap, GrantedBelow, Below
<1>4. ASSUME NEW d \in Domains PROVE GivenFresh(d)'
  BY <1>1 DEF Heap, GivenFresh, Below, Apart
<1>5. AllApart' /\ GivenOnce'
  BY <1>1 DEF Heap, AllApart, GivenOnce, Apart
<1>6. QED
  BY <1>3, <1>4, <1>5 DEF Heap

(* The last message stays the last when the head is taken.                 *)
LEMMA LastStays ==
    ASSUME NEW s \in Seq(Message), s # <<>>, Tail(s) # <<>>
    PROVE  Tail(s)[Len(Tail(s))] = s[Len(s)]
<1>1. Len(s) \in Nat \ {0} /\ Len(Tail(s)) = Len(s) - 1 /\ Len(s) # 1
  BY TakeFacts
<1>2. Len(s) - 1 \in DOMAIN Tail(s) /\ (Len(s) - 1) + 1 = Len(s)
  BY <1>1, TakeFacts
<1>3. QED
  BY <1>1, <1>2, TakeFacts

(* What a step of the controller does to the streams of each domain.       *)
LEMMA ServedStreams ==
    ASSUME StartInv, NoExit, Controller
    PROVE  \A e \in Domains :
             /\ up'[e] = up[e] \/ (up[e] # <<>> /\ up'[e] = Tail(up[e]))
             /\ \/ down'[e] = down[e]
                \/ \E m \in Message : down'[e] = Append(down[e], m) /\ m.type # "SYSCALL"
                \/ e = cursor /\ (ServeFile \/ ServeSbrk)
<1>t. TypeOK
  BY DEF StartInv, EndInv
<1>c. PICK c \in Domains : c = cursor
  BY <1>t DEF TypeOK, ControllerTypeOK
<1>k. ASSUME NEW d \in Domains, up[d] # <<>>, up' = Received(up, d) PROVE
        \A e \in Domains : up'[e] = up[e] \/ (up[e] # <<>> /\ up'[e] = Tail(up[e]))
  BY <1>k, <1>t DEF Received, TypeOK, ChannelTypeOK
<1>s. ASSUME NEW d \in Domains, NEW m \in Message, m.type # "SYSCALL",
             down' = Sent(down, d, m)
      PROVE  \A e \in Domains :
               \/ down'[e] = down[e]
               \/ \E x \in Message : down'[e] = Append(down[e], x) /\ x.type # "SYSCALL"
  BY <1>s, <1>t DEF Sent, TypeOK, ChannelTypeOK
<1>1. CASE NotifyEnd
  <2>1. End(ending_status) \in Message /\ End(ending_status).type # "SYSCALL"
    BY <1>t, MessageTypes DEF TypeOK, ControllerTypeOK, End
  <2>2. up' = up /\ down' = Sent(down, c, End(ending_status))
    BY <1>1, <1>c DEF NotifyEnd
  <2>3. QED
    BY <1>s, <2>1, <2>2
<1>2. ASSUME NEW d \in Domains, Accept(d)
      PROVE  \A e \in Domains :
               /\ up'[e] = up[e] \/ (up[e] # <<>> /\ up'[e] = Tail(up[e]))
               /\ \/ down'[e] = down[e]
                  \/ \E m \in Message :
                       down'[e] = Append(down[e], m) /\ m.type # "SYSCALL"
  <2>1. DomainRegistry \in Message /\ DomainRegistry.type # "SYSCALL"
    BY MessageTypes DEF DomainRegistry
  <2>2. QED
    BY <1>2, <1>k, <1>s, <2>1 DEF Accept
<1>3. CASE ServeEnd \/ ServeRegistry
  BY <1>3, <1>c, <1>k DEF ServeEnd, ServeRegistry, Serving
<1>4. CASE ServeQuery
  <2>1. PICK s : s = Head(up[c]).socketname
    OBVIOUS
  <2>2. /\ up[c] # <<>> /\ Head(up[c]).type = "TARGET_SOCKET_QUERY"
        /\ up' = Received(up, c) /\ down' = Sent(down, c, Query(s, targets[s]))
    BY <1>4, <1>c, <2>1 DEF ServeQuery, Serving
  <2>3. s \in Socket /\ targets[s] \in Address
    <3>1. Head(up[c]) \in Message
      BY <1>t, <2>2, StreamUse, TakeFacts
    <3>2. QED
      BY <1>t, <2>1, <2>2, <3>1, MessageFields DEF TypeOK, ControllerTypeOK
  <2>4. Query(s, targets[s]) \in Message /\ Query(s, targets[s]).type # "SYSCALL"
    BY <2>3, MessageTypes DEF Query
  <2>5. QED
    BY <1>k, <1>s, <2>2, <2>4
<1>5. CASE ServeBarrier
  <2>1. up[c] # <<>> /\ up' = Received(up, c) /\ (down' = down \/ down' = Released(c))
    BY <1>5, <1>c DEF ServeBarrier, Serving
  <2>2. Barrier \in Message /\ Barrier.type # "SYSCALL"
    BY MessageTypes DEF Barrier
  <2>3. QED
    BY <1>k, <2>1, <2>2 DEF Released
<1>6. CASE ServeFile \/ ServeSbrk
  <2>1. /\ up[c] # <<>> /\ up' = Received(up, c)
        /\ \E m : down' = Sent(down, c, m)
    BY <1>6, <1>c DEF ServeFile, ServeSbrk, Serving
  <2>2. \A e \in Domains \ {c} : down'[e] = down[e]
    BY <1>t, <2>1 DEF Sent, TypeOK, ChannelTypeOK
  <2>3. QED
    BY <1>6, <1>c, <1>k, <2>1, <2>2
<1>7. CASE Skip \/ Hangup
  BY <1>7 DEF Skip, Hangup, channelVars
<1>8. ~ ServeExit
  <2> SUFFICES ASSUME ServeExit PROVE FALSE
    OBVIOUS
  <2>1. up[c] # <<>> /\ Head(up[c]).type = "SYSCALL" /\ Head(up[c]).call = "EXIT"
    BY <1>c DEF ServeExit, Serving
  <2>2. 1 \in DOMAIN up[c] /\ Head(up[c]) = up[c][1]
    BY <1>t, <2>1, StreamUse, TakeFacts
  <2>3. QED
    BY <1>t, <2>1, <2>2 DEF StartInv, EndInv, StreamInv, ExitFree
<1>9. QED
  BY <1>1, <1>2, <1>3, <1>4, <1>5, <1>6, <1>7, <1>8 DEF Controller, ControllerServe

(* While nobody has ended, the controller gives d a region only in its     *)
(* answer to the one call that d waits for.                                *)
LEMMA ServedCall ==
    ASSUME StartInv, StartInv', NoExit, AloneInv, AloneInv', Controller,
           NobodyEnded, NobodyEnded', NEW d \in Domains, Given(d)'
    PROVE  \/ Given(d) /\ Head(down'[d]) = Head(down[d])
           \/ d = cursor /\ (ServeFile \/ ServeSbrk) /\ down[d] = <<>>
<1>t. TypeOK /\ TypeOK' /\ UNCHANGED <<pc, pending>>
  BY DEF StartInv, EndInv, Controller, clientVars
<1>1. /\ Sbrking(d) /\ Calling(d) /\ Calling(d)' /\ down'[d] # <<>>
      /\ up[d] \in Seq(Message) /\ down[d] \in Seq(Message)
  BY <1>t, StreamUse DEF Given, Sbrking, Calling
<1>2. CASE down[d] # <<>>
  <2>1. up[d] = <<>>
    BY <1>1, <1>2 DEF AloneInv, CallAlone
  <2>2. ~ (d = cursor /\ (ServeFile \/ ServeSbrk))
    BY <2>1 DEF ServeFile, ServeSbrk, Serving
  <2>3. down'[d] = down[d] \/ \E m \in Message : down'[d] = Append(down[d], m)
    BY <2>2, ServedStreams
  <2>4. ASSUME NEW m \in Message PROVE Head(Append(down[d], m)) = Head(down[d])
    <3>1. /\ Append(down[d], m) \in Seq(Message) /\ Append(down[d], m) # <<>>
          /\ 1 \in DOMAIN down[d] /\ Head(down[d]) = down[d][1]
      BY <1>1, <1>2, AddFacts, TakeFacts
    <3>2. Head(Append(down[d], m)) = Append(down[d], m)[1]
      BY <3>1, TakeFacts
    <3>3. QED
      BY <1>1, <3>1, <3>2, AddFacts
  <2>5. QED
    BY <1>1, <1>2, <2>3, <2>4 DEF Given
<1>3. CASE down[d] = <<>>
  <2>1. Head(down'[d]).type = "SYSCALL"
    BY <1>1 DEF AloneInv, CallAlone
  <2>2. ASSUME NEW m \in Message, down'[d] = Append(down[d], m), m.type # "SYSCALL"
        PROVE  FALSE
    <3>1. Head(down'[d]) = m
      BY <1>3, <2>2
    <3>2. QED
      BY <2>1, <2>2, <3>1
  <2>3. QED
    BY <1>1, <1>3, <2>2, ServedStreams
<1>4. QED
  BY <1>2, <1>3

(* It answers with the break, and moves it by what d asked for.            *)
LEMMA SbrkServed ==
    ASSUME StartInv, AloneInv, NobodyEnded, NEW c \in Domains, c = cursor,
           CallAsked(c), ServeSbrk, UNCHANGED clientVars
    PROVE  /\ Sbrking(c) /\ down[c] = <<>> /\ pending[c].value \in Int
           /\ heap_sbrk' = heap_sbrk + pending[c].value
           /\ Returned(c)' = [base |-> heap_sbrk, size |-> pending[c].value]
<1>t. TypeOK /\ pending' = pending
  BY DEF StartInv, EndInv, clientVars
<1>1. up[c] # <<>> /\ Head(up[c]).type = "SYSCALL" /\ Head(up[c]).call = "SBRK"
  BY DEF ServeSbrk, Serving
<1>2. Calling(c) /\ Len(up[c]) = 1 /\ down[c] = <<>>
  BY <1>1 DEF AloneInv, CallAlone
<1>3. Head(up[c]) = pending[c] /\ pending[c] \in Message
  <2>1. Head(up[c]) \in Message /\ Head(up[c]) = up[c][1]
    BY <1>t, <1>1, StreamUse, TakeFacts
  <2>2. QED
    BY <1>1, <1>2, <2>1 DEF CallAsked
<1>4. pending[c].value \in Int
  BY <1>1, <1>3, MessageFields
<1>5. PICK m : m = [Head(up[c]) EXCEPT !.value = heap_sbrk]
  OBVIOUS
<1>6. m \in Message /\ m.value = heap_sbrk /\ m.type = "SYSCALL"
  BY <1>t, <1>1, <1>3, <1>5, MessageFields
  DEF Message, SyscallMessage, TypeOK, ControllerTypeOK
<1>7. down' = Sent(down, c, m) /\ heap_sbrk' = heap_sbrk + pending[c].value
  BY <1>3, <1>5 DEF ServeSbrk, Break
<1>8. down'[c] = Append(<<>>, m)
  BY <1>2, <1>t, <1>7 DEF Sent, TypeOK, ChannelTypeOK
<1>9. Head(down'[c]) = m
  BY <1>6, <1>8
<1>10. Returned(c)' = [base |-> heap_sbrk, size |-> pending[c].value]
  BY <1>t, <1>6, <1>9 DEF Returned, PointerIn
<1>11. QED
  BY <1>1, <1>2, <1>3, <1>4, <1>7, <1>10 DEF Sbrking

LEMMA ControllerHeap ==
    ASSUME StartInv, StartInv', NoExit, AloneInv, AloneInv', HeapInv, Controller
    PROVE  HeapInv'
<1>t. /\ TypeOK /\ TypeOK' /\ [Next]_vars
      /\ UNCHANGED clientVars /\ UNCHANGED <<pc, pending, granted>>
  BY DEF StartInv, EndInv, Controller, clientVars, Next
<1>a. \A d \in Domains : CallAsked(d)'
  <2> SUFFICES ASSUME NEW d \in Domains PROVE CallAsked(d)'
    OBVIOUS
  <2>1. CallAsked(d) /\ up[d] \in Seq(Message)
    BY <1>t, StreamUse DEF HeapInv
  <2>2. CASE up'[d] = up[d]
    BY <1>t, <2>1, <2>2 DEF CallAsked, Calling
  <2>3. CASE up[d] # <<>> /\ up'[d] = Tail(up[d])
    BY <1>t, <2>1, <2>3, LastStays DEF CallAsked, Calling
  <2>4. QED
    BY <2>2, <2>3, ServedStreams
<1> SUFFICES ASSUME NobodyEnded', NothingGivenBack' PROVE Heap'
  BY <1>a DEF HeapInv
<1>b. NobodyEnded /\ NothingGivenBack /\ Heap
  BY <1>t, EndedStays DEF HeapInv, NothingGivenBack, Sbrking, Calling
<1>c. PICK c \in Domains : c = cursor
  BY <1>t DEF TypeOK, ControllerTypeOK
<1>1. CASE ~ ServeSbrk
  <2>1. heap_sbrk' = heap_sbrk
    BY <1>1 DEF Controller, Accept, ControllerServe, NotifyEnd, Skip, ServeEnd, ServeRegistry,
           ServeQuery, ServeBarrier, ServeFile, ServeExit, Hangup, controllerVars
  <2>2. ASSUME NEW d \in Domains, Given(d)'
        PROVE  Given(d) /\ pending'[d] = pending[d] /\ Head(down'[d]) = Head(down[d])
    <3>1. ~ (d = cursor /\ ServeFile /\ down[d] = <<>>)
      <4> SUFFICES ASSUME d = cursor, ServeFile PROVE FALSE
        OBVIOUS
      <4>1. /\ up[d] # <<>> /\ Head(up[d]).type = "SYSCALL"
            /\ Head(up[d]).call = "FILE"
        BY DEF ServeFile, Serving
      <4>2. Calling(d) /\ Len(up[d]) = 1 /\ CallAsked(d)
        BY <1>b, <4>1 DEF AloneInv, CallAlone, HeapInv
      <4>3. Head(up[d]) = up[d][1]
        BY <1>t, <4>1, StreamUse, TakeFacts
      <4>4. pending[d].call = "FILE"
        BY <4>1, <4>2, <4>3 DEF CallAsked
      <4>5. QED
        BY <1>t, <2>2, <4>4 DEF Given, Sbrking
    <3>2. QED
      BY <1>1, <1>b, <1>t, <2>2, <3>1, ServedCall
  <2>3. QED
    BY <1>b, <1>t, <2>1, <2>2, HeapSame
<1>2. CASE ServeSbrk
  <2> DEFINE n == pending[c].value
             r == [base |-> heap_sbrk, size |-> n]
  <2>1. /\ Sbrking(c) /\ down[c] = <<>> /\ n \in Int
        /\ heap_sbrk' = heap_sbrk + n /\ Returned(c)' = r
    BY <1>2, <1>b, <1>c, <1>t, SbrkServed DEF HeapInv
  <2>2. n >= 0 /\ heap_sbrk \in Int
    BY <1>b, <1>t, <2>1 DEF NothingGivenBack, TypeOK, ControllerTypeOK
  <2>3. r.base = heap_sbrk /\ r.size = n
    OBVIOUS
  <2> HIDE DEF n, r
  <2>4. \A d \in Domains \ {c} :
          Given(d)' => Given(d) /\ Returned(d)' = Returned(d)
    BY <1>b, <1>c, <1>t, ServedCall DEF Returned
  <2>5. ~ Given(c)
    BY <2>1 DEF Given
  <2>6. \A d \in Domains : granted[d] \in Seq(Region) /\ pending[d] \in SyscallMessage
    BY <1>t DEF TypeOK, ClientTypeOK
  <2>7. ASSUME NEW d \in Domains, NEW j \in DOMAIN granted[d]
        PROVE  Below(granted[d][j])' /\ Apart(granted[d][j], r)
    <3>1. granted[d] \in Seq(Region) /\ granted[d][j] \in Region
      BY <2>6
    <3>2. Below(granted[d][j])
      BY <1>b DEF Heap, GrantedBelow
    <3>3. Below(granted[d][j])' <=> granted[d][j].base + granted[d][j].size <= heap_sbrk'
      BY <1>t DEF Below
    <3>4. QED
      BY <2>1, <2>2, <2>3, <3>1, <3>2, <3>3 DEF Below, Apart, Region
  <2>8. ASSUME NEW d \in Domains \ {c}, Given(d)'
        PROVE  Below(Returned(d))' /\ Apart(Returned(d), r) /\ Apart(r, Returned(d))
    <3>1. /\ Given(d) /\ Returned(d)' = Returned(d) /\ Below(Returned(d))
          /\ down[d] # <<>>
      BY <1>b, <2>4, <2>8 DEF Heap, GivenFresh, Given
    <3>2. Returned(d).base \in Int /\ Returned(d).size \in Int
      <4>1. Head(down[d]) \in Message
        BY <1>t, <3>1, StreamUse, TakeFacts
      <4>2. QED
        BY <2>6, <4>1, ReadFields DEF Returned, SyscallMessage
    <3>3. PICK q : q = Returned(d)
      OBVIOUS
    <3>4. Below(Returned(d))' <=> q.base + q.size <= heap_sbrk'
      BY <3>1, <3>3 DEF Below
    <3>5. QED
      BY <2>1, <2>2, <2>3, <3>1, <3>2, <3>3, <3>4 DEF Below, Apart
  <2>9. Below(Returned(c))'
    BY <2>1, <2>2, <2>3 DEF Below
  <2>10. ASSUME NEW d \in Domains PROVE GrantedBelow(d)'
    BY <1>t, <2>7 DEF GrantedBelow
  <2>11. ASSUME NEW d \in Domains PROVE GivenFresh(d)'
    <3>1. CASE d = c
      BY <1>t, <2>1, <2>7, <2>9, <3>1 DEF GivenFresh, Apart
    <3>2. CASE d # c
      BY <1>b, <1>t, <2>4, <2>8, <3>2 DEF GivenFresh, Heap, Apart
    <3>3. QED
      BY <3>1, <3>2
  <2>12. GivenOnce'
    <3> SUFFICES ASSUME NEW d \in Domains, NEW e \in Domains, Given(d)', Given(e)', d # e
                 PROVE  Apart(Returned(d)', Returned(e)')
      BY DEF GivenOnce, Apart
    <3>1. CASE d # c /\ e # c
      BY <1>b, <2>4, <3>1 DEF Heap, GivenOnce
    <3>2. CASE d = c
      BY <2>1, <2>4, <2>8, <3>2
    <3>3. CASE e = c
      BY <2>1, <2>4, <2>8, <3>3
    <3>4. QED
      BY <3>1, <3>2, <3>3
  <2>13. AllApart'
    BY <1>b, <1>t DEF Heap, AllApart, Apart
  <2>14. QED
    BY <2>10, <2>11, <2>12, <2>13 DEF Heap
<1>3. QED
  BY <1>1, <1>2

(* A call of d, and the end of one.                                        *)
LEMMA AskHeap ==
    ASSUME StartInv, NoExit, AloneInv, HeapInv, NEW d \in Domains,
           SetupCall(d) \/ RunCall(d), UNCHANGED controllerVars
    PROVE  HeapInv'
<1>t. TypeOK /\ UNCHANGED <<phase, ending, heap_sbrk>>
  BY DEF StartInv, EndInv, controllerVars
<1>1. PICK call \in SetupCalls[d] \cup RunCalls[d] : Request(d, call)
  BY DEF SetupCall, RunCall
<1>2. PICK m \in Message : Send(d, m) /\ pending' = [pending EXCEPT ![d] = m]
  BY <1>t, <1>1, CallSent
<1>3. /\ up'[d] = Append(up[d], m) /\ down' = down
      /\ \A e \in Domains \ {d} : up'[e] = up[e] /\ pc'[e] = pc[e] /\ pending'[e] = pending[e]
      /\ pending'[d] = m /\ granted' = granted
  BY <1>t, <1>1, <1>2, SendEffect, GotoEffect
  DEF SetupCall, RunCall, Request, TypeOK, ClientTypeOK
<1>4. pc[d] \in {"setup", "run"} /\ ~ Calling(d)
  BY <1>t, GotoEffect DEF SetupCall, RunCall, Calling
<1>5. ASSUME NEW e \in Domains PROVE CallAsked(e)'
  <2>1. CASE e # d
    BY <1>3, <2>1 DEF HeapInv, CallAsked, Calling
  <2>2. CASE e = d
    <3>1. up'[d][Len(up'[d])] = m
      BY <1>3, <1>t, StreamUse, AddFacts
    <3>2. QED
      BY <1>3, <2>2, <3>1 DEF CallAsked
  <2>3. QED
    BY <2>1, <2>2
<1> SUFFICES ASSUME NobodyEnded', NothingGivenBack' PROVE Heap'
  BY <1>5 DEF HeapInv
<1>6. NobodyEnded /\ NothingGivenBack /\ Heap
  <2>1. NobodyEnded
    BY <1>t DEF NobodyEnded
  <2>2. NothingGivenBack
    BY <1>3, <1>4 DEF NothingGivenBack, Sbrking, Calling
  <2>3. QED
    BY <2>1, <2>2 DEF HeapInv
<1>7. ASSUME NEW e \in Domains, Given(e)'
      PROVE  Given(e) /\ pending'[e] = pending[e] /\ Head(down'[e]) = Head(down[e])
  <2>1. CASE e # d
    BY <1>3, <1>7, <2>1 DEF Given, Sbrking, Calling
  <2>2. CASE e = d
    BY <1>3, <1>4, <1>6, <1>7, <2>2 DEF Given, AloneInv, CallAlone
  <2>3. QED
    BY <2>1, <2>2
<1>8. QED
  BY <1>3, <1>6, <1>7, <1>t, HeapSame

LEMMA AnswerHeap ==
    ASSUME StartInv, AloneInv, HeapInv, NEW d \in Domains, Answer(d),
           UNCHANGED controllerVars
    PROVE  HeapInv'
<1>t. TypeOK /\ UNCHANGED <<phase, ending, heap_sbrk>>
  BY DEF StartInv, EndInv, controllerVars
<1>1. /\ Calling(d) /\ ~ Calling(d)'
      /\ \A e \in Domains \ {d} : pc'[e] = pc[e] /\ down'[e] = down[e]
      /\ down[d] # <<>> /\ up' = up /\ pending' = pending
  BY <1>t, GotoEffect, ReceiveEffect DEF Answer, Calling
<1>2. \A e \in Domains : CallAsked(e)'
  BY <1>1 DEF HeapInv, CallAsked, Calling
<1>3. \A e \in Domains :
        Given(e)' => e # d /\ Given(e) /\ Head(down'[e]) = Head(down[e])
  BY <1>1 DEF Given, Sbrking, Calling
<1> SUFFICES ASSUME NobodyEnded', NothingGivenBack' PROVE Heap'
  BY <1>2 DEF HeapInv
<1>4. NobodyEnded
  BY <1>t DEF NobodyEnded
<1>5. CASE pending[d].call # "SBRK"
  <2>1. granted' = granted
    BY <1>5 DEF Answer
  <2>2. NothingGivenBack
    BY <1>1, <1>5, <2>1 DEF NothingGivenBack, Sbrking, Calling
  <2>3. Heap
    BY <1>4, <2>2 DEF HeapInv
  <2>4. QED
    BY <1>1, <1>3, <1>t, <2>1, <2>3, HeapSame
<1>6. CASE pending[d].call = "SBRK"
  <2> DEFINE r == Returned(d)
             last == Len(granted[d]) + 1
  <2>1. Given(d)
    BY <1>1, <1>6 DEF Given, Sbrking
  <2>2. r \in Region /\ r.size = pending[d].value
    <3>1. Head(down[d]) \in Message /\ pending[d] \in SyscallMessage
      BY <1>1, <1>t, StreamUse, TakeFacts DEF TypeOK, ClientTypeOK
    <3>2. QED
      BY <3>1, ReadFields DEF Returned, SyscallMessage, Region
  <2>3. \A e \in Domains : granted[e] \in Seq(Region)
    BY <1>t DEF TypeOK, ClientTypeOK
  <2>4. /\ granted'[d] = Append(granted[d], r)
        /\ \A e \in Domains \ {d} : granted'[e] = granted[e]
    BY <1>6, <1>t DEF Answer, TypeOK, ClientTypeOK
  <2>5. \A e \in Domains : Given(e)' =>
          e # d /\ Given(e) /\ Returned(e)' = Returned(e)
    BY <1>1, <1>3 DEF Returned
  <2> HIDE DEF r
  <2>6. /\ Len(granted[d]) \in Nat /\ DOMAIN granted[d] = 1 .. Len(granted[d])
        /\ DOMAIN granted'[d] = 1 .. (Len(granted[d]) + 1)
        /\ \A j \in DOMAIN granted[d] : granted'[d][j] = granted[d][j]
        /\ granted'[d][last] = r
    <3>1. granted[d] \in Seq(Region)
      BY <2>3
    <3>2. Append(granted[d], r) \in Seq(Region)
      BY <2>2, <3>1
    <3>3. QED
      BY <2>2, <2>4, <3>1, <3>2, AppendProperties, LenProperties
  <2>7. \A e \in Domains : \A j \in DOMAIN granted'[e] :
          \/ e = d /\ j = last /\ granted'[e][j] = r
          \/ j \in DOMAIN granted[e] /\ granted'[e][j] = granted[e][j]
    BY <2>4, <2>6
  <2>8. NothingGivenBack
    <3>1. ASSUME NEW e \in Domains, NEW j \in DOMAIN granted[e]
          PROVE  granted[e][j].size >= 0
      <4>1. j \in DOMAIN granted'[e] /\ granted'[e][j] = granted[e][j]
        BY <2>4, <2>6
      <4>2. QED
        BY <4>1 DEF NothingGivenBack
    <3>2. ASSUME NEW e \in Domains, Sbrking(e) PROVE pending[e].value >= 0
      <4>1. CASE e = d
        <5>1. last \in DOMAIN granted'[d]
          BY <2>6
        <5>2. QED
          BY <2>2, <2>6, <4>1, <5>1 DEF NothingGivenBack
      <4>2. CASE e # d
        BY <1>1, <3>2, <4>2 DEF NothingGivenBack, Sbrking, Calling
      <4>3. QED
        BY <4>1, <4>2
    <3>3. QED
      BY <3>1, <3>2 DEF NothingGivenBack
  <2>9. Heap
    BY <1>4, <2>8 DEF HeapInv
  <2>10. Below(r) /\ \A e \in Domains : \A j \in DOMAIN granted[e] :
                       Apart(granted[e][j], r) /\ Apart(r, granted[e][j])
    BY <2>1, <2>9 DEF Heap, GivenFresh, Apart, r
  <2>11. AllApart'
    <3> SUFFICES ASSUME NEW e \in Domains, NEW f \in Domains,
                        NEW j \in DOMAIN granted'[e], NEW k \in DOMAIN granted'[f],
                        e # f \/ j # k
                 PROVE  Apart(granted'[e][j], granted'[f][k])
      BY DEF AllApart, Apart
    <3>1. CASE j \in DOMAIN granted[e] /\ granted'[e][j] = granted[e][j]
      <4>1. CASE k \in DOMAIN granted[f] /\ granted'[f][k] = granted[f][k]
        BY <2>9, <3>1, <4>1 DEF Heap, AllApart
      <4>2. CASE f = d /\ k = last /\ granted'[f][k] = r
        BY <2>10, <3>1, <4>2
      <4>3. QED
        BY <2>7, <4>1, <4>2
    <3>2. CASE e = d /\ j = last /\ granted'[e][j] = r
      <4>1. k \in DOMAIN granted[f] /\ granted'[f][k] = granted[f][k]
        BY <2>7, <3>2
      <4>2. QED
        BY <2>10, <3>2, <4>1
    <3>3. QED
      BY <2>7, <3>1, <3>2
  <2>12. GivenOnce'
    <3> SUFFICES ASSUME NEW e \in Domains, NEW f \in Domains, Given(e)', Given(f)', e # f
                 PROVE  Apart(Returned(e)', Returned(f)')
      BY DEF GivenOnce, Apart
    <3>1. QED
      BY <2>5, <2>9 DEF Heap, GivenOnce
  <2>13. ASSUME NEW e \in Domains PROVE GrantedBelow(e)'
    <3> SUFFICES ASSUME NEW j \in DOMAIN granted'[e]
                 PROVE  Below(granted'[e][j])
      BY <1>t DEF GrantedBelow, Below
    <3>1. QED
      BY <2>7, <2>9, <2>10 DEF Heap, GrantedBelow
  <2>14. ASSUME NEW e \in Domains PROVE GivenFresh(e)'
    <3> SUFFICES ASSUME Given(e)'
                 PROVE  /\ Below(Returned(e)')
                        /\ \A f \in Domains : \A j \in DOMAIN granted'[f] :
                             Apart(granted'[f][j], Returned(e)')
      BY <1>t DEF GivenFresh, Below, Apart
    <3>1. e # d /\ Given(e) /\ Returned(e)' = Returned(e) /\ Apart(r, Returned(e))
      BY <2>1, <2>5, <2>9 DEF Heap, GivenOnce, r
    <3>2. /\ Below(Returned(e))
          /\ \A f \in Domains : \A j \in DOMAIN granted[f] :
               Apart(granted[f][j], Returned(e))
      BY <2>9, <3>1 DEF Heap, GivenFresh
    <3>3. QED
      BY <2>7, <3>1, <3>2
  <2>15. QED
    BY <2>11, <2>12, <2>13, <2>14 DEF Heap
<1>7. QED
  BY <1>5, <1>6

LEMMA ClientHeap ==
    ASSUME StartInv, NoExit, NoQuit, AloneInv, HeapInv, NEW d \in Domains,
           Progress(d) \/ Choice(d)
    PROVE  HeapInv'
<1>t. TypeOK
  BY DEF StartInv, EndInv
<1>c. UNCHANGED controllerVars /\ UNCHANGED <<phase, ending, heap_sbrk>>
  BY DEF Progress, Choice, controllerVars
<1>1. CASE SetupCall(d) \/ RunCall(d)
  BY <1>1, <1>c, AskHeap
<1>2. CASE Answer(d)
  BY <1>2, <1>c, AnswerHeap
<1>k. ASSUME UNCHANGED <<pending, granted>>, ~ Calling(d), ~ Calling(d)',
             \A e \in Domains \ {d} : /\ pc'[e] = pc[e] /\ up'[e] = up[e]
                                      /\ down'[e] = down[e]
      PROVE  HeapInv'
  <2>1. ASSUME NEW e \in Domains PROVE CallAsked(e)'
    BY <1>k DEF HeapInv, CallAsked, Calling
  <2> SUFFICES ASSUME NobodyEnded', NothingGivenBack' PROVE Heap'
    BY <2>1 DEF HeapInv
  <2>2. NobodyEnded /\ NothingGivenBack
    BY <1>c, <1>k DEF NobodyEnded, NothingGivenBack, Sbrking, Calling
  <2>3. \A e \in Domains : Given(e)' => /\ Given(e) /\ pending'[e] = pending[e]
                                        /\ Head(down'[e]) = Head(down[e])
    BY <1>k DEF Given, Sbrking, Calling
  <2>4. QED
    BY <1>c, <1>k, <2>2, <2>3, HeapSame DEF HeapInv
<1>3. CASE Stop(d) \/ Poll(d) \/ Register(d)
  <2>1. /\ UNCHANGED <<pc, pending, granted>> /\ pc[d] \in {"run", "binding"}
        /\ \A e \in Domains \ {d} : up'[e] = up[e] /\ down'[e] = down[e]
    BY <1>3, <1>t DEF Stop, Poll, Register, channelVars, Receive, Received, Send, Sent,
                      TypeOK, ChannelTypeOK
  <2>2. QED
    BY <1>k, <2>1 DEF Calling
<1>4. CASE \/ Connect(d) \/ GetModules(d) \/ Start(d) \/ Registered(d) \/ AskBind(d)
           \/ PassBind(d) \/ Ask(d) \/ Bind(d) \/ AskStart(d) \/ PassStart(d)
           \/ Finish(d) \/ Fail(d) \/ Close(d)
  <2>1. UNCHANGED <<pending, granted>>
    BY <1>4 DEF Connect, GetModules, Start, Registered, AskBind, PassBind, Ask, Bind,
                AskStart, PassStart, Finish, Fail, Close
  <2>2. /\ ~ Calling(d) /\ ~ Calling(d)'
        /\ \A e \in Domains \ {d} : pc'[e] = pc[e]
    BY <1>4, <1>t, GotoEffect
    DEF Connect, GetModules, Start, Registered, AskBind, PassBind, Ask, Bind, AskStart,
        PassStart, Finish, Fail, Close, Calling
  <2>3. \/ UNCHANGED channelVars \/ Receive(d) \/ \E m : Send(d, m)
    BY <1>4 DEF Connect, GetModules, Start, Registered, AskBind, PassBind, Ask, Bind,
                AskStart, PassStart, Finish, Fail, Close
  <2>4. \A e \in Domains \ {d} : up'[e] = up[e] /\ down'[e] = down[e]
    BY <1>t, <2>3 DEF channelVars, Receive, Received, Send, Sent, TypeOK, ChannelTypeOK
  <2>5. QED
    BY <1>k, <2>1, <2>2, <2>4
<1>5. ~ Quit(d)
  BY DEF Quit, NoQuit
<1>6. ~ Die(d)
  <2> SUFFICES ASSUME Die(d) PROVE FALSE
    OBVIOUS
  <2>1. Ended(d)
    BY DEF Die, StartInv, HangsUpLast, EndInv, Counted
  <2>2. QED
    BY <2>1 DEF Die, Ended, Waiting
<1>7. QED
  BY <1>1, <1>2, <1>3, <1>4, <1>5, <1>6 DEF Progress, Choice, ClientProgress, ClientChoice

LEMMA HeapInitially == Init => HeapInv
<1> SUFFICES ASSUME Init PROVE HeapInv
  OBVIOUS
<1>1. \A d \in Domains : pc[d] = "connect" /\ DOMAIN granted[d] = {}
  BY DEF Init, ClientInit
<1>2. QED
  BY <1>1 DEF HeapInv, Heap, AllApart, GivenOnce, GrantedBelow, GivenFresh, CallAsked,
              Given, Sbrking, Calling

LEMMA HeapStep ==
    ASSUME NoExit, NoQuit, StartInv, StartInv', AloneInv, AloneInv', HeapInv, [Next]_vars
    PROVE  HeapInv'
<1>1. ASSUME NEW d \in Domains, Progress(d) \/ Choice(d)
      PROVE  HeapInv'
  BY <1>1, ClientHeap
<1>2. CASE UNCHANGED vars
  <2>1. UNCHANGED <<pc, up, down, pending, granted, heap_sbrk, ending, phase>>
    BY <1>2 DEF vars, channelVars, controllerVars, clientVars
  <2>2. ASSUME NobodyEnded', NothingGivenBack' PROVE Heap'
    <3>1. NobodyEnded /\ NothingGivenBack
      BY <2>1, <2>2 DEF NobodyEnded, NothingGivenBack, Sbrking, Calling
    <3>2. \A d \in Domains : Given(d)' => Given(d)
      BY <2>1 DEF Given, Sbrking, Calling
    <3>3. QED
      BY <2>1, <3>1, <3>2, HeapSame DEF HeapInv
  <2>3. \A d \in Domains : CallAsked(d)'
    BY <2>1 DEF HeapInv, CallAsked, Calling
  <2>4. QED
    BY <2>2, <2>3 DEF HeapInv
<1>3. QED
  BY <1>1, <1>2, ControllerHeap DEF Next, Done

(* The first END brings the verdict.                                       *)
LEMMA EndDecides == ASSUME CallbacksInOrder, ~ NobodyEnded PROVE Decided
<1> DEFINE verdict == IF ending_status = 0 THEN "success" ELSE "error"
<1>1. fired = <<"before", verdict>>
  BY DEF CallbacksInOrder, NobodyEnded
<1>2. 2 \in DOMAIN <<"before", verdict>> /\ <<"before", verdict>>[2] = verdict
  OBVIOUS
<1>3. verdict \in {"success", "error"}
  OBVIOUS
<1>4. QED
  BY <1>1, <1>2, <1>3 DEF Decided

(* If every domain starts and none calls EXIT, then until the verdict, and *)
(* as long as no domain gives memory back, the regions that sbrk returned  *)
(* to all the domains, before and during the simulation, do not overlap.   *)
THEOREM HeapDisjointCorrect ==
    ASSUME NoExit, NoQuit PROVE Spec => []HeapDisjoint
<1>1. HeapInv /\ CallbacksInOrder => HeapDisjoint
  BY EndDecides DEF HeapInv, Heap, AllApart, HeapDisjoint
<1>2. StartInv /\ LateInv => AloneInv
  BY CallsAlone
<1>3. LateInv /\ StartInv /\ [Next]_vars => LateInv'
  BY LateStep
<1>4. /\ HeapInv /\ StartInv /\ StartInv' /\ AloneInv /\ AloneInv' /\ [Next]_vars
      => HeapInv'
  BY HeapStep
<1>5. QED
  BY <1>1, <1>2, <1>3, <1>4, HeapInitially, LateInitially, StartInvariant,
     CallbacksInOrderCorrect, PTL DEF Spec
=============================================================================
