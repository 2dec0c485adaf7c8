---------------------------- MODULE TlmBridgeProof ----------------------------
(***************************************************************************)
(* Proofs about TlmBridge for every route, also one that comes back to a   *)
(* domain, and for any transactions, payloads and room on the ways.        *)
(***************************************************************************)
EXTENDS TlmBridge, FiniteSetTheorems, SequenceTheorems, TLAPS

Memory == [Pointers -> Payload \cup {NoPayload}]

Letter == [hop : Hops, to : Ends, message : Message]

LEMMA RouteFacts ==
    /\ Len(Route) \in Nat /\ Len(Route) >= 2 /\ DOMAIN Route = 1 .. Len(Route)
    /\ Source \in Domain /\ Sink \in Domain
    /\ \A h \in Hops : /\ h \in Nat \ {0} /\ h + 1 \in Nat
                       /\ Route[h] \in Domain /\ Route[h + 1] \in Domain
                       /\ h + 1 # Len(Route) => h + 1 \in Hops
                       /\ h # 1 => h - 1 \in Hops
    /\ 1 \in Hops /\ Len(Route) - 1 \in Hops
<1>1. Len(Route) \in Nat /\ Len(Route) >= 2 /\ DOMAIN Route = 1 .. Len(Route)
  BY RouteAssumption, LenProperties
<1>2. Source \in Domain /\ Sink \in Domain
  BY <1>1 DEF Source, Sink, Domain
<1>3. ASSUME NEW h \in Hops
      PROVE  /\ h \in Nat \ {0} /\ h + 1 \in Nat
             /\ Route[h] \in Domain /\ Route[h + 1] \in Domain
             /\ h + 1 # Len(Route) => h + 1 \in Hops
             /\ h # 1 => h - 1 \in Hops
  <2>1. h \in DOMAIN Route /\ h + 1 \in DOMAIN Route
    BY <1>1 DEF Hops
  <2>2. QED
    BY <1>1, <2>1 DEF Hops, Domain
<1>4. 1 \in Hops /\ Len(Route) - 1 \in Hops
  BY <1>1 DEF Hops
<1>5. QED
  BY <1>1, <1>2, <1>3, <1>4

(* The values that stand for nothing are none of the others.               *)
LEMMA Nothings ==
    /\ \A s \in Letter : s # NotSending
    /\ \A x \in Payload : x # NoPayload
    /\ \A o \in Owner : o # NoOwner
    /\ \A d, p : [domain |-> d, pointer |-> p] # NoOwner
    /\ \A p : Waiting(p) \notin Data /\ Waiting(p) # NoData
    /\ \A p, q : Waiting(p) = Waiting(q) => p = q
    /\ NoData \notin Data
<1>1. \A s \in Letter : s # NotSending
  BY RouteFacts DEF Letter, NotSending
<1>2. \A x \in Payload : x # NoPayload
  BY DEF Payload, NoPayload
<1>3. \A o \in Owner : o # NoOwner
  BY DEF Owner, NoOwner
<1>4. \A d, p : [domain |-> d, pointer |-> p] # NoOwner
  BY DEF NoOwner
<1>5. \A p : Waiting(p) \notin Data /\ Waiting(p) # NoData
  BY DEF Waiting, Data, NoData
<1>6. \A p, q : Waiting(p) = Waiting(q) => p = q
  BY DEF Waiting
<1>7. NoData \notin Data
  BY DEF Data, NoData
<1>8. QED
  BY <1>1, <1>2, <1>3, <1>4, <1>5, <1>6, <1>7

-----------------------------------------------------------------------------
(* What decode_payload and send_payload do.                                *)
LEMMA DecodeFacts ==
    ASSUME TypeOK, NEW d \in Domain, NEW m \in Message, NEW p \in Places(d, m)
    PROVE  /\ p \in Pointers
           /\ Decoded(d, m, p) \in Memory
           /\ Decoded(d, m, p)[p] \in Payload
           /\ Decoded(d, m, p)[p].masked = m.masked
           /\ Decoded(d, m, p)[p].owner = IF Local(d, m) THEN NoOwner ELSE m.owner
           /\ ~ m.masked => Decoded(d, m, p)[p].data = m.data
           /\ \A q \in Pointers \ {p} : Decoded(d, m, p)[q] = heap[d][q]
           /\ Local(d, m) => p = m.owner.pointer
           /\ ~ Local(d, m) => heap[d][p] = NoPayload
<1>1. m.owner \in Owner /\ m.data \in Data /\ m.masked \in BOOLEAN
  BY DEF Message
<1>2. p \in Pointers /\ (Local(d, m) => p = m.owner.pointer)
      /\ (~ Local(d, m) => heap[d][p] = NoPayload)
  BY <1>1 DEF Places, Owner
<1> DEFINE x == [owner |-> IF Local(d, m) THEN NoOwner ELSE m.owner,
                 data |-> Written(d, m), masked |-> m.masked]
<1>3. Written(d, m) \in Data /\ (~ m.masked => Written(d, m) = m.data)
  BY <1>1 DEF Written, Data
<1>4. x \in Payload
  BY <1>1, <1>3 DEF Payload
<1>5. heap[d] \in Memory
  BY DEF TypeOK, Memory
<1>6. Decoded(d, m, p) = [heap[d] EXCEPT ![p] = x]
  BY DEF Decoded
<1>7. /\ x.owner = (IF Local(d, m) THEN NoOwner ELSE m.owner)
      /\ x.masked = m.masked /\ x.data = Written(d, m)
  OBVIOUS
<1> HIDE DEF x
<1>8. QED
  BY <1>2, <1>3, <1>4, <1>5, <1>6, <1>7 DEF Memory

LEMMA ForwardFacts ==
    ASSUME TypeOK, NEW d \in Domain, NEW memory \in Memory, NEW p \in Pointers,
           memory[p] \in Payload, NEW h \in Hops, NEW e \in Ends,
           Forwarded(d, memory, p, h, e)
    PROVE  /\ Encoded(d, memory, p) \in Message
           /\ Encoded(d, memory, p).owner = EncodedOwner(d, memory, p)
           /\ Encoded(d, memory, p).data = memory[p].data
           /\ Encoded(d, memory, p).masked = memory[p].masked
           /\ sending'[d] = [hop |-> h, to |-> e, message |-> Encoded(d, memory, p)]
           /\ sending'[d] \in Letter
           /\ \A c \in Domain \ {d} : sending'[c] = sending[c] /\ heap'[c] = heap[c]
           /\ heap' \in [Domain -> Memory]
           /\ sending' \in [Domain -> {NotSending} \cup Letter]
           /\ \A q \in Pointers \ {p} : heap'[d][q] = memory[q]
           /\ heap'[d][p] = IF memory[p].owner = NoOwner THEN memory[p] ELSE NoPayload
<1>1. EncodedOwner(d, memory, p) \in Owner
  BY DEF EncodedOwner, Payload, Owner
<1>2. /\ Encoded(d, memory, p) \in Message
      /\ Encoded(d, memory, p).owner = EncodedOwner(d, memory, p)
      /\ Encoded(d, memory, p).data = memory[p].data
      /\ Encoded(d, memory, p).masked = memory[p].masked
  BY <1>1 DEF Encoded, Message, Payload
<1>3. PICK m \in Message : m = Encoded(d, memory, p)
  BY <1>2
<1>4. [hop |-> h, to |-> e, message |-> m] \in Letter
  BY DEF Letter
<1>5. /\ sending' = [sending EXCEPT ![d] = [hop |-> h, to |-> e, message |-> m]]
      /\ sending \in [Domain -> {NotSending} \cup Letter]
  BY <1>3 DEF Forwarded, TypeOK, Letter
<1>6. /\ AfterEncode(memory, p) \in Memory
      /\ \A q \in Pointers \ {p} : AfterEncode(memory, p)[q] = memory[q]
      /\ AfterEncode(memory, p)[p] = IF memory[p].owner = NoOwner THEN memory[p]
                                                                  ELSE NoPayload
  BY DEF AfterEncode, Free, Memory
<1>7. heap' = [heap EXCEPT ![d] = AfterEncode(memory, p)] /\ heap \in [Domain -> Memory]
  BY DEF Forwarded, TypeOK, Memory
<1>8. QED
  BY <1>2, <1>3, <1>4, <1>5, <1>6, <1>7

LEMMA RunType ==
    ASSUME TypeOK, NEW d \in Domain, NEW th, Run(d, th)
    PROVE  /\ sending[d] = NotSending
           /\ ran' \in [Domain -> SUBSET UNION {Threads(c) : c \in Domain}]
           /\ \A c \in Domain : ran'[c] \subseteq Threads(c)
  BY DEF TypeOK, Run

(* The head of a way that is not empty is taken.                           *)
LEMMA TakenFacts ==
    ASSUME TypeOK, NEW h \in Hops, NEW e \in Ends, wire[h][e] # <<>>, Received(h, e)
    PROVE  /\ wire' \in [Hops -> [Ends -> Seq(Message)]]
           /\ \A g \in Hops, f \in Ends : Len(wire'[g][f]) <= Capacity
           /\ Head(wire[h][e]) \in Message
           /\ 1 \in DOMAIN wire[h][e] /\ wire[h][e][1] = Head(wire[h][e])
           /\ \A g \in Hops, f \in Ends :
                <<g, f>> # <<h, e>> => wire'[g][f] = wire[g][f]
           /\ \A k \in DOMAIN wire'[h][e] :
                /\ k \in Nat \ {0} /\ k + 1 \in DOMAIN wire[h][e]
                /\ wire'[h][e][k] = wire[h][e][k + 1]
           /\ \A k \in DOMAIN wire[h][e] :
                k # 1 => k - 1 \in DOMAIN wire'[h][e] /\ k - 1 \in Nat \ {0}
<1>1. wire[h][e] \in Seq(Message) /\ Len(wire[h][e]) <= Capacity
  BY DEF TypeOK
<1>2. /\ Len(wire[h][e]) \in Nat \ {0} /\ DOMAIN wire[h][e] = 1 .. Len(wire[h][e])
  BY <1>1, EmptySeq, LenProperties
<1>3. /\ Head(wire[h][e]) \in Message /\ Tail(wire[h][e]) \in Seq(Message)
      /\ Len(Tail(wire[h][e])) = Len(wire[h][e]) - 1
      /\ DOMAIN Tail(wire[h][e]) = 1 .. (Len(wire[h][e]) - 1)
      /\ \A k \in 1 .. Len(Tail(wire[h][e])) : Tail(wire[h][e])[k] = wire[h][e][k + 1]
  BY <1>1, HeadTailProperties, LenProperties
<1>4. wire[h][e][1] = Head(wire[h][e])
  BY <1>1
<1>5. /\ wire'[h][e] = Tail(wire[h][e])
      /\ \A g \in Hops, f \in Ends : <<g, f>> # <<h, e>> => wire'[g][f] = wire[g][f]
      /\ wire' \in [Hops -> [Ends -> Seq(Message)]]
  BY <1>3 DEF Received, TypeOK
<1>6. ASSUME NEW g \in Hops, NEW f \in Ends PROVE Len(wire'[g][f]) <= Capacity
  <2>1. CASE <<g, f>> # <<h, e>>
    BY <1>5, <2>1 DEF TypeOK
  <2>2. CASE <<g, f>> = <<h, e>>
    <3>1. Len(wire'[g][f]) = Len(wire[h][e]) - 1
      BY <1>3, <1>5, <2>2
    <3>2. QED
      BY <1>1, <1>2, <3>1, CapacityAssumption
  <2>3. QED
    BY <2>1, <2>2
<1>7. \A k \in DOMAIN wire'[h][e] :
        /\ k \in Nat \ {0} /\ k + 1 \in DOMAIN wire[h][e]
        /\ wire'[h][e][k] = wire[h][e][k + 1]
  BY <1>2, <1>3, <1>5
<1>8. \A k \in DOMAIN wire[h][e] :
        k # 1 => k - 1 \in DOMAIN wire'[h][e] /\ k - 1 \in Nat \ {0}
  BY <1>2, <1>3, <1>5
<1>9. QED
  BY <1>2, <1>3, <1>4, <1>5, <1>6, <1>7, <1>8

-----------------------------------------------------------------------------
LEMMA BridgeInitType == Init => TypeOK
<1> SUFFICES ASSUME Init PROVE TypeOK
  OBVIOUS
<1>1. \A h \in Hops, e \in Ends : Len(wire[h][e]) <= Capacity
  BY CapacityAssumption DEF Init
<1>2. QED
  BY <1>1 DEF Init, TypeOK, Hops

(* The payloads the target holds are there.                                *)
HeldThere == \A q \in held : heap[Sink][q] # NoPayload

LEMMA AnsweredFacts ==
    ASSUME TypeOK, HeldThere, NEW p \in held
    PROVE  LET memory == [heap[Sink] EXCEPT ![p].data = Answered(@)]
           IN /\ p \in Pointers /\ memory \in Memory /\ memory[p] \in Payload
              /\ heap[Sink][p] \in Payload
              /\ memory[p].owner = heap[Sink][p].owner
              /\ memory[p].masked = heap[Sink][p].masked
              /\ memory[p].data = Answered(heap[Sink][p].data)
              /\ \A q \in Pointers \ {p} : memory[q] = heap[Sink][q]
<1>1. p \in Pointers /\ heap[Sink] \in Memory /\ heap[Sink][p] \in Payload
  BY RouteFacts DEF TypeOK, HeldThere, Memory
<1>2. PICK x \in Payload : x = heap[Sink][p]
  BY <1>1
<1>3. Answered(x.data) \in Data
  BY DEF Payload, Data, Answered
<1>4. /\ [x EXCEPT !.data = Answered(@)] \in Payload
      /\ [x EXCEPT !.data = Answered(@)].owner = x.owner
      /\ [x EXCEPT !.data = Answered(@)].masked = x.masked
      /\ [x EXCEPT !.data = Answered(@)].data = Answered(x.data)
  BY <1>3 DEF Payload
<1>5. PICK y \in Payload : y = [x EXCEPT !.data = Answered(@)]
  BY <1>4
<1>6. [heap[Sink] EXCEPT ![p].data = Answered(@)] = [heap[Sink] EXCEPT ![p] = y]
  BY <1>2, <1>5
<1>7. QED
  BY <1>1, <1>2, <1>4, <1>5, <1>6 DEF Memory

LEMMA BridgeStepType ==
    ASSUME TypeOK, HeldThere, [Next]_vars
    PROVE  TypeOK'
<1>r. /\ \A h \in Hops : Route[h] \in Domain /\ Route[h + 1] \in Domain
      /\ Source \in Domain /\ Sink \in Domain
      /\ \A h \in Hops : (h + 1 # Len(Route) => h + 1 \in Hops) /\ (h # 1 => h - 1 \in Hops)
      /\ 1 \in Hops /\ Len(Route) - 1 \in Hops /\ "proxy" \in Ends /\ "remote" \in Ends
  BY RouteFacts DEF Ends
<1>h. heap \in [Domain -> Memory]
  BY DEF TypeOK, Memory
<1>k. ASSUME heap' \in [Domain -> Memory], wire' = wire \/ \E h \in Hops, e \in Ends :
                 wire[h][e] # <<>> /\ Received(h, e),
             sending' \in [Domain -> {NotSending} \cup Letter],
             NEW d \in Domain, NEW th, Run(d, th),
             connfd' = connfd, held' \subseteq Pointers,
             outcome' \in [Transactions -> Data \cup {NoData} \cup {Waiting(p) : p \in Pointers}]
      PROVE  TypeOK'
  <2>1. /\ wire' \in [Hops -> [Ends -> Seq(Message)]]
        /\ \A g \in Hops, f \in Ends : Len(wire'[g][f]) <= Capacity
    <3>1. CASE wire' = wire
      BY <3>1 DEF TypeOK
    <3>2. ASSUME NEW h \in Hops, NEW e \in Ends, wire[h][e] # <<>>, Received(h, e)
          PROVE  /\ wire' \in [Hops -> [Ends -> Seq(Message)]]
                 /\ \A g \in Hops, f \in Ends : Len(wire'[g][f]) <= Capacity
      BY <3>2, TakenFacts
    <3>3. QED
      BY <1>k, <3>1, <3>2
  <2>2. /\ ran' \in [Domain -> SUBSET UNION {Threads(c) : c \in Domain}]
        /\ \A c \in Domain : ran'[c] \subseteq Threads(c)
    BY <1>k, RunType
  <2>3. connfd' \subseteq Hops
    BY <1>k DEF TypeOK
  <2>4. QED
    BY <1>k, <2>1, <2>2, <2>3 DEF TypeOK, Memory, Letter
<1>1. ASSUME NEW d \in Domain, Flush(d)
      PROVE  TypeOK'
  <2>1. sending[d] \in Letter
    BY <1>1 DEF Flush, TypeOK, Letter
  <2>2. PICK h \in Hops, e \in Ends, m \in Message :
          /\ h = sending[d].hop /\ e = sending[d].to /\ m = sending[d].message
    BY <2>1 DEF Letter
  <2>3. wire' = [wire EXCEPT ![h][e] = Append(@, m)] /\ Len(wire[h][e]) < Capacity
    BY <1>1, <2>2 DEF Flush, Room
  <2>4. /\ wire[h][e] \in Seq(Message)
        /\ Append(wire[h][e], m) \in Seq(Message)
        /\ Len(Append(wire[h][e], m)) = Len(wire[h][e]) + 1 /\ Len(wire[h][e]) \in Nat
    BY AppendProperties, LenProperties DEF TypeOK
  <2>5. /\ wire' \in [Hops -> [Ends -> Seq(Message)]]
        /\ wire'[h][e] = Append(wire[h][e], m)
        /\ \A g \in Hops, f \in Ends : <<g, f>> # <<h, e>> => wire'[g][f] = wire[g][f]
    BY <2>3, <2>4 DEF TypeOK
  <2>6. Len(wire'[h][e]) <= Capacity
    BY <2>3, <2>4, <2>5, CapacityAssumption
  <2>7. \A g \in Hops, f \in Ends : Len(wire'[g][f]) <= Capacity
    BY <2>5, <2>6 DEF TypeOK
  <2>8. sending' \in [Domain -> {NotSending} \cup Letter]
    BY <1>1 DEF Flush, TypeOK, Letter
  <2>9. QED
    BY <1>1, <2>5, <2>7, <2>8 DEF Flush, TypeOK, Letter
<1>2. ASSUME NEW h \in Hops, Accept(h)
      PROVE  TypeOK'
  BY <1>2 DEF Accept, TypeOK
<1>3. ASSUME NEW t \in Transactions, Issue(t)
      PROVE  TypeOK'
  <2>1. PICK p \in Pointers :
          /\ Forwarded(Source,
                 [heap[Source] EXCEPT ![p] =
                    [owner |-> NoOwner, data |-> <<"question", t>>, masked |-> t \in Masked]],
                 p, 1, "remote")
          /\ outcome' = [outcome EXCEPT ![t] = Waiting(p)]
    BY <1>3 DEF Issue
  <2> DEFINE x == [owner |-> NoOwner, data |-> <<"question", t>>, masked |-> t \in Masked]
  <2>2. x \in Payload
    BY DEF Payload, Data
  <2> HIDE DEF x
  <2>3. [heap[Source] EXCEPT ![p] = x] \in Memory /\ [heap[Source] EXCEPT ![p] = x][p] \in Payload
    BY <1>r, <1>h, <2>2 DEF Memory
  <2>4. Forwarded(Source, [heap[Source] EXCEPT ![p] = x], p, 1, "remote")
    BY <2>1 DEF x
  <2>5. heap' \in [Domain -> Memory] /\ sending' \in [Domain -> {NotSending} \cup Letter]
    BY <1>r, <2>3, <2>4, ForwardFacts
  <2>6. outcome' \in [Transactions -> Data \cup {NoData} \cup {Waiting(q) : q \in Pointers}]
    BY <2>1 DEF TypeOK
  <2>7. held' \subseteq Pointers /\ wire' = wire /\ connfd' = connfd
    BY <1>3 DEF Issue, TypeOK
  <2>8. Run(Source, <<0, "initiator">>)
    BY <1>3 DEF Issue
  <2>9. QED
    BY <1>k, <1>r, <2>5, <2>6, <2>7, <2>8
<1>4. ASSUME NEW h \in Hops, RemoteReceive(h)
      PROVE  TypeOK'
  <2>1. PICK d \in Domain : d = Route[h + 1]
    BY <1>r
  <2>2. /\ Run(d, <<h, "remote">>) /\ wire[h]["remote"] # <<>> /\ Received(h, "remote")
        /\ connfd' = connfd /\ outcome' = outcome
    BY <1>4, <2>1 DEF RemoteReceive
  <2>3. PICK m \in Message : m = Head(wire[h]["remote"])
    BY <1>r, <2>2, TakenFacts
  <2>4. PICK p \in Places(d, m) :
          IF h + 1 = Len(Route)
            THEN /\ heap' = [heap EXCEPT ![d] = Decoded(d, m, p)]
                 /\ held' = held \cup {p}
                 /\ UNCHANGED sending
            ELSE /\ Forwarded(d, Decoded(d, m, p), p, h + 1, "remote")
                 /\ UNCHANGED held
    BY <1>4, <2>1, <2>3 DEF RemoteReceive
  <2>5. p \in Pointers /\ Decoded(d, m, p) \in Memory /\ Decoded(d, m, p)[p] \in Payload
    BY DecodeFacts
  <2>6. held' \subseteq Pointers
    BY <2>4, <2>5 DEF TypeOK
  <2>7. heap' \in [Domain -> Memory] /\ sending' \in [Domain -> {NotSending} \cup Letter]
    <3>1. CASE h + 1 = Len(Route)
      BY <1>h, <2>4, <2>5, <3>1 DEF TypeOK, Letter
    <3>2. CASE h + 1 # Len(Route)
      BY <1>r, <2>4, <2>5, <3>2, ForwardFacts
    <3>3. QED
      BY <3>1, <3>2
  <2>8. outcome' \in [Transactions -> Data \cup {NoData} \cup {Waiting(q) : q \in Pointers}]
    BY <2>2 DEF TypeOK
  <2>9. QED
    BY <1>k, <1>r, <2>2, <2>6, <2>7, <2>8
<1>5. ASSUME NEW h \in Hops, ProxyReceive(h)
      PROVE  TypeOK'
  <2>1. PICK d \in Domain : d = Route[h]
    BY <1>r
  <2>2. /\ Run(d, <<h, "proxy">>) /\ wire[h]["proxy"] # <<>> /\ Received(h, "proxy")
        /\ connfd' = connfd /\ held' = held
    BY <1>5, <2>1 DEF ProxyReceive
  <2>3. PICK m \in Message : m = Head(wire[h]["proxy"])
    BY <1>r, <2>2, TakenFacts
  <2>4. PICK p \in Places(d, m) :
          IF h = 1
            THEN /\ heap' = [heap EXCEPT ![d] = Free(Decoded(d, m, p), p)]
                 /\ outcome' = [t \in Transactions |->
                                  IF outcome[t] = Waiting(p) THEN Decoded(d, m, p)[p].data
                                                             ELSE outcome[t]]
                 /\ UNCHANGED sending
            ELSE /\ Forwarded(d, Decoded(d, m, p), p, h - 1, "proxy")
                 /\ UNCHANGED outcome
    BY <1>5, <2>1, <2>3 DEF ProxyReceive
  <2>5. p \in Pointers /\ Decoded(d, m, p) \in Memory /\ Decoded(d, m, p)[p] \in Payload
    BY DecodeFacts
  <2>6. heap' \in [Domain -> Memory] /\ sending' \in [Domain -> {NotSending} \cup Letter]
    <3>1. CASE h = 1
      <4>1. Free(Decoded(d, m, p), p) \in Memory
        BY <2>5 DEF Free, Memory
      <4>2. QED
        BY <1>h, <2>4, <3>1, <4>1 DEF TypeOK, Letter
    <3>2. CASE h # 1
      BY <1>r, <2>4, <2>5, <3>2, ForwardFacts
    <3>3. QED
      BY <3>1, <3>2
  <2>7. outcome' \in [Transactions -> Data \cup {NoData} \cup {Waiting(q) : q \in Pointers}]
    <3>1. Decoded(d, m, p)[p].data \in Data
      BY <2>5 DEF Payload
    <3>2. QED
      BY <2>4, <3>1 DEF TypeOK
  <2>8. held' \subseteq Pointers
    BY <2>2 DEF TypeOK
  <2>9. QED
    BY <1>k, <1>r, <2>2, <2>6, <2>7, <2>8
<1>6. CASE Answer
  <2>1. PICK p \in held :
          /\ Forwarded(Sink, [heap[Sink] EXCEPT ![p].data = Answered(@)],
                       p, Len(Route) - 1, "proxy")
          /\ held' = held \ {p}
    BY <1>6 DEF Answer
  <2> DEFINE memory == [heap[Sink] EXCEPT ![p].data = Answered(@)]
  <2>2. p \in Pointers /\ memory \in Memory /\ memory[p] \in Payload
    BY AnsweredFacts
  <2>3. Forwarded(Sink, memory, p, Len(Route) - 1, "proxy")
    BY <2>1
  <2> HIDE DEF memory
  <2>4. heap' \in [Domain -> Memory] /\ sending' \in [Domain -> {NotSending} \cup Letter]
    BY <1>r, <2>2, <2>3, ForwardFacts
  <2>5. /\ held' \subseteq Pointers /\ Run(Sink, <<0, "target">>)
        /\ wire' = wire /\ connfd' = connfd /\ outcome' = outcome
    BY <1>6, <2>1 DEF Answer, TypeOK
  <2>6. outcome' \in [Transactions -> Data \cup {NoData} \cup {Waiting(q) : q \in Pointers}]
    BY <2>5 DEF TypeOK
  <2>7. QED
    BY <1>k, <1>r, <2>4, <2>5, <2>6
<1>7. ASSUME NEW d \in Domain, NEW th, Idle(d, th)
      PROVE  TypeOK'
  <2>1. /\ Run(d, th) /\ heap' = heap /\ wire' = wire /\ sending' = sending
        /\ connfd' = connfd /\ held' = held /\ outcome' = outcome
    BY <1>7 DEF Idle
  <2>2. /\ heap' \in [Domain -> Memory] /\ sending' \in [Domain -> {NotSending} \cup Letter]
        /\ held' \subseteq Pointers
        /\ outcome' \in [Transactions -> Data \cup {NoData} \cup {Waiting(q) : q \in Pointers}]
    BY <1>h, <2>1 DEF TypeOK, Letter
  <2>3. QED
    BY <1>k, <2>1, <2>2
<1>8. CASE UNCHANGED vars
  BY <1>8 DEF vars, TypeOK
<1>9. QED
  BY <1>1, <1>2, <1>3, <1>4, <1>5, <1>6, <1>7, <1>8 DEF Next, Progress

-----------------------------------------------------------------------------
(* Where the transaction whose payload is at p of the source may be: a     *)
(* message on a way, a message that is being sent, a payload the target    *)
(* holds.                                                                  *)
Ident(p) == [domain |-> Source, pointer |-> p]

Waits(p) == \E t \in Transactions : outcome[t] = Waiting(p)

Wired(p, h, e, k) == k \in DOMAIN wire[h][e] /\ wire[h][e][k].owner = Ident(p)

Posted(p, d) == sending[d] # NotSending /\ sending[d].message.owner = Ident(p)

Kept(p, q) ==
    q \in held /\ (heap[Sink][q].owner = Ident(p) \/ (Sink = Source /\ q = p))

NoneWired(p) == \A h \in Hops, e \in Ends, k \in Nat : ~ Wired(p, h, e, k)
NonePosted(p) == \A d \in Domain : ~ Posted(p, d)
NoneKept(p) == \A q \in Pointers : ~ Kept(p, q)

Nowhere(p) == NoneWired(p) /\ NonePosted(p) /\ NoneKept(p)

OnlyWired(p, h, e, k) ==
    /\ \A g \in Hops, f \in Ends, j \in Nat :
         Wired(p, g, f, j) <=> g = h /\ f = e /\ j = k
    /\ NonePosted(p) /\ NoneKept(p)

OnlyPosted(p, d) ==
    /\ \A c \in Domain : Posted(p, c) <=> c = d
    /\ NoneWired(p) /\ NoneKept(p)

OnlyKept(p, q) ==
    /\ \A r \in Pointers : Kept(p, r) <=> r = q
    /\ NoneWired(p) /\ NonePosted(p)

Somewhere(p) ==
    \/ \E h \in Hops, e \in Ends, k \in Nat : OnlyWired(p, h, e, k)
    \/ \E d \in Domain : OnlyPosted(p, d)
    \/ \E q \in Pointers : OnlyKept(p, q)

(* A transaction is in one place while the initiator waits for it.         *)
CarrierInv ==
    \A p \in Pointers : IF Waits(p) THEN Somewhere(p) ELSE Nowhere(p)

(* All there is belongs to the source: messages name a payload of it, its  *)
(* own payloads wait, and those of other domains are held by the target.   *)
HomeInv ==
    /\ \A h \in Hops, e \in Ends : \A k \in DOMAIN wire[h][e] :
         \E p \in Pointers : wire[h][e][k].owner = Ident(p)
    /\ \A d \in Domain : sending[d] # NotSending =>
         \E p \in Pointers : sending[d].message.owner = Ident(p)
    /\ \A d \in Domain, p \in Pointers : heap[d][p] # NoPayload =>
         IF d = Source THEN heap[d][p].owner = NoOwner /\ Waits(p)
         ELSE /\ d = Sink /\ p \in held
              /\ \E q \in Pointers : heap[d][p].owner = Ident(q)
    /\ \A p \in Pointers : Waits(p) => heap[Source][p] # NoPayload

(* Without byte enables the question of a transaction is what travels to   *)
(* the remotes and is held, and its answer what travels to the proxies.    *)
Says(m, what, t) == m.masked = FALSE /\ m.data = <<what, t>>

What(e) == IF e = "remote" THEN "question" ELSE "answer"

AnswerFor(p, t) ==
    /\ \A h \in Hops, e \in Ends, k \in Nat :
         Wired(p, h, e, k) => Says(wire[h][e][k], What(e), t)
    /\ \A d \in Domain :
         Posted(p, d) => Says(sending[d].message, What(sending[d].to), t)
    /\ \A q \in Pointers : Kept(p, q) => Says(heap[Sink][q], "question", t)

AnswerInv ==
    \A p \in Pointers : \A t \in Transactions \ Masked :
        outcome[t] = Waiting(p) => AnswerFor(p, t)

BridgeInv ==
    TypeOK /\ HeldThere /\ HomeInv /\ CarrierInv /\ AnswerInv /\ RightAnswer

-----------------------------------------------------------------------------
(* A transaction that is seen in a place is in no other.                   *)
LEMMA PositionsNat ==
    ASSUME TypeOK, NEW h \in Hops, NEW e \in Ends
    PROVE  \A k \in DOMAIN wire[h][e] : k \in Nat \ {0} /\ k <= Capacity
<1>1. wire[h][e] \in Seq(Message) /\ Len(wire[h][e]) <= Capacity
  BY DEF TypeOK
<1>2. DOMAIN wire[h][e] = 1 .. Len(wire[h][e]) /\ Len(wire[h][e]) \in Nat
  BY <1>1, LenProperties
<1>3. QED
  BY <1>1, <1>2, CapacityAssumption

LEMMA Seen ==
    ASSUME CarrierInv, NEW p \in Pointers
    PROVE  /\ \A h \in Hops, e \in Ends, k \in Nat :
                Wired(p, h, e, k) => Waits(p) /\ OnlyWired(p, h, e, k)
           /\ \A d \in Domain : Posted(p, d) => Waits(p) /\ OnlyPosted(p, d)
           /\ \A q \in Pointers : Kept(p, q) => Waits(p) /\ OnlyKept(p, q)
<1>1. Somewhere(p) \/ Nowhere(p)
  BY DEF CarrierInv
<1>2. ~ Nowhere(p) => Waits(p) /\ Somewhere(p)
  BY DEF CarrierInv
<1>3. ASSUME NEW h \in Hops, NEW e \in Ends, NEW k \in Nat, Wired(p, h, e, k)
      PROVE  Waits(p) /\ OnlyWired(p, h, e, k)
  <2>1. Waits(p) /\ Somewhere(p)
    BY <1>2, <1>3 DEF Nowhere, NoneWired
  <2>2. PICK g \in Hops, f \in Ends, j \in Nat : OnlyWired(p, g, f, j)
    BY <1>3, <2>1 DEF Somewhere, OnlyPosted, OnlyKept, NoneWired
  <2>3. g = h /\ f = e /\ j = k
    BY <1>3, <2>2 DEF OnlyWired
  <2>4. QED
    BY <2>1, <2>2, <2>3
<1>4. ASSUME NEW d \in Domain, Posted(p, d)
      PROVE  Waits(p) /\ OnlyPosted(p, d)
  <2>1. Waits(p) /\ Somewhere(p)
    BY <1>2, <1>4 DEF Nowhere, NonePosted
  <2>2. PICK c \in Domain : OnlyPosted(p, c)
    BY <1>4, <2>1 DEF Somewhere, OnlyWired, OnlyKept, NonePosted
  <2>3. c = d
    BY <1>4, <2>2 DEF OnlyPosted
  <2>4. QED
    BY <2>1, <2>2, <2>3
<1>5. ASSUME NEW q \in Pointers, Kept(p, q)
      PROVE  Waits(p) /\ OnlyKept(p, q)
  <2>1. Waits(p) /\ Somewhere(p)
    BY <1>2, <1>5 DEF Nowhere, NoneKept
  <2>2. PICK r \in Pointers : OnlyKept(p, r)
    BY <1>5, <2>1 DEF Somewhere, OnlyWired, OnlyPosted, NoneKept
  <2>3. r = q
    BY <1>5, <2>2 DEF OnlyKept
  <2>4. QED
    BY <2>1, <2>2, <2>3
<1>6. QED
  BY <1>3, <1>4, <1>5

(* One transaction moves; p is that of another one.                        *)
LEMMA OthersStay ==
    ASSUME NEW p \in Pointers,
           \A h \in Hops, e \in Ends, k \in Nat : Wired(p, h, e, k)' <=> Wired(p, h, e, k),
           \A d \in Domain : Posted(p, d)' <=> Posted(p, d),
           \A q \in Pointers : Kept(p, q)' <=> Kept(p, q)
    PROVE  (Somewhere(p) => Somewhere(p)') /\ (Nowhere(p) => Nowhere(p)')
  BY DEF Somewhere, OnlyWired, OnlyPosted, OnlyKept, Nowhere, NoneWired, NonePosted, NoneKept

LEMMA OthersAdvance ==
    ASSUME TypeOK, NEW p \in Pointers, NEW h \in Hops, NEW e \in Ends,
           wire[h][e] # <<>>, Received(h, e), ~ Wired(p, h, e, 1),
           \A d \in Domain : Posted(p, d)' <=> Posted(p, d),
           \A q \in Pointers : Kept(p, q)' <=> Kept(p, q)
    PROVE  (Somewhere(p) => Somewhere(p)') /\ (Nowhere(p) => Nowhere(p)')
<1>1. \A g \in Hops, f \in Ends, k \in Nat : <<g, f>> # <<h, e>> =>
        (Wired(p, g, f, k)' <=> Wired(p, g, f, k))
  BY TakenFacts DEF Wired, Ident
<1>2. \A k \in Nat : Wired(p, h, e, k)' => k \in Nat \ {0} /\ Wired(p, h, e, k + 1)
  BY TakenFacts DEF Wired, Ident
<1>3. ASSUME NEW k \in Nat, Wired(p, h, e, k)
      PROVE  k - 1 \in Nat \ {0} /\ Wired(p, h, e, k - 1)'
  <2>1. k # 1 /\ k \in DOMAIN wire[h][e]
    BY <1>3 DEF Wired
  <2>2. k - 1 \in DOMAIN wire'[h][e] /\ k - 1 \in Nat \ {0}
    BY <2>1, TakenFacts
  <2>3. wire'[h][e][k - 1] = wire[h][e][(k - 1) + 1] /\ (k - 1) + 1 = k
    BY <2>2, TakenFacts
  <2>4. QED
    BY <1>3, <2>2, <2>3 DEF Wired, Ident
<1>4. NoneWired(p) => NoneWired(p)'
  BY <1>1, <1>2 DEF NoneWired
<1>5. (NonePosted(p) => NonePosted(p)') /\ (NoneKept(p) => NoneKept(p)')
  BY DEF NonePosted, NoneKept
<1>6. ASSUME NEW g \in Hops, NEW f \in Ends, NEW k \in Nat, OnlyWired(p, g, f, k)
      PROVE  \E j \in Nat : OnlyWired(p, g, f, j)'
  <2>1. CASE <<g, f>> # <<h, e>>
    <3>1. \A j \in Nat : ~ Wired(p, h, e, j)
      BY <1>6, <2>1 DEF OnlyWired
    <3>2. \A j \in Nat : ~ Wired(p, h, e, j)'
      BY <1>2, <3>1
    <3>3. OnlyWired(p, g, f, k)'
      BY <1>1, <1>5, <1>6, <2>1, <3>2 DEF OnlyWired
    <3>4. QED
      BY <3>3
  <2>2. CASE <<g, f>> = <<h, e>>
    <3>1. g = h /\ f = e /\ Wired(p, h, e, k)
      BY <1>6, <2>2 DEF OnlyWired
    <3>2. k - 1 \in Nat /\ Wired(p, h, e, k - 1)'
      BY <1>3, <3>1
    <3>3. ASSUME NEW i \in Nat, Wired(p, h, e, i)' PROVE i = k - 1
      <4>1. i + 1 = k
        BY <1>2, <1>6, <3>1, <3>3 DEF OnlyWired
      <4>2. QED
        BY <4>1
    <3>4. \A a \in Hops, b \in Ends, i \in Nat : <<a, b>> # <<h, e>> => ~ Wired(p, a, b, i)'
      BY <1>1, <1>6, <3>1 DEF OnlyWired
    <3>5. OnlyWired(p, h, e, k - 1)'
      BY <1>5, <1>6, <3>2, <3>3, <3>4 DEF OnlyWired
    <3>6. QED
      BY <3>1, <3>2, <3>5
  <2>3. QED
    BY <2>1, <2>2
<1>7. \A d \in Domain : OnlyPosted(p, d) => OnlyPosted(p, d)'
  BY <1>4, <1>5 DEF OnlyPosted
<1>8. \A q \in Pointers : OnlyKept(p, q) => OnlyKept(p, q)'
  BY <1>4, <1>5 DEF OnlyKept
<1>9. Somewhere(p) => Somewhere(p)'
  BY <1>6, <1>7, <1>8 DEF Somewhere
<1>10. Nowhere(p) => Nowhere(p)'
  BY <1>4, <1>5 DEF Nowhere
<1>11. QED
  BY <1>9, <1>10

(* What was the head of a way is not on any way when it is taken.          *)
LEMMA HeadLeaves ==
    ASSUME TypeOK, NEW p \in Pointers, NEW h \in Hops, NEW e \in Ends,
           wire[h][e] # <<>>, Received(h, e), OnlyWired(p, h, e, 1)
    PROVE  NoneWired(p)'
<1> SUFFICES ASSUME NEW g \in Hops, NEW f \in Ends, NEW k \in Nat, Wired(p, g, f, k)'
             PROVE  FALSE
  BY DEF NoneWired
<1>1. CASE <<g, f>> # <<h, e>>
  <2>1. Wired(p, g, f, k)
    BY <1>1, TakenFacts DEF Wired, Ident
  <2>2. QED
    BY <1>1, <2>1 DEF OnlyWired
<1>2. CASE <<g, f>> = <<h, e>>
  <2>1. k \in Nat \ {0} /\ Wired(p, h, e, k + 1)
    BY <1>2, TakenFacts DEF Wired, Ident
  <2>2. k + 1 = 1
    BY <2>1 DEF OnlyWired
  <2>3. QED
    BY <2>1, <2>2
<1>3. QED
  BY <1>1, <1>2

(* What a step that moves one transaction leaves of another.               *)
SameWired(p) ==
    \A h \in Hops, e \in Ends, k \in Nat :
        /\ Wired(p, h, e, k)' <=> Wired(p, h, e, k)
        /\ Wired(p, h, e, k) => wire'[h][e][k] = wire[h][e][k]

SamePosted(p) ==
    \A d \in Domain :
        /\ Posted(p, d)' <=> Posted(p, d)
        /\ Posted(p, d) => sending'[d] = sending[d]

SameKept(p) ==
    \A q \in Pointers :
        /\ Kept(p, q)' <=> Kept(p, q)
        /\ Kept(p, q) => heap'[Sink][q] = heap[Sink][q]

Same(p) ==
    /\ Somewhere(p) => Somewhere(p)'
    /\ Nowhere(p) => Nowhere(p)'
    /\ \A t \in Transactions : AnswerFor(p, t) => AnswerFor(p, t)'

LEMMA Stays ==
    ASSUME NEW p \in Pointers, SameWired(p), SamePosted(p), SameKept(p)
    PROVE  Same(p)
<1>1. /\ \A h \in Hops, e \in Ends, k \in Nat : Wired(p, h, e, k)' <=> Wired(p, h, e, k)
      /\ \A d \in Domain : Posted(p, d)' <=> Posted(p, d)
      /\ \A q \in Pointers : Kept(p, q)' <=> Kept(p, q)
  BY DEF SameWired, SamePosted, SameKept
<1>2. (Somewhere(p) => Somewhere(p)') /\ (Nowhere(p) => Nowhere(p)')
  BY <1>1, OthersStay
<1>3. ASSUME NEW t \in Transactions, AnswerFor(p, t)
      PROVE  AnswerFor(p, t)'
  <2>1. ASSUME NEW h \in Hops, NEW e \in Ends, NEW k \in Nat, Wired(p, h, e, k)'
        PROVE  Says(wire'[h][e][k], What(e), t)
    <3>1. Wired(p, h, e, k) /\ wire'[h][e][k] = wire[h][e][k]
      BY <2>1 DEF SameWired
    <3>2. QED
      BY <1>3, <3>1 DEF AnswerFor
  <2>2. ASSUME NEW d \in Domain, Posted(p, d)'
        PROVE  Says(sending'[d].message, What(sending'[d].to), t)
    <3>1. Posted(p, d) /\ sending'[d] = sending[d]
      BY <2>2 DEF SamePosted
    <3>2. QED
      BY <1>3, <3>1 DEF AnswerFor
  <2>3. ASSUME NEW q \in Pointers, Kept(p, q)'
        PROVE  Says(heap'[Sink][q], "question", t)
    <3>1. Kept(p, q) /\ heap'[Sink][q] = heap[Sink][q]
      BY <2>3 DEF SameKept
    <3>2. QED
      BY <1>3, <3>1 DEF AnswerFor
  <2>4. QED
    BY <2>1, <2>2, <2>3 DEF AnswerFor, Says, What
<1>4. QED
  BY <1>2, <1>3 DEF Same

LEMMA Advances ==
    ASSUME TypeOK, NEW p \in Pointers, NEW h \in Hops, NEW e \in Ends,
           wire[h][e] # <<>>, Received(h, e), ~ Wired(p, h, e, 1),
           SamePosted(p), SameKept(p)
    PROVE  Same(p)
<1>1. /\ \A d \in Domain : Posted(p, d)' <=> Posted(p, d)
      /\ \A q \in Pointers : Kept(p, q)' <=> Kept(p, q)
  BY DEF SamePosted, SameKept
<1>2. (Somewhere(p) => Somewhere(p)') /\ (Nowhere(p) => Nowhere(p)')
  BY <1>1, OthersAdvance
<1>3. ASSUME NEW t \in Transactions, AnswerFor(p, t)
      PROVE  AnswerFor(p, t)'
  <2>1. ASSUME NEW g \in Hops, NEW f \in Ends, NEW k \in Nat, Wired(p, g, f, k)'
        PROVE  Says(wire'[g][f][k], What(f), t)
    <3>1. \E j \in Nat : Wired(p, g, f, j) /\ wire'[g][f][k] = wire[g][f][j]
      <4>1. CASE <<g, f>> # <<h, e>>
        <5>1. wire'[g][f] = wire[g][f]
          BY <4>1, TakenFacts
        <5>2. Wired(p, g, f, k)
          BY <2>1, <5>1 DEF Wired, Ident
        <5>3. QED
          BY <5>1, <5>2
      <4>2. CASE <<g, f>> = <<h, e>>
        <5>1. g = h /\ f = e /\ Wired(p, h, e, k)'
          BY <2>1, <4>2
        <5>2. /\ k + 1 \in DOMAIN wire[h][e] /\ k + 1 \in Nat
              /\ wire'[h][e][k] = wire[h][e][k + 1]
          BY <5>1, TakenFacts DEF Wired
        <5>3. Wired(p, h, e, k + 1)
          BY <5>1, <5>2 DEF Wired, Ident
        <5>4. QED
          BY <5>1, <5>2, <5>3
      <4>3. QED
        BY <4>1, <4>2
    <3>2. QED
      BY <1>3, <3>1 DEF AnswerFor
  <2>2. ASSUME NEW d \in Domain, Posted(p, d)'
        PROVE  Says(sending'[d].message, What(sending'[d].to), t)
    <3>1. Posted(p, d) /\ sending'[d] = sending[d]
      BY <2>2 DEF SamePosted
    <3>2. QED
      BY <1>3, <3>1 DEF AnswerFor
  <2>3. ASSUME NEW q \in Pointers, Kept(p, q)'
        PROVE  Says(heap'[Sink][q], "question", t)
    <3>1. Kept(p, q) /\ heap'[Sink][q] = heap[Sink][q]
      BY <2>3 DEF SameKept
    <3>2. QED
      BY <1>3, <3>1 DEF AnswerFor
  <2>4. QED
    BY <2>1, <2>2, <2>3 DEF AnswerFor, Says, What
<1>4. QED
  BY <1>2, <1>3 DEF Same

(* What there is to show of a step: the transaction of p moved.            *)
LEMMA OneMoves ==
    ASSUME CarrierInv, AnswerInv, NEW p \in Pointers,
           IF Waits(p)' THEN Somewhere(p)' ELSE Nowhere(p)',
           \A t \in Transactions \ Masked : outcome'[t] = Waiting(p) => AnswerFor(p, t)',
           \A q \in Pointers \ {p} :
               /\ Same(q)
               /\ \A t \in Transactions : outcome'[t] = Waiting(q) <=> outcome[t] = Waiting(q)
    PROVE  CarrierInv' /\ AnswerInv'
<1>1. ASSUME NEW q \in Pointers \ {p}
      PROVE  /\ IF Waits(q)' THEN Somewhere(q)' ELSE Nowhere(q)'
             /\ \A t \in Transactions \ Masked :
                  outcome'[t] = Waiting(q) => AnswerFor(q, t)'
  <2>1. Waits(q)' <=> Waits(q)
    BY DEF Waits, Waiting
  <2>2. IF Waits(q) THEN Somewhere(q) ELSE Nowhere(q)
    BY DEF CarrierInv
  <2>3. IF Waits(q)' THEN Somewhere(q)' ELSE Nowhere(q)'
    BY <2>1, <2>2 DEF Same
  <2>4. \A t \in Transactions \ Masked : outcome[t] = Waiting(q) => AnswerFor(q, t)
    BY DEF AnswerInv
  <2>5. QED
    BY <2>3, <2>4 DEF Same
<1>2. CarrierInv'
  BY <1>1 DEF CarrierInv
<1>3. AnswerInv'
  BY <1>1 DEF AnswerInv, Waiting
<1>4. QED
  BY <1>2, <1>3

(* What stays on the ways when a head is taken names payloads as before.   *)
LEMMA TakenHome ==
    ASSUME TypeOK, HomeInv, NEW h \in Hops, NEW e \in Ends,
           wire[h][e] # <<>>, Received(h, e)
    PROVE  \A g \in Hops, f \in Ends : \A k \in DOMAIN wire'[g][f] :
             \E p \in Pointers : wire'[g][f][k].owner = Ident(p)
<1> SUFFICES ASSUME NEW g \in Hops, NEW f \in Ends, NEW k \in DOMAIN wire'[g][f]
             PROVE  \E p \in Pointers : wire'[g][f][k].owner = Ident(p)
  OBVIOUS
<1>1. CASE <<g, f>> # <<h, e>>
  <2>1. wire'[g][f] = wire[g][f]
    BY <1>1, TakenFacts
  <2>2. QED
    BY <2>1 DEF HomeInv
<1>2. CASE <<g, f>> = <<h, e>>
  <2>1. g = h /\ f = e
    BY <1>2
  <2>2. k + 1 \in DOMAIN wire[h][e] /\ wire'[h][e][k] = wire[h][e][k + 1]
    BY <2>1, TakenFacts
  <2>3. QED
    BY <2>1, <2>2 DEF HomeInv
<1>3. QED
  BY <1>1, <1>2

(* The message at the head of a way, and the payload it names.             *)
LEMMA Arrives ==
    ASSUME BridgeInv, NEW h \in Hops, NEW e \in Ends, wire[h][e] # <<>>, Received(h, e)
    PROVE  \E p \in Pointers :
             /\ Head(wire[h][e]).owner = Ident(p)
             /\ Waits(p) /\ OnlyWired(p, h, e, 1)
             /\ NoneWired(p)' /\ NoneKept(p) /\ NonePosted(p)
             /\ heap[Source][p] # NoPayload /\ heap[Source][p].owner = NoOwner
             /\ Sink = Source => p \notin held
             /\ \A q \in Pointers \ {p} : ~ Wired(q, h, e, 1)
             /\ \A t \in Transactions \ Masked :
                  outcome[t] = Waiting(p) => Says(Head(wire[h][e]), What(e), t)
<1>1. TypeOK /\ HomeInv /\ CarrierInv /\ AnswerInv
  BY DEF BridgeInv
<1>2. 1 \in DOMAIN wire[h][e] /\ wire[h][e][1] = Head(wire[h][e])
  BY <1>1, TakenFacts
<1>3. PICK p \in Pointers : wire[h][e][1].owner = Ident(p)
  BY <1>1, <1>2 DEF HomeInv
<1>4. Wired(p, h, e, 1)
  BY <1>2, <1>3 DEF Wired
<1>5. Waits(p) /\ OnlyWired(p, h, e, 1)
  BY <1>1, <1>4, Seen
<1>6. NoneWired(p)'
  BY <1>1, <1>5, HeadLeaves
<1>7. NoneKept(p) /\ NonePosted(p)
  BY <1>5 DEF OnlyWired
<1>8. heap[Source][p] # NoPayload /\ heap[Source][p].owner = NoOwner
  BY <1>1, <1>5, RouteFacts DEF HomeInv
<1>9. Sink = Source => p \notin held
  BY <1>7 DEF NoneKept, Kept
<1>10. ASSUME NEW q \in Pointers \ {p}
       PROVE  ~ Wired(q, h, e, 1)
  BY <1>3 DEF Wired, Ident
<1>11. \A t \in Transactions \ Masked :
         outcome[t] = Waiting(p) => Says(wire[h][e][1], What(e), t)
  BY <1>1, <1>4 DEF AnswerInv, AnswerFor
<1>12. QED
  BY <1>2, <1>3, <1>5, <1>6, <1>7, <1>8, <1>9, <1>10, <1>11

-----------------------------------------------------------------------------
(* send_string ends: the message is on the way.                            *)
LEMMA FlushStep ==
    ASSUME BridgeInv, TypeOK', NEW d \in Domain, Flush(d)
    PROVE  BridgeInv'
<1>1. TypeOK /\ HeldThere /\ HomeInv /\ CarrierInv /\ AnswerInv /\ RightAnswer
  BY DEF BridgeInv
<1>2. sending[d] # NotSending /\ sending[d] \in Letter
  BY <1>1 DEF Flush, TypeOK, Letter
<1>3. PICK h \in Hops, e \in Ends, m \in Message :
        h = sending[d].hop /\ e = sending[d].to /\ m = sending[d].message
  BY <1>2 DEF Letter
<1>4. /\ wire' = [wire EXCEPT ![h][e] = Append(@, m)]
      /\ sending' = [sending EXCEPT ![d] = NotSending]
      /\ heap' = heap /\ held' = held /\ outcome' = outcome
  BY <1>3 DEF Flush
<1>5. /\ wire[h][e] \in Seq(Message) /\ DOMAIN wire[h][e] = 1 .. Len(wire[h][e])
      /\ Len(wire[h][e]) \in Nat
  BY <1>1, LenProperties DEF TypeOK
<1>6. /\ DOMAIN Append(wire[h][e], m) = 1 .. (Len(wire[h][e]) + 1)
      /\ \A k \in 1 .. Len(wire[h][e]) : Append(wire[h][e], m)[k] = wire[h][e][k]
      /\ Append(wire[h][e], m)[Len(wire[h][e]) + 1] = m
  BY <1>5, AppendProperties, LenProperties
<1>7. PICK n \in Nat : n = Len(wire[h][e]) + 1
  BY <1>5
<1>8. /\ wire'[h][e] = Append(wire[h][e], m)
      /\ \A g \in Hops, f \in Ends : <<g, f>> # <<h, e>> => wire'[g][f] = wire[g][f]
  BY <1>1, <1>4 DEF TypeOK
<1>9. /\ n \in DOMAIN wire'[h][e] /\ wire'[h][e][n] = m /\ n \notin DOMAIN wire[h][e]
      /\ \A k \in Nat : k # n =>
           /\ k \in DOMAIN wire'[h][e] <=> k \in DOMAIN wire[h][e]
           /\ k \in DOMAIN wire[h][e] => wire'[h][e][k] = wire[h][e][k]
  BY <1>5, <1>6, <1>7, <1>8
<1>10. \A k \in DOMAIN wire'[h][e] : k \in Nat
  BY <1>5, <1>6, <1>8
<1>11. sending'[d] = NotSending /\ \A c \in Domain \ {d} : sending'[c] = sending[c]
  BY <1>1, <1>4 DEF TypeOK
<1>12. PICK p \in Pointers : m.owner = Ident(p)
  BY <1>1, <1>2, <1>3 DEF HomeInv
<1>13. Posted(p, d)
  BY <1>2, <1>3, <1>12 DEF Posted
<1>14. Waits(p) /\ OnlyPosted(p, d)
  BY <1>1, <1>13, Seen
<1>15. NoneWired(p) /\ NoneKept(p) /\ \A c \in Domain : Posted(p, c) => c = d
  BY <1>14 DEF OnlyPosted
<1>16. OnlyWired(p, h, e, n)'
  <2>1. Wired(p, h, e, n)'
    BY <1>9, <1>12 DEF Wired, Ident
  <2>2. ASSUME NEW g \in Hops, NEW f \in Ends, NEW j \in Nat, Wired(p, g, f, j)'
        PROVE  g = h /\ f = e /\ j = n
    <3>1. ~ Wired(p, g, f, j)
      BY <1>15 DEF NoneWired
    <3>2. <<g, f>> = <<h, e>>
      BY <1>8, <2>2, <3>1 DEF Wired, Ident
    <3>3. g = h /\ f = e
      BY <3>2
    <3>4. j = n
      BY <1>9, <2>2, <3>1, <3>3 DEF Wired, Ident
    <3>5. QED
      BY <3>3, <3>4
  <2>3. NonePosted(p)'
    BY <1>11, <1>15 DEF NonePosted, Posted, Ident
  <2>4. NoneKept(p)'
    BY <1>4, <1>15 DEF NoneKept, Kept, Ident
  <2>5. QED
    BY <2>1, <2>2, <2>3, <2>4 DEF OnlyWired
<1>17. ASSUME NEW q \in Pointers \ {p}
       PROVE  Same(q)
  <2>1. ASSUME NEW g \in Hops, NEW f \in Ends, NEW k \in Nat
        PROVE  /\ Wired(q, g, f, k)' <=> Wired(q, g, f, k)
               /\ Wired(q, g, f, k) => wire'[g][f][k] = wire[g][f][k]
    <3>1. CASE <<g, f>> # <<h, e>>
      BY <1>8, <3>1 DEF Wired, Ident
    <3>2. CASE g = h /\ f = e /\ k = n
      BY <1>9, <1>12, <3>2 DEF Wired, Ident
    <3>3. CASE g = h /\ f = e /\ k # n
      BY <1>9, <3>3 DEF Wired, Ident
    <3>4. QED
      BY <3>1, <3>2, <3>3
  <2>2. SameWired(q)
    BY <2>1 DEF SameWired
  <2>3. SamePosted(q)
    BY <1>3, <1>11, <1>12 DEF SamePosted, Posted, Ident
  <2>4. SameKept(q)
    BY <1>4 DEF SameKept, Kept, Ident
  <2>5. QED
    BY <2>2, <2>3, <2>4, Stays
<1>18. ASSUME NEW t \in Transactions \ Masked, outcome[t] = Waiting(p)
       PROVE  AnswerFor(p, t)'
  <2>1. Says(m, What(e), t)
    BY <1>1, <1>3, <1>13, <1>18 DEF AnswerInv, AnswerFor
  <2>2. ASSUME NEW g \in Hops, NEW f \in Ends, NEW k \in Nat, Wired(p, g, f, k)'
        PROVE  Says(wire'[g][f][k], What(f), t)
    <3>1. g = h /\ f = e /\ k = n
      BY <1>16, <2>2 DEF OnlyWired
    <3>2. QED
      BY <1>9, <2>1, <3>1
  <2>3. QED
    BY <1>16, <2>2 DEF AnswerFor, OnlyWired, NonePosted, NoneKept, Says, What
<1>19. CarrierInv' /\ AnswerInv'
  <2>1. Waits(p)'
    BY <1>4, <1>14 DEF Waits, Waiting
  <2>2. IF Waits(p)' THEN Somewhere(p)' ELSE Nowhere(p)'
    BY <1>7, <1>16, <2>1 DEF Somewhere
  <2>3. \A t \in Transactions \ Masked : outcome'[t] = Waiting(p) => AnswerFor(p, t)'
    BY <1>4, <1>18
  <2>4. QED
    BY <1>1, <1>4, <1>17, <2>2, <2>3, OneMoves
<1>20. HomeInv'
  <2>1. ASSUME NEW g \in Hops, NEW f \in Ends, NEW k \in DOMAIN wire'[g][f]
        PROVE  \E q \in Pointers : wire'[g][f][k].owner = Ident(q)
    <3>1. CASE <<g, f>> # <<h, e>>
      BY <1>1, <1>8, <3>1 DEF HomeInv
    <3>2. CASE g = h /\ f = e /\ k = n
      BY <1>9, <1>12, <3>2
    <3>3. CASE g = h /\ f = e /\ k # n
      BY <1>1, <1>9, <1>10, <3>3 DEF HomeInv
    <3>4. QED
      BY <3>1, <3>2, <3>3
  <2>2. ASSUME NEW c \in Domain, sending'[c] # NotSending
        PROVE  \E q \in Pointers : sending'[c].message.owner = Ident(q)
    BY <1>1, <1>11, <2>2 DEF HomeInv
  <2>3. QED
    BY <1>1, <1>4, <2>1, <2>2 DEF HomeInv, Ident, Waits, Waiting
<1>21. HeldThere' /\ RightAnswer'
  BY <1>1, <1>4 DEF HeldThere, RightAnswer
<1>22. QED
  BY <1>19, <1>20, <1>21 DEF BridgeInv

(* A wrapper on the way takes a message and sends it on, in the direction  *)
(* it had. In the source the payload it names is written to, in another    *)
(* domain a payload is made and freed.                                     *)
LEMMA PassStep ==
    ASSUME BridgeInv, TypeOK', NEW d \in Domain, NEW h \in Hops, NEW e \in Ends,
           NEW g \in Hops, NEW m \in Message, NEW p \in Places(d, m),
           wire[h][e] # <<>>, m = Head(wire[h][e]), Received(h, e), sending[d] = NotSending,
           Forwarded(d, Decoded(d, m, p), p, g, e),
           UNCHANGED <<held, outcome>>
    PROVE  BridgeInv'
<1>1. TypeOK /\ HeldThere /\ HomeInv /\ CarrierInv /\ AnswerInv /\ RightAnswer
  BY DEF BridgeInv
<1>2. PICK o \in Pointers :
        /\ m.owner = Ident(o)
        /\ Waits(o) /\ OnlyWired(o, h, e, 1)
        /\ NoneWired(o)' /\ NoneKept(o) /\ NonePosted(o)
        /\ heap[Source][o] # NoPayload /\ heap[Source][o].owner = NoOwner
        /\ Sink = Source => o \notin held
        /\ \A q \in Pointers \ {o} : ~ Wired(q, h, e, 1)
        /\ \A t \in Transactions \ Masked :
             outcome[t] = Waiting(o) => Says(m, What(e), t)
  BY Arrives
<1>3. Local(d, m) <=> d = Source
  BY <1>2 DEF Local, Ident
<1>4. /\ p \in Pointers /\ Decoded(d, m, p) \in Memory /\ Decoded(d, m, p)[p] \in Payload
      /\ Decoded(d, m, p)[p].masked = m.masked
      /\ Decoded(d, m, p)[p].owner = IF d = Source THEN NoOwner ELSE Ident(o)
      /\ ~ m.masked => Decoded(d, m, p)[p].data = m.data
      /\ \A q \in Pointers \ {p} : Decoded(d, m, p)[q] = heap[d][q]
      /\ d = Source => p = o
      /\ d # Source => heap[d][p] = NoPayload
  BY <1>1, <1>2, <1>3, DecodeFacts DEF Ident
<1>5. /\ Encoded(d, Decoded(d, m, p), p).owner = EncodedOwner(d, Decoded(d, m, p), p)
      /\ Encoded(d, Decoded(d, m, p), p).data = Decoded(d, m, p)[p].data
      /\ Encoded(d, Decoded(d, m, p), p).masked = Decoded(d, m, p)[p].masked
      /\ sending'[d] = [hop |-> g, to |-> e, message |-> Encoded(d, Decoded(d, m, p), p)]
      /\ sending'[d] \in Letter
      /\ \A c \in Domain \ {d} : sending'[c] = sending[c] /\ heap'[c] = heap[c]
      /\ \A q \in Pointers \ {p} : heap'[d][q] = Decoded(d, m, p)[q]
      /\ heap'[d][p] = IF Decoded(d, m, p)[p].owner = NoOwner THEN Decoded(d, m, p)[p]
                                                              ELSE NoPayload
  BY <1>1, <1>4, ForwardFacts
<1>6. EncodedOwner(d, Decoded(d, m, p), p) = Ident(o)
  BY <1>4, Nothings DEF EncodedOwner, Ident
<1>7. PICK s \in Letter : s = sending'[d]
  BY <1>5
<1>8. /\ s.to = e /\ s.message.owner = Ident(o) /\ s.message.masked = m.masked
      /\ ~ m.masked => s.message.data = m.data
      /\ s # NotSending
  BY <1>4, <1>5, <1>6, <1>7, Nothings
<1>9. \A c \in Domain, q \in Pointers : ~ (c = Source /\ q = o) => heap'[c][q] = heap[c][q]
  <2>1. CASE d = Source
    BY <1>4, <1>5, <2>1
  <2>2. CASE d # Source
    BY <1>4, <1>5, <2>2, Nothings DEF Ident
  <2>3. QED
    BY <2>1, <2>2
<1>10. heap'[Source][o] # NoPayload /\ heap'[Source][o].owner = NoOwner
  <2>1. CASE d = Source
    BY <1>4, <1>5, <2>1, Nothings
  <2>2. CASE d # Source
    BY <1>2, <1>5, <2>2, RouteFacts
  <2>3. QED
    BY <2>1, <2>2
<1>11. \A q \in Pointers : heap'[Sink][q].owner = heap[Sink][q].owner
  BY <1>2, <1>9, <1>10, RouteFacts
<1>12. \A q \in held : heap'[Sink][q] = heap[Sink][q]
  BY <1>1, <1>2, <1>9, RouteFacts DEF TypeOK
<1>13. \A r, q \in Pointers : Kept(r, q)' <=> Kept(r, q)
  BY <1>11 DEF Kept, Ident
<1>14. ASSUME NEW q \in Pointers \ {o}
       PROVE  Same(q)
  <2>1. SamePosted(q)
    BY <1>5, <1>7, <1>8 DEF SamePosted, Posted, Ident
  <2>2. SameKept(q)
    BY <1>12, <1>13 DEF SameKept, Kept
  <2>3. QED
    BY <1>1, <1>2, <2>1, <2>2, Advances
<1>15. OnlyPosted(o, d)'
  <2>1. \A c \in Domain : Posted(o, c)' <=> c = d
    BY <1>2, <1>5, <1>7, <1>8 DEF Posted, NonePosted, Ident
  <2>2. NoneKept(o)'
    BY <1>2, <1>13 DEF NoneKept
  <2>3. QED
    BY <1>2, <2>1, <2>2 DEF OnlyPosted
<1>16. ASSUME NEW t \in Transactions \ Masked, outcome[t] = Waiting(o)
       PROVE  AnswerFor(o, t)'
  <2>1. Says(s.message, What(s.to), t)
    BY <1>2, <1>8, <1>16 DEF Says
  <2>2. QED
    BY <1>7, <1>15, <2>1 DEF AnswerFor, OnlyPosted, NoneWired, NoneKept, Says, What
<1>17. CarrierInv' /\ AnswerInv'
  <2>1. Waits(o)'
    BY <1>2 DEF Waits, Waiting
  <2>2. IF Waits(o)' THEN Somewhere(o)' ELSE Nowhere(o)'
    BY <1>15, <2>1 DEF Somewhere
  <2>3. \A t \in Transactions \ Masked : outcome'[t] = Waiting(o) => AnswerFor(o, t)'
    BY <1>16
  <2>4. QED
    BY <1>1, <1>14, <2>2, <2>3, OneMoves
<1>18. HomeInv'
  <2>1. \A a \in Hops, b \in Ends : \A k \in DOMAIN wire'[a][b] :
          \E q \in Pointers : wire'[a][b][k].owner = Ident(q)
    BY <1>1, TakenHome
  <2>2. \A c \in Domain : sending'[c] # NotSending =>
          \E q \in Pointers : sending'[c].message.owner = Ident(q)
    BY <1>1, <1>5, <1>7, <1>8 DEF HomeInv
  <2>3. ASSUME NEW c \in Domain, NEW q \in Pointers, heap'[c][q] # NoPayload
        PROVE  IF c = Source THEN heap'[c][q].owner = NoOwner /\ Waits(q)
               ELSE /\ c = Sink /\ q \in held
                    /\ \E r \in Pointers : heap'[c][q].owner = Ident(r)
    <3>1. CASE c = Source /\ q = o
      BY <1>2, <1>10, <3>1
    <3>2. CASE ~ (c = Source /\ q = o)
      BY <1>1, <1>9, <2>3, <3>2 DEF HomeInv
    <3>3. QED
      BY <3>1, <3>2
  <2>4. \A q \in Pointers : Waits(q) => heap'[Source][q] # NoPayload
    BY <1>1, <1>9, <1>10, RouteFacts DEF HomeInv
  <2>5. \A q \in Pointers : Waits(q)' <=> Waits(q)
    BY DEF Waits, Waiting
  <2>6. QED
    BY <2>1, <2>2, <2>3, <2>4, <2>5 DEF HomeInv, Ident
<1>19. HeldThere' /\ RightAnswer'
  BY <1>1, <1>12 DEF HeldThere, RightAnswer
<1>20. QED
  BY <1>17, <1>18, <1>19 DEF BridgeInv

(* The last remote hands the payload of a message to the target: that of   *)
(* the initiator if the route comes back to its domain, else a new one.    *)
LEMMA LastStep ==
    ASSUME BridgeInv, TypeOK', NEW h \in Hops, NEW m \in Message, NEW p \in Places(Sink, m),
           wire[h]["remote"] # <<>>, m = Head(wire[h]["remote"]), Received(h, "remote"),
           heap' = [heap EXCEPT ![Sink] = Decoded(Sink, m, p)],
           held' = held \cup {p},
           UNCHANGED <<sending, outcome>>
    PROVE  BridgeInv'
<1>1. TypeOK /\ HeldThere /\ HomeInv /\ CarrierInv /\ AnswerInv /\ RightAnswer
  BY DEF BridgeInv
<1>2. "remote" \in Ends /\ Sink \in Domain /\ Source \in Domain /\ What("remote") = "question"
  BY RouteFacts DEF Ends, What
<1>3. PICK o \in Pointers :
        /\ m.owner = Ident(o)
        /\ Waits(o) /\ OnlyWired(o, h, "remote", 1)
        /\ NoneWired(o)' /\ NoneKept(o) /\ NonePosted(o)
        /\ heap[Source][o] # NoPayload /\ heap[Source][o].owner = NoOwner
        /\ Sink = Source => o \notin held
        /\ \A q \in Pointers \ {o} : ~ Wired(q, h, "remote", 1)
        /\ \A t \in Transactions \ Masked :
             outcome[t] = Waiting(o) => Says(m, "question", t)
  BY <1>2, Arrives
<1>4. Local(Sink, m) <=> Sink = Source
  BY <1>3 DEF Local, Ident
<1>5. /\ p \in Pointers /\ Decoded(Sink, m, p)[p] \in Payload
      /\ Decoded(Sink, m, p)[p].masked = m.masked
      /\ Decoded(Sink, m, p)[p].owner = IF Sink = Source THEN NoOwner ELSE Ident(o)
      /\ ~ m.masked => Decoded(Sink, m, p)[p].data = m.data
      /\ \A q \in Pointers \ {p} : Decoded(Sink, m, p)[q] = heap[Sink][q]
      /\ Sink = Source => p = o
      /\ Sink # Source => heap[Sink][p] = NoPayload
  BY <1>1, <1>2, <1>3, <1>4, DecodeFacts DEF Ident
<1>6. /\ heap'[Sink] = Decoded(Sink, m, p)
      /\ \A c \in Domain \ {Sink} : heap'[c] = heap[c]
  BY <1>1, <1>2 DEF TypeOK
<1>7. /\ heap'[Sink][p] # NoPayload
      /\ heap'[Sink][p].owner = IF Sink = Source THEN NoOwner ELSE Ident(o)
      /\ heap'[Sink][p].masked = m.masked
      /\ ~ m.masked => heap'[Sink][p].data = m.data
  BY <1>5, <1>6, Nothings
<1>8. \A c \in Domain, q \in Pointers : ~ (c = Sink /\ q = p) => heap'[c][q] = heap[c][q]
  BY <1>5, <1>6
<1>9. p \notin held
  BY <1>1, <1>3, <1>5 DEF HeldThere
<1>10. \A q \in held : q \in Pointers /\ heap'[Sink][q] = heap[Sink][q]
  BY <1>1, <1>2, <1>8, <1>9 DEF TypeOK
<1>11. Kept(o, p)'
  BY <1>5, <1>7 DEF Kept, Ident
<1>12. ASSUME NEW q \in held
       PROVE  ~ Kept(o, q)'
  <2>1. ~ Kept(o, q) /\ q # p
    BY <1>3, <1>9, <1>10 DEF NoneKept
  <2>2. QED
    BY <1>10, <2>1 DEF Kept, Ident
<1>13. OnlyKept(o, p)'
  <2>1. \A q \in Pointers : Kept(o, q)' <=> q = p
    BY <1>11, <1>12 DEF Kept
  <2>2. NonePosted(o)'
    BY <1>3 DEF NonePosted, Posted, Ident
  <2>3. QED
    BY <1>3, <2>1, <2>2 DEF OnlyKept
<1>14. ASSUME NEW q \in Pointers \ {o}
       PROVE  Same(q)
  <2>1. SamePosted(q)
    BY DEF SamePosted, Posted, Ident
  <2>2. ~ Kept(q, p)'
    BY <1>5, <1>7, Nothings DEF Kept, Ident
  <2>3. ASSUME NEW r \in Pointers
        PROVE  /\ Kept(q, r)' <=> Kept(q, r)
               /\ Kept(q, r) => heap'[Sink][r] = heap[Sink][r]
    <3>1. CASE r \in held
      BY <1>10, <3>1 DEF Kept, Ident
    <3>2. CASE r \notin held /\ r # p
      BY <3>2 DEF Kept
    <3>3. CASE r = p
      BY <1>9, <2>2, <3>3 DEF Kept
    <3>4. QED
      BY <3>1, <3>2, <3>3
  <2>4. SameKept(q)
    BY <2>3 DEF SameKept
  <2>5. QED
    BY <1>1, <1>2, <1>3, <2>1, <2>4, Advances
<1>15. ASSUME NEW t \in Transactions \ Masked, outcome[t] = Waiting(o)
       PROVE  AnswerFor(o, t)'
  <2>1. Says(heap'[Sink][p], "question", t)
    BY <1>3, <1>7, <1>15 DEF Says
  <2>2. QED
    BY <1>13, <2>1 DEF AnswerFor, OnlyKept, NoneWired, NonePosted, Says, What
<1>16. CarrierInv' /\ AnswerInv'
  <2>1. Waits(o)'
    BY <1>3 DEF Waits, Waiting
  <2>2. IF Waits(o)' THEN Somewhere(o)' ELSE Nowhere(o)'
    BY <1>5, <1>13, <2>1 DEF Somewhere
  <2>3. \A t \in Transactions \ Masked : outcome'[t] = Waiting(o) => AnswerFor(o, t)'
    BY <1>15
  <2>4. QED
    BY <1>1, <1>14, <2>2, <2>3, OneMoves
<1>17. HomeInv'
  <2>1. \A a \in Hops, b \in Ends : \A k \in DOMAIN wire'[a][b] :
          \E q \in Pointers : wire'[a][b][k].owner = Ident(q)
    BY <1>1, <1>2, TakenHome
  <2>2. ASSUME NEW c \in Domain, NEW q \in Pointers, heap'[c][q] # NoPayload
        PROVE  IF c = Source THEN heap'[c][q].owner = NoOwner /\ Waits(q)
               ELSE /\ c = Sink /\ q \in held'
                    /\ \E r \in Pointers : heap'[c][q].owner = Ident(r)
    <3>1. CASE c = Sink /\ q = p
      BY <1>3, <1>5, <1>7, <3>1
    <3>2. CASE ~ (c = Sink /\ q = p)
      BY <1>1, <1>8, <2>2, <3>2 DEF HomeInv
    <3>3. QED
      BY <3>1, <3>2
  <2>3. \A q \in Pointers : Waits(q) => heap'[Source][q] # NoPayload
    BY <1>1, <1>2, <1>7, <1>8 DEF HomeInv
  <2>4. \A q \in Pointers : Waits(q)' <=> Waits(q)
    BY DEF Waits, Waiting
  <2>5. QED
    BY <1>1, <2>1, <2>2, <2>3, <2>4 DEF HomeInv, Ident
<1>18. HeldThere' /\ RightAnswer'
  BY <1>1, <1>7, <1>10 DEF HeldThere, RightAnswer
<1>19. QED
  BY <1>16, <1>17, <1>18 DEF BridgeInv

(* The first proxy writes the answer to the payload of the initiator, who  *)
(* takes it and frees the payload.                                         *)
LEMMA ReturnStep ==
    ASSUME BridgeInv, TypeOK', NEW h \in Hops, NEW m \in Message, NEW p \in Places(Source, m),
           wire[h]["proxy"] # <<>>, m = Head(wire[h]["proxy"]), Received(h, "proxy"),
           heap' = [heap EXCEPT ![Source] = Free(Decoded(Source, m, p), p)],
           outcome' = [t \in Transactions |->
                         IF outcome[t] = Waiting(p) THEN Decoded(Source, m, p)[p].data
                                                    ELSE outcome[t]],
           UNCHANGED <<sending, held>>
    PROVE  BridgeInv'
<1>1. TypeOK /\ HeldThere /\ HomeInv /\ CarrierInv /\ AnswerInv /\ RightAnswer
  BY DEF BridgeInv
<1>2. "proxy" \in Ends /\ Sink \in Domain /\ Source \in Domain /\ What("proxy") = "answer"
  BY RouteFacts DEF Ends, What
<1>3. PICK o \in Pointers :
        /\ m.owner = Ident(o)
        /\ NoneWired(o)' /\ NoneKept(o) /\ NonePosted(o)
        /\ heap[Source][o].owner = NoOwner
        /\ Sink = Source => o \notin held
        /\ \A q \in Pointers \ {o} : ~ Wired(q, h, "proxy", 1)
        /\ \A t \in Transactions \ Masked :
             outcome[t] = Waiting(o) => Says(m, "answer", t)
  BY <1>2, Arrives
<1>4. Local(Source, m)
  BY <1>3 DEF Local, Ident
<1>5. /\ p = o /\ Decoded(Source, m, p) \in Memory /\ Decoded(Source, m, p)[p] \in Payload
      /\ ~ m.masked => Decoded(Source, m, p)[p].data = m.data
      /\ \A q \in Pointers \ {p} : Decoded(Source, m, p)[q] = heap[Source][q]
  BY <1>1, <1>2, <1>3, <1>4, DecodeFacts DEF Ident
<1>6. heap'[Source][o] = NoPayload /\ NoPayload.owner = NoOwner
  BY <1>1, <1>2, <1>5 DEF Free, Memory, TypeOK, NoPayload
<1>7. \A c \in Domain, q \in Pointers : ~ (c = Source /\ q = o) => heap'[c][q] = heap[c][q]
  BY <1>1, <1>2, <1>5 DEF Free, Memory, TypeOK
<1>8. PICK data \in Data : data = Decoded(Source, m, p)[p].data
  BY <1>5 DEF Payload
<1>9. \A t \in Transactions :
        outcome'[t] = IF outcome[t] = Waiting(o) THEN data ELSE outcome[t]
  BY <1>5, <1>8
<1>10. ~ Waits(o)' /\ \A q \in Pointers \ {o}, t \in Transactions :
         outcome'[t] = Waiting(q) <=> outcome[t] = Waiting(q)
  BY <1>9, Nothings DEF Waits, Waiting
<1>11. \A q \in Pointers : heap'[Sink][q].owner = heap[Sink][q].owner
  BY <1>2, <1>3, <1>6, <1>7
<1>12. \A q \in held : heap'[Sink][q] = heap[Sink][q]
  BY <1>1, <1>2, <1>3, <1>7 DEF TypeOK
<1>13. \A r, q \in Pointers : Kept(r, q)' <=> Kept(r, q)
  BY <1>11 DEF Kept, Ident
<1>14. ASSUME NEW q \in Pointers \ {o}
       PROVE  Same(q)
  <2>1. SamePosted(q)
    BY DEF SamePosted, Posted, Ident
  <2>2. SameKept(q)
    BY <1>12, <1>13 DEF SameKept, Kept
  <2>3. QED
    BY <1>1, <1>2, <1>3, <2>1, <2>2, Advances
<1>15. Nowhere(o)'
  <2>1. NonePosted(o)'
    BY <1>3 DEF NonePosted, Posted, Ident
  <2>2. NoneKept(o)'
    BY <1>3, <1>13 DEF NoneKept
  <2>3. QED
    BY <1>3, <2>1, <2>2 DEF Nowhere
<1>16. CarrierInv' /\ AnswerInv'
  <2>1. IF Waits(o)' THEN Somewhere(o)' ELSE Nowhere(o)'
    BY <1>10, <1>15
  <2>2. \A t \in Transactions \ Masked : outcome'[t] = Waiting(o) => AnswerFor(o, t)'
    BY <1>10 DEF Waits, Waiting
  <2>3. QED
    BY <1>1, <1>10, <1>14, <2>1, <2>2, OneMoves
<1>17. HomeInv'
  <2>1. \A a \in Hops, b \in Ends : \A k \in DOMAIN wire'[a][b] :
          \E q \in Pointers : wire'[a][b][k].owner = Ident(q)
    BY <1>1, <1>2, TakenHome
  <2>2. \A q \in Pointers \ {o} : Waits(q)' <=> Waits(q)
    BY <1>10 DEF Waits, Waiting
  <2>3. ASSUME NEW c \in Domain, NEW q \in Pointers, heap'[c][q] # NoPayload
        PROVE  IF c = Source THEN heap'[c][q].owner = NoOwner /\ Waits(q)'
               ELSE /\ c = Sink /\ q \in held
                    /\ \E r \in Pointers : heap'[c][q].owner = Ident(r)
    <3>1. ~ (c = Source /\ q = o)
      BY <1>6, <2>3
    <3>2. QED
      BY <1>1, <1>7, <2>2, <2>3, <3>1 DEF HomeInv
  <2>4. \A q \in Pointers : Waits(q)' => heap'[Source][q] # NoPayload
    BY <1>1, <1>2, <1>7, <1>10, <2>2 DEF HomeInv
  <2>5. QED
    BY <1>1, <2>1, <2>3, <2>4 DEF HomeInv, Ident
<1>18. HeldThere'
  BY <1>1, <1>12 DEF HeldThere
<1>19. RightAnswer'
  <2>1. ASSUME NEW t \in Transactions \ Masked, outcome'[t] \in Data
        PROVE  outcome'[t] = <<"answer", t>>
    <3>1. CASE outcome[t] = Waiting(o)
      <4>1. Says(m, "answer", t)
        BY <1>3, <3>1
      <4>2. QED
        BY <1>5, <1>8, <1>9, <3>1, <4>1 DEF Says
    <3>2. CASE outcome[t] # Waiting(o)
      BY <1>1, <1>9, <2>1, <3>2 DEF RightAnswer
    <3>3. QED
      BY <3>1, <3>2
  <2>2. QED
    BY <2>1 DEF RightAnswer, Data
<1>20. QED
  BY <1>16, <1>17, <1>18, <1>19 DEF BridgeInv

(* The initiator makes a payload where there is none, so it is not that of *)
(* a transaction under way.                                                *)
LEMMA IssueStep ==
    ASSUME BridgeInv, TypeOK', NEW t \in Transactions, Issue(t)
    PROVE  BridgeInv'
<1>1. TypeOK /\ HeldThere /\ HomeInv /\ CarrierInv /\ AnswerInv /\ RightAnswer
  BY DEF BridgeInv
<1>2. /\ Sink \in Domain /\ Source \in Domain /\ 1 \in Hops /\ "remote" \in Ends
      /\ What("remote") = "question"
  BY RouteFacts DEF Ends, What
<1> DEFINE x == [owner |-> NoOwner, data |-> <<"question", t>>, masked |-> t \in Masked]
<1>3. PICK o \in Pointers :
        /\ heap[Source][o] = NoPayload
        /\ Forwarded(Source, [heap[Source] EXCEPT ![o] = x], o, 1, "remote")
        /\ outcome' = [outcome EXCEPT ![t] = Waiting(o)]
  BY DEF Issue
<1>4. /\ outcome[t] = NoData /\ wire' = wire /\ held' = held /\ sending[Source] = NotSending
  BY DEF Issue, Run
<1>b. PICK b \in BOOLEAN : b = (t \in Masked)
  <2>1. t \in Masked => (t \in Masked) = TRUE
    BY Zenon
  <2>2. t \notin Masked => (t \in Masked) = FALSE
    BY SMT
  <2>3. QED
    BY <2>1, <2>2
<1>m. x = [owner |-> NoOwner, data |-> <<"question", t>>, masked |-> b]
  BY <1>b, Zenon
<1>5. /\ x \in Payload /\ x.owner = NoOwner /\ x.data = <<"question", t>>
      /\ t \notin Masked => x.masked = FALSE
  <2>1. t \notin Masked => b = FALSE
    BY <1>b
  <2> HIDE DEF x
  <2>2. QED
    BY <1>m, <2>1 DEF Payload, Data
<1> HIDE DEF x
<1>6. /\ [heap[Source] EXCEPT ![o] = x] \in Memory /\ [heap[Source] EXCEPT ![o] = x][o] = x
      /\ \A q \in Pointers \ {o} : [heap[Source] EXCEPT ![o] = x][q] = heap[Source][q]
  BY <1>1, <1>2, <1>5 DEF TypeOK, Memory
<1>7. PICK memory \in Memory : memory = [heap[Source] EXCEPT ![o] = x]
  BY <1>6
<1>8. /\ Encoded(Source, memory, o).owner = EncodedOwner(Source, memory, o)
      /\ Encoded(Source, memory, o).data = x.data
      /\ Encoded(Source, memory, o).masked = x.masked
      /\ sending'[Source] = [hop |-> 1, to |-> "remote", message |-> Encoded(Source, memory, o)]
      /\ sending'[Source] \in Letter
      /\ \A c \in Domain \ {Source} : sending'[c] = sending[c] /\ heap'[c] = heap[c]
      /\ \A q \in Pointers \ {o} : heap'[Source][q] = memory[q]
      /\ heap'[Source][o] = x
  <2>1. memory[o] = x /\ memory[o] \in Payload /\ memory[o].owner = NoOwner
    BY <1>5, <1>6, <1>7
  <2>2. Forwarded(Source, memory, o, 1, "remote")
    BY <1>3, <1>7
  <2>3. QED
    BY <1>1, <1>2, <2>1, <2>2, ForwardFacts
<1>9. EncodedOwner(Source, memory, o) = Ident(o)
  BY <1>5, <1>6, <1>7 DEF EncodedOwner, Ident
<1>10. PICK s \in Letter : s = sending'[Source]
  BY <1>8
<1>11. /\ s.to = "remote" /\ s.message.owner = Ident(o) /\ s # NotSending
       /\ s.message.data = <<"question", t>>
       /\ t \notin Masked => s.message.masked = FALSE
  BY <1>5, <1>8, <1>9, <1>10, Nothings
<1>12. \A c \in Domain, q \in Pointers : ~ (c = Source /\ q = o) => heap'[c][q] = heap[c][q]
  BY <1>6, <1>7, <1>8
<1>13. /\ heap'[Source][o] # NoPayload /\ heap'[Source][o].owner = NoOwner
       /\ NoPayload.owner = NoOwner
  BY <1>5, <1>8, Nothings DEF NoPayload
<1>14. ~ Waits(o)
  BY <1>1, <1>3 DEF HomeInv
<1>15. NoneWired(o) /\ NonePosted(o) /\ NoneKept(o)
  BY <1>1, <1>14 DEF CarrierInv, Nowhere
<1>16. \A q \in Pointers : heap'[Sink][q].owner = heap[Sink][q].owner
  BY <1>2, <1>3, <1>12, <1>13
<1>17. \A q \in held : heap'[Sink][q] = heap[Sink][q]
  BY <1>1, <1>2, <1>3, <1>12 DEF HeldThere, TypeOK
<1>18. \A r, q \in Pointers : Kept(r, q)' <=> Kept(r, q)
  BY <1>4, <1>16 DEF Kept, Ident
<1>19. \A u \in Transactions : outcome'[u] = IF u = t THEN Waiting(o) ELSE outcome[u]
  BY <1>1, <1>3 DEF TypeOK
<1>20. ASSUME NEW q \in Pointers \ {o}
       PROVE  /\ Same(q)
              /\ \A u \in Transactions : outcome'[u] = Waiting(q) <=> outcome[u] = Waiting(q)
  <2>1. SameWired(q)
    BY <1>4 DEF SameWired, Wired, Ident
  <2>2. SamePosted(q)
    BY <1>4, <1>8, <1>10, <1>11 DEF SamePosted, Posted, Ident
  <2>3. SameKept(q)
    BY <1>17, <1>18 DEF SameKept, Kept
  <2>4. \A u \in Transactions : outcome'[u] = Waiting(q) <=> outcome[u] = Waiting(q)
    BY <1>4, <1>19, Nothings
  <2>5. QED
    BY <2>1, <2>2, <2>3, <2>4, Stays
<1>21. OnlyPosted(o, Source)'
  <2>1. \A c \in Domain : Posted(o, c)' <=> c = Source
    BY <1>8, <1>10, <1>11, <1>15 DEF Posted, NonePosted, Ident
  <2>2. NoneWired(o)'
    BY <1>4, <1>15 DEF NoneWired, Wired, Ident
  <2>3. NoneKept(o)'
    BY <1>15, <1>18 DEF NoneKept
  <2>4. QED
    BY <2>1, <2>2, <2>3 DEF OnlyPosted
<1>22. CarrierInv' /\ AnswerInv'
  <2>1. Waits(o)'
    BY <1>19 DEF Waits, Waiting
  <2>2. IF Waits(o)' THEN Somewhere(o)' ELSE Nowhere(o)'
    BY <1>2, <1>21, <2>1 DEF Somewhere
  <2>3. ASSUME NEW u \in Transactions \ Masked, outcome'[u] = Waiting(o)
        PROVE  AnswerFor(o, u)'
    <3>1. u = t
      BY <1>14, <1>19, <2>3 DEF Waits
    <3>2. Says(s.message, What(s.to), t)
      BY <1>2, <1>11, <2>3, <3>1 DEF Says
    <3>3. QED
      BY <1>10, <1>21, <3>1, <3>2 DEF AnswerFor, OnlyPosted, NoneWired, NoneKept, Says, What
  <2>4. QED
    BY <1>1, <1>20, <2>2, <2>3, OneMoves
<1>23. HomeInv'
  <2>1. ASSUME NEW q \in Pointers
        PROVE  Waits(q)' <=> Waits(q) \/ q = o
    BY <1>4, <1>19, Nothings DEF Waits, Waiting
  <2>2. \A c \in Domain : sending'[c] # NotSending =>
          \E q \in Pointers : sending'[c].message.owner = Ident(q)
    BY <1>1, <1>8, <1>10, <1>11 DEF HomeInv
  <2>3. ASSUME NEW c \in Domain, NEW q \in Pointers, heap'[c][q] # NoPayload
        PROVE  IF c = Source THEN heap'[c][q].owner = NoOwner /\ Waits(q)'
               ELSE /\ c = Sink /\ q \in held
                    /\ \E r \in Pointers : heap'[c][q].owner = Ident(r)
    <3>1. CASE c = Source /\ q = o
      BY <1>13, <2>1, <3>1
    <3>2. CASE ~ (c = Source /\ q = o)
      BY <1>1, <1>12, <2>1, <2>3, <3>2 DEF HomeInv
    <3>3. QED
      BY <3>1, <3>2
  <2>4. \A q \in Pointers : Waits(q)' => heap'[Source][q] # NoPayload
    BY <1>1, <1>2, <1>12, <1>13, <2>1 DEF HomeInv
  <2>5. QED
    BY <1>1, <1>4, <2>2, <2>3, <2>4 DEF HomeInv, Ident
<1>24. HeldThere'
  BY <1>1, <1>4, <1>17 DEF HeldThere
<1>25. RightAnswer'
  BY <1>1, <1>19, Nothings DEF RightAnswer, Data
<1>26. QED
  BY <1>22, <1>23, <1>24, <1>25 DEF BridgeInv

(* The target answers in a payload it holds.                               *)
LEMMA AnswerStep ==
    ASSUME BridgeInv, TypeOK', Answer
    PROVE  BridgeInv'
<1>1. TypeOK /\ HeldThere /\ HomeInv /\ CarrierInv /\ AnswerInv /\ RightAnswer
  BY DEF BridgeInv
<1>2. /\ Sink \in Domain /\ Source \in Domain /\ Len(Route) - 1 \in Hops /\ "proxy" \in Ends
      /\ What("proxy") = "answer"
  BY RouteFacts DEF Ends, What
<1>3. PICK p \in held :
        /\ Forwarded(Sink, [heap[Sink] EXCEPT ![p].data = Answered(@)],
                     p, Len(Route) - 1, "proxy")
        /\ held' = held \ {p}
  BY DEF Answer
<1>4. wire' = wire /\ outcome' = outcome /\ sending[Sink] = NotSending
  BY DEF Answer, Run
<1>5. PICK n \in Hops : n = Len(Route) - 1
  BY <1>2
<1> DEFINE mem == [heap[Sink] EXCEPT ![p].data = Answered(@)]
<1>6. /\ p \in Pointers /\ mem \in Memory /\ mem[p] \in Payload
      /\ heap[Sink][p] \in Payload
      /\ mem[p].owner = heap[Sink][p].owner
      /\ mem[p].masked = heap[Sink][p].masked
      /\ mem[p].data = Answered(heap[Sink][p].data)
      /\ \A q \in Pointers \ {p} : mem[q] = heap[Sink][q]
  BY <1>1, AnsweredFacts
<1>7. Forwarded(Sink, mem, p, n, "proxy")
  BY <1>3, <1>5
<1> HIDE DEF mem
<1>8. PICK memory \in Memory : memory = mem
  BY <1>6
<1>9. /\ Encoded(Sink, memory, p).owner = EncodedOwner(Sink, memory, p)
      /\ Encoded(Sink, memory, p).data = memory[p].data
      /\ Encoded(Sink, memory, p).masked = memory[p].masked
      /\ sending'[Sink] = [hop |-> n, to |-> "proxy", message |-> Encoded(Sink, memory, p)]
      /\ sending'[Sink] \in Letter
      /\ \A c \in Domain \ {Sink} : sending'[c] = sending[c] /\ heap'[c] = heap[c]
      /\ \A q \in Pointers \ {p} : heap'[Sink][q] = memory[q]
      /\ heap'[Sink][p] = IF memory[p].owner = NoOwner THEN memory[p] ELSE NoPayload
  BY <1>1, <1>2, <1>6, <1>7, <1>8, ForwardFacts
<1>10. Sink = Source => heap[Sink][p].owner = NoOwner
  BY <1>1, <1>2, <1>6, Nothings DEF HomeInv
<1>11. PICK o \in Pointers :
         /\ Sink = Source => o = p
         /\ Sink # Source => heap[Sink][p].owner = Ident(o)
  BY <1>1, <1>2, <1>6, Nothings DEF HomeInv
<1>12. Kept(o, p)
  BY <1>11 DEF Kept
<1>13. Waits(o) /\ OnlyKept(o, p)
  BY <1>1, <1>6, <1>12, Seen
<1>14. NoneWired(o) /\ NonePosted(o) /\ \A q \in Pointers : Kept(o, q) => q = p
  BY <1>13 DEF OnlyKept
<1>15. EncodedOwner(Sink, memory, p) = Ident(o)
  <2>1. CASE Sink = Source
    BY <1>6, <1>8, <1>10, <1>11, <2>1 DEF EncodedOwner, Ident
  <2>2. CASE Sink # Source
    BY <1>6, <1>8, <1>11, <2>2, Nothings DEF EncodedOwner, Ident
  <2>3. QED
    BY <2>1, <2>2
<1>16. PICK s \in Letter : s = sending'[Sink]
  BY <1>9
<1>17. /\ s.to = "proxy" /\ s.message.owner = Ident(o) /\ s # NotSending
       /\ s.message.masked = heap[Sink][p].masked
       /\ s.message.data = Answered(heap[Sink][p].data)
  BY <1>6, <1>8, <1>9, <1>15, <1>16, Nothings
<1>18. \A c \in Domain, q \in Pointers : ~ (c = Sink /\ q = p) => heap'[c][q] = heap[c][q]
  BY <1>6, <1>8, <1>9
<1>19. /\ Sink = Source => heap'[Sink][p] # NoPayload /\ heap'[Sink][p].owner = NoOwner
       /\ Sink # Source => heap'[Sink][p] = NoPayload
  <2>1. CASE Sink = Source
    BY <1>6, <1>8, <1>9, <1>10, <2>1, Nothings
  <2>2. CASE Sink # Source
    BY <1>6, <1>8, <1>9, <1>11, <2>2, Nothings DEF Ident
  <2>3. QED
    BY <2>1, <2>2
<1>20. \A q \in held' : q \in held /\ q # p /\ q \in Pointers /\ heap'[Sink][q] = heap[Sink][q]
  BY <1>1, <1>2, <1>3, <1>18 DEF TypeOK
<1>21. ASSUME NEW q \in Pointers \ {o}
       PROVE  Same(q)
  <2>1. SameWired(q)
    BY <1>4 DEF SameWired, Wired, Ident
  <2>2. SamePosted(q)
    BY <1>4, <1>9, <1>16, <1>17 DEF SamePosted, Posted, Ident
  <2>3. ~ Kept(q, p)
    BY <1>10, <1>11, Nothings DEF Kept, Ident
  <2>4. SameKept(q)
    BY <1>3, <1>20, <2>3 DEF SameKept, Kept, Ident
  <2>5. QED
    BY <2>1, <2>2, <2>4, Stays
<1>22. OnlyPosted(o, Sink)'
  <2>1. \A c \in Domain : Posted(o, c)' <=> c = Sink
    BY <1>9, <1>14, <1>16, <1>17 DEF Posted, NonePosted, Ident
  <2>2. NoneWired(o)'
    BY <1>4, <1>14 DEF NoneWired, Wired, Ident
  <2>3. NoneKept(o)'
    BY <1>14, <1>20 DEF NoneKept, Kept, Ident
  <2>4. QED
    BY <2>1, <2>2, <2>3 DEF OnlyPosted
<1>23. ASSUME NEW t \in Transactions \ Masked, outcome[t] = Waiting(o)
       PROVE  AnswerFor(o, t)'
  <2>1. Says(heap[Sink][p], "question", t)
    BY <1>1, <1>6, <1>12, <1>23 DEF AnswerInv, AnswerFor
  <2>2. Answered(heap[Sink][p].data) = <<"answer", t>>
    BY <2>1 DEF Says, Answered
  <2>3. Says(s.message, What(s.to), t)
    BY <1>2, <1>17, <2>1, <2>2 DEF Says
  <2>4. QED
    BY <1>16, <1>22, <2>3 DEF AnswerFor, OnlyPosted, NoneWired, NoneKept, Says, What
<1>24. CarrierInv' /\ AnswerInv'
  <2>1. Waits(o)'
    BY <1>4, <1>13 DEF Waits, Waiting
  <2>2. IF Waits(o)' THEN Somewhere(o)' ELSE Nowhere(o)'
    BY <1>2, <1>22, <2>1 DEF Somewhere
  <2>3. \A t \in Transactions \ Masked : outcome'[t] = Waiting(o) => AnswerFor(o, t)'
    BY <1>4, <1>23
  <2>4. QED
    BY <1>1, <1>4, <1>21, <2>2, <2>3, OneMoves
<1>25. HomeInv'
  <2>1. \A c \in Domain : sending'[c] # NotSending =>
          \E q \in Pointers : sending'[c].message.owner = Ident(q)
    BY <1>1, <1>9, <1>16, <1>17 DEF HomeInv
  <2>2. ASSUME NEW c \in Domain, NEW q \in Pointers, heap'[c][q] # NoPayload
        PROVE  IF c = Source THEN heap'[c][q].owner = NoOwner /\ Waits(q)
               ELSE /\ c = Sink /\ q \in held'
                    /\ \E r \in Pointers : heap'[c][q].owner = Ident(r)
    <3>1. CASE c = Sink /\ q = p
      BY <1>11, <1>13, <1>19, <2>2, <3>1
    <3>2. CASE ~ (c = Sink /\ q = p)
      BY <1>1, <1>3, <1>18, <2>2, <3>2 DEF HomeInv
    <3>3. QED
      BY <3>1, <3>2
  <2>3. \A q \in Pointers : Waits(q) => heap'[Source][q] # NoPayload
    BY <1>1, <1>2, <1>18, <1>19 DEF HomeInv
  <2>4. QED
    BY <1>1, <1>4, <2>1, <2>2, <2>3 DEF HomeInv, Ident, Waits, Waiting
<1>26. HeldThere' /\ RightAnswer'
  BY <1>1, <1>4, <1>20 DEF HeldThere, RightAnswer
<1>27. QED
  BY <1>24, <1>25, <1>26 DEF BridgeInv

LEMMA SameStep ==
    ASSUME BridgeInv, TypeOK', UNCHANGED <<heap, wire, sending, held, outcome>>
    PROVE  BridgeInv'
<1>1. TypeOK /\ HeldThere /\ HomeInv /\ CarrierInv /\ AnswerInv /\ RightAnswer
  BY DEF BridgeInv
<1>2. ASSUME NEW p \in Pointers
      PROVE  Same(p) /\ (Waits(p)' <=> Waits(p))
  <2>1. SameWired(p) /\ SamePosted(p) /\ SameKept(p)
    BY DEF SameWired, SamePosted, SameKept, Wired, Posted, Kept, Ident
  <2>2. QED
    BY <2>1, Stays DEF Waits, Waiting
<1>3. CarrierInv'
  BY <1>1, <1>2 DEF CarrierInv, Same
<1>4. ASSUME NEW p \in Pointers, NEW t \in Transactions \ Masked, outcome[t] = Waiting(p)
      PROVE  AnswerFor(p, t)'
  BY <1>1, <1>2, <1>4 DEF AnswerInv, Same
<1>5. AnswerInv'
  BY <1>4 DEF AnswerInv, Waiting
<1>6. HomeInv'
  BY <1>1 DEF HomeInv, Ident, Waits, Waiting
<1>7. HeldThere' /\ RightAnswer'
  BY <1>1 DEF HeldThere, RightAnswer
<1>8. QED
  BY <1>3, <1>5, <1>6, <1>7 DEF BridgeInv

-----------------------------------------------------------------------------
LEMMA BridgeInit == Init => BridgeInv
<1> SUFFICES ASSUME Init PROVE BridgeInv
  OBVIOUS
<1>1. TypeOK
  BY BridgeInitType
<1>2. /\ \A h \in Hops, e \in Ends : wire[h][e] = <<>> /\ DOMAIN wire[h][e] = {}
      /\ \A d \in Domain : sending[d] = NotSending
      /\ held = {} /\ \A t \in Transactions : outcome[t] = NoData
      /\ \A d \in Domain, p \in Pointers : heap[d][p] = NoPayload
  BY DEF Init
<1>3. \A p \in Pointers : ~ Waits(p)
  BY <1>2, Nothings DEF Waits
<1>4. \A p \in Pointers : Nowhere(p)
  BY <1>2 DEF Nowhere, NoneWired, NonePosted, NoneKept, Wired, Posted, Kept
<1>5. CarrierInv
  BY <1>3, <1>4 DEF CarrierInv
<1>6. HomeInv
  BY <1>2, <1>3 DEF HomeInv
<1>7. HeldThere /\ RightAnswer
  BY <1>2, Nothings DEF HeldThere, RightAnswer
<1>8. AnswerInv
  BY <1>3 DEF AnswerInv, Waits
<1>9. QED
  BY <1>1, <1>5, <1>6, <1>7, <1>8 DEF BridgeInv

LEMMA BridgeStep == BridgeInv /\ [Next]_vars => BridgeInv'
<1> SUFFICES ASSUME BridgeInv, [Next]_vars PROVE BridgeInv'
  OBVIOUS
<1>1. TypeOK /\ HeldThere
  BY DEF BridgeInv
<1>2. TypeOK'
  BY <1>1, BridgeStepType
<1>3. /\ "proxy" \in Ends /\ "remote" \in Ends /\ Source \in Domain /\ Sink \in Domain
      /\ \A h \in Hops : /\ h \in Nat \ {0} /\ Route[h] \in Domain /\ Route[h + 1] \in Domain
                         /\ h + 1 # Len(Route) => h + 1 \in Hops
                         /\ h # 1 => h - 1 \in Hops
  BY RouteFacts DEF Ends
<1>4. ASSUME NEW d \in Domain, Flush(d)
      PROVE  BridgeInv'
  BY <1>2, <1>4, FlushStep
<1>5. ASSUME NEW h \in Hops, Accept(h)
      PROVE  BridgeInv'
  BY <1>2, <1>5, SameStep DEF Accept
<1>6. ASSUME NEW t \in Transactions, Issue(t)
      PROVE  BridgeInv'
  BY <1>2, <1>6, IssueStep
<1>7. ASSUME NEW h \in Hops, RemoteReceive(h)
      PROVE  BridgeInv'
  <2>1. PICK d \in Domain : d = Route[h + 1]
    BY <1>3
  <2>2. /\ wire[h]["remote"] # <<>> /\ Received(h, "remote") /\ outcome' = outcome
        /\ sending[d] = NotSending
    BY <1>7, <2>1 DEF RemoteReceive, Run
  <2>3. PICK m \in Message : m = Head(wire[h]["remote"])
    BY <1>1, <1>3, <2>2, TakenFacts
  <2>4. PICK p \in Places(d, m) :
          IF h + 1 = Len(Route)
            THEN /\ heap' = [heap EXCEPT ![d] = Decoded(d, m, p)]
                 /\ held' = held \cup {p}
                 /\ UNCHANGED sending
            ELSE /\ Forwarded(d, Decoded(d, m, p), p, h + 1, "remote")
                 /\ UNCHANGED held
    BY <1>7, <2>1, <2>3 DEF RemoteReceive
  <2>5. CASE h + 1 = Len(Route)
    <3>1. d = Sink
      BY <2>1, <2>5 DEF Sink
    <3>2. /\ p \in Places(Sink, m)
          /\ heap' = [heap EXCEPT ![Sink] = Decoded(Sink, m, p)]
          /\ held' = held \cup {p}
          /\ UNCHANGED <<sending, outcome>>
      BY <2>2, <2>4, <2>5, <3>1
    <3>3. QED
      BY <1>2, <2>2, <2>3, <3>2, LastStep
  <2>6. CASE h + 1 # Len(Route)
    <3>1. PICK g \in Hops : g = h + 1
      BY <1>3, <2>6
    <3>2. Forwarded(d, Decoded(d, m, p), p, g, "remote") /\ UNCHANGED <<held, outcome>>
      BY <2>2, <2>4, <2>6, <3>1
    <3>3. QED
      BY <1>2, <1>3, <2>2, <2>3, <3>2, PassStep
  <2>7. QED
    BY <2>5, <2>6
<1>8. ASSUME NEW h \in Hops, ProxyReceive(h)
      PROVE  BridgeInv'
  <2>1. PICK d \in Domain : d = Route[h]
    BY <1>3
  <2>2. /\ wire[h]["proxy"] # <<>> /\ Received(h, "proxy") /\ held' = held
        /\ sending[d] = NotSending
    BY <1>8, <2>1 DEF ProxyReceive, Run
  <2>3. PICK m \in Message : m = Head(wire[h]["proxy"])
    BY <1>1, <1>3, <2>2, TakenFacts
  <2>4. PICK p \in Places(d, m) :
          IF h = 1
            THEN /\ heap' = [heap EXCEPT ![d] = Free(Decoded(d, m, p), p)]
                 /\ outcome' = [t \in Transactions |->
                                  IF outcome[t] = Waiting(p) THEN Decoded(d, m, p)[p].data
                                                             ELSE outcome[t]]
                 /\ UNCHANGED sending
            ELSE /\ Forwarded(d, Decoded(d, m, p), p, h - 1, "proxy")
                 /\ UNCHANGED outcome
    BY <1>8, <2>1, <2>3 DEF ProxyReceive
  <2>5. CASE h = 1
    <3>1. d = Source
      BY <2>1, <2>5 DEF Source
    <3>2. /\ p \in Places(Source, m)
          /\ heap' = [heap EXCEPT ![Source] = Free(Decoded(Source, m, p), p)]
          /\ outcome' = [t \in Transactions |->
                           IF outcome[t] = Waiting(p) THEN Decoded(Source, m, p)[p].data
                                                      ELSE outcome[t]]
          /\ UNCHANGED <<sending, held>>
      BY <2>2, <2>4, <2>5, <3>1
    <3>3. QED
      BY <1>2, <2>2, <2>3, <3>2, ReturnStep
  <2>6. CASE h # 1
    <3>1. PICK g \in Hops : g = h - 1
      BY <1>3, <2>6
    <3>2. Forwarded(d, Decoded(d, m, p), p, g, "proxy") /\ UNCHANGED <<held, outcome>>
      BY <2>2, <2>4, <2>6, <3>1
    <3>3. QED
      BY <1>2, <1>3, <2>2, <2>3, <3>2, PassStep
  <2>7. QED
    BY <2>5, <2>6
<1>9. CASE Answer
  BY <1>2, <1>9, AnswerStep
<1>10. ASSUME NEW d \in Domain, NEW th, Idle(d, th)
       PROVE  BridgeInv'
  BY <1>2, <1>10, SameStep DEF Idle
<1>11. CASE UNCHANGED vars
  BY <1>2, <1>11, SameStep DEF vars
<1>12. QED
  BY <1>4, <1>5, <1>6, <1>7, <1>8, <1>9, <1>10, <1>11 DEF Next, Progress

LEMMA BridgeInvariant == Spec => []BridgeInv
  BY BridgeInit, BridgeStep, PTL DEF Spec

(* Every variable keeps its type; of the ways: no more messages than fit.  *)
THEOREM BridgeTypeCorrect == Spec => []TypeOK
<1>1. BridgeInv => TypeOK
  BY DEF BridgeInv
<1>2. QED
  BY <1>1, BridgeInvariant, PTL

(* The initiator gets for each transaction the answer the target gave to   *)
(* it, if the payload has no byte enables, whatever the route, the order   *)
(* of the answers and the payloads the wrappers make on the way.           *)
THEOREM RightAnswerCorrect == Spec => []RightAnswer
<1>1. BridgeInv => RightAnswer
  BY DEF BridgeInv
<1>2. QED
  BY <1>1, BridgeInvariant, PTL

(* No wrapper leaves a payload behind.                                     *)
THEOREM NoStrayCorrect == Spec => []NoStray
<1>1. BridgeInv => NoStray
  BY DEF BridgeInv, HomeInv, NoStray, Waits
<1>2. QED
  BY <1>1, BridgeInvariant, PTL

LEMMA CarrierCounts == BridgeInv => OneCarrier
<1> SUFFICES ASSUME BridgeInv, NEW p \in Pointers
             PROVE  Cardinality(Carriers(p)) = IF Waits(p) THEN 1 ELSE 0
  BY DEF OneCarrier, Waits
<1>1. TypeOK /\ HomeInv /\ CarrierInv
  BY DEF BridgeInv
<1> DEFINE wired == {c \in Hops \X Ends \X (1 .. Capacity) : Wired(p, c[1], c[2], c[3])}
           posted == {<<d, "sending">> : d \in {k \in Domain : Posted(p, k)}}
           kept == {<<q>> : q \in {r \in held : Kept(p, r)}}
<1>2. Carriers(p) = wired \cup posted \cup kept
  BY DEF Carriers, Wired, Posted, Kept, Ident
<1>3. \A h \in Hops, e \in Ends, k \in Nat : Wired(p, h, e, k) => k \in 1 .. Capacity
  BY <1>1, PositionsNat, CapacityAssumption DEF Wired
<1>4. 1 .. Capacity \subseteq Nat /\ held \subseteq Pointers
  BY <1>1 DEF TypeOK
<1>5. CASE ~ Waits(p)
  <2>1. Nowhere(p)
    BY <1>1, <1>5 DEF CarrierInv
  <2>2. wired = {} /\ posted = {} /\ kept = {}
    BY <1>4, <2>1 DEF Nowhere, NoneWired, NonePosted, NoneKept
  <2>3. Carriers(p) = {}
    BY <1>2, <2>2
  <2>4. QED
    BY <1>5, <2>3, FS_EmptySet
<1>6. CASE Waits(p)
  <2>1. \E c : Carriers(p) = {c}
    <3>1. CASE \E h \in Hops, e \in Ends, k \in Nat : OnlyWired(p, h, e, k)
      <4>1. PICK h \in Hops, e \in Ends, k \in Nat : OnlyWired(p, h, e, k)
        BY <3>1
      <4>2. posted = {} /\ kept = {}
        BY <1>4, <4>1 DEF OnlyWired, NonePosted, NoneKept
      <4>3. k \in 1 .. Capacity /\ Wired(p, h, e, k)
        BY <1>3, <4>1 DEF OnlyWired
      <4>4. wired = {<<h, e, k>>}
        BY <1>4, <4>1, <4>3 DEF OnlyWired
      <4>5. QED
        BY <1>2, <4>2, <4>4
    <3>2. CASE \E d \in Domain : OnlyPosted(p, d)
      <4>1. PICK d \in Domain : OnlyPosted(p, d)
        BY <3>2
      <4>2. wired = {} /\ kept = {} /\ posted = {<<d, "sending">>}
        BY <1>4, <4>1 DEF OnlyPosted, NoneWired, NoneKept
      <4>3. QED
        BY <1>2, <4>2
    <3>3. CASE \E q \in Pointers : OnlyKept(p, q)
      <4>1. PICK q \in Pointers : OnlyKept(p, q)
        BY <3>3
      <4>2. wired = {} /\ posted = {}
        BY <1>4, <4>1 DEF OnlyKept, NoneWired, NonePosted
      <4>3. {r \in held : Kept(p, r)} = {q}
        BY <1>4, <4>1 DEF OnlyKept, Kept
      <4>4. kept = {<<q>>}
        BY <4>3
      <4>5. QED
        BY <1>2, <4>2, <4>4
    <3>4. QED
      BY <1>1, <1>6, <3>1, <3>2, <3>3 DEF CarrierInv, Somewhere
  <2>2. QED
    BY <1>6, <2>1, FS_Singleton
<1>7. QED
  BY <1>5, <1>6

(* A payload of the initiator is under way once from the call of the proxy *)
(* to the answer and not at all before and after: no answer is written to  *)
(* memory that was freed or given to another payload.                      *)
THEOREM OneCarrierCorrect == Spec => []OneCarrier
  BY BridgeInvariant, CarrierCounts, PTL
=============================================================================
