------------------------------ MODULE TlmBridge ------------------------------
(***************************************************************************)
(* Transactions between domains: the proxy wrapper in the domain of an     *)
(* initiator and the remote wrapper in the domain of its target carry a    *)
(* payload there and back. A route is a chain of domains; the modules in   *)
(* the middle of it pass a payload on, in both directions, as a bus does.  *)
(* A domain is one process and one thread: the kernel runs the threads of  *)
(* its modules and wrappers one at a time, each once in a nanosecond, and  *)
(* a thread in send_string keeps the process until the bytes are sent.     *)
(***************************************************************************)
EXTENDS Naturals, Sequences, FiniteSets

CONSTANTS
    Route,          \* the domains a transaction visits, its initiator's first
    Transactions,   \* the transactions of the initiator, in their order
    Masked,         \* those whose payload has byte enables
    Pointers,       \* addresses at which a domain may allocate a payload
    Capacity        \* messages that fit on the way between two wrappers

ASSUME RouteAssumption == Route \in Seq(Nat) /\ Len(Route) >= 2
ASSUME TransactionsAssumption == Transactions \subseteq Nat
ASSUME MaskedAssumption == Masked \subseteq Transactions
ASSUME CapacityAssumption == Capacity \in Nat \ {0}

Domain == {Route[k] : k \in DOMAIN Route}
Source == Route[1]
Sink == Route[Len(Route)]

(* Hop h has its proxy in Route[h] and its remote in Route[h + 1].         *)
Hops == 1 .. (Len(Route) - 1)
Ends == {"proxy", "remote"}

(* What a payload holds in its data array: the question of the initiator,  *)
(* the answer of the target, or the bytes of its byte enable array.        *)
Data == {<<"question", t>> : t \in Transactions}
        \cup {<<"answer", t>> : t \in Transactions} \cup {<<"enables">>}
NoData == <<"none">>
Waiting(p) == <<"waiting", p>>

(* The extension of a payload that came from another domain: that domain   *)
(* and the address of the payload there. NoOwner: it has no extension.     *)
Owner == [domain : Domain, pointer : Pointers]
NoOwner == [domain |-> 0]

Payload == [owner : Owner \cup {NoOwner}, data : Data, masked : BOOLEAN]
NoPayload == [owner |-> NoOwner]

(* The message of a payload: it always names an owner.                     *)
Message == [owner : Owner, data : Data, masked : BOOLEAN]

VARIABLES
    heap,       \* heap[d][p]: the payload at address p of domain d
    connfd,     \* the hops whose remote wrapper has accepted its proxy
    wire,       \* wire[h][e]: messages to end e of hop h
    sending,    \* sending[d]: the message domain d is sending, if it is
    ran,        \* ran[d]: the threads of d that ran in this nanosecond
    held,       \* addresses of the payloads the target has not answered
    outcome     \* outcome[t]: what the initiator got back for t

vars == <<heap, connfd, wire, sending, ran, held, outcome>>

NotSending == [hop |-> 0]

(* The threads of a domain: those of its wrappers and of its modules.      *)
Threads(d) ==
    {<<h, "proxy">> : h \in {k \in Hops : Route[k] = d}}
    \cup {<<h, "remote">> : h \in {k \in Hops : Route[k + 1] = d}}
    \cup (IF d = Source THEN {<<0, "initiator">>} ELSE {})
    \cup (IF d = Sink THEN {<<0, "target">>} ELSE {})

TypeOK ==
    /\ heap \in [Domain -> [Pointers -> Payload \cup {NoPayload}]]
    /\ connfd \subseteq Hops
    /\ wire \in [Hops -> [Ends -> Seq(Message)]]
    /\ \A h \in Hops, e \in Ends : Len(wire[h][e]) <= Capacity
    /\ sending \in [Domain -> {NotSending} \cup [hop : Hops, to : Ends, message : Message]]
    /\ ran \in [Domain -> SUBSET UNION {Threads(d) : d \in Domain}]
    /\ \A d \in Domain : ran[d] \subseteq Threads(d)
    /\ held \subseteq Pointers
    /\ outcome \in [Transactions -> Data \cup {NoData} \cup {Waiting(p) : p \in Pointers}]

Init ==
    /\ heap = [d \in Domain |-> [p \in Pointers |-> NoPayload]]
    /\ connfd = {}
    /\ wire = [h \in Hops |-> [e \in Ends |-> <<>>]]
    /\ sending = [d \in Domain |-> NotSending]
    /\ ran = [d \in Domain |-> {}]
    /\ held = {}
    /\ outcome = [t \in Transactions |-> NoData]

-----------------------------------------------------------------------------
(* The kernel of d runs thread th; when all have run, time goes on.        *)
Run(d, th) ==
    /\ sending[d] = NotSending
    /\ th \in Threads(d) \ ran[d]
    /\ ran' = [ran EXCEPT ![d] =
                 IF @ \cup {th} = Threads(d) THEN {} ELSE @ \cup {th}]

Free(memory, p) == [memory EXCEPT ![p] = NoPayload]

(* encode_payload: the message names the owner in the extension, or this   *)
(* payload; a payload with an extension is freed.                          *)
MutantUnowned(d, memory, p) == memory[p].owner

MutantEncodedOwner(d, memory, p) == [domain |-> d, pointer |-> p]

EncodedOwner(d, memory, p) ==
    IF memory[p].owner = NoOwner THEN [domain |-> d, pointer |-> p]
    ELSE memory[p].owner

Encoded(d, memory, p) ==
    [owner |-> EncodedOwner(d, memory, p),
     data |-> memory[p].data, masked |-> memory[p].masked]

MutantAfterEncode(memory, p) == memory

AfterEncode(memory, p) ==
    IF memory[p].owner = NoOwner THEN memory ELSE Free(memory, p)

(* decode_payload: in the domain of its owner the message is written to    *)
(* the payload it names, else to a new one. Of a payload of this domain    *)
(* the byte enables are written over the data.                             *)
MutantLocal(d, m) == FALSE

Local(d, m) == m.owner.domain = d

MutantWritten(d, m) ==
    IF Local(d, m) THEN heap[d][m.owner.pointer].data ELSE m.data

Written(d, m) ==
    IF m.masked /\ Local(d, m) THEN <<"enables">> ELSE m.data

Places(d, m) ==
    IF Local(d, m) THEN {m.owner.pointer}
    ELSE {p \in Pointers : heap[d][p] = NoPayload}

Decoded(d, m, p) ==
    [heap[d] EXCEPT ![p] =
        [owner |-> IF Local(d, m) THEN NoOwner ELSE m.owner,
         data |-> Written(d, m), masked |-> m.masked]]

(* send_payload: the payload at p of memory is sent by d to end e of hop h *)
Forwarded(d, memory, p, h, e) ==
    /\ sending' = [sending EXCEPT ![d] =
                     [hop |-> h, to |-> e, message |-> Encoded(d, memory, p)]]
    /\ heap' = [heap EXCEPT ![d] = AfterEncode(memory, p)]

(* send_string: done when the way has room.                                *)
Room(h, e) == Len(wire[h][e]) < Capacity

Flush(d) ==
    /\ sending[d] # NotSending
    /\ LET s == sending[d]
       IN /\ Room(s.hop, s.to)
          /\ wire' = [wire EXCEPT ![s.hop][s.to] = Append(@, s.message)]
    /\ sending' = [sending EXCEPT ![d] = NotSending]
    /\ UNCHANGED <<heap, connfd, ran, held, outcome>>

-----------------------------------------------------------------------------
(* The thread of a remote wrapper of TCP accepts, once; the loop of the    *)
(* wrapper finds nothing to receive before that.                           *)
Accept(h) ==
    /\ h \notin connfd
    /\ connfd' = connfd \cup {h}
    /\ UNCHANGED <<heap, wire, sending, ran, held, outcome>>

(* The initiator makes a payload and calls nb_transport_fw of its proxy.   *)
Issue(t) ==
    /\ Run(Source, <<0, "initiator">>)
    /\ outcome[t] = NoData
    /\ \A u \in Transactions : u < t => outcome[u] # NoData
    /\ \E p \in Pointers :
         /\ heap[Source][p] = NoPayload
         /\ Forwarded(Source,
                      [heap[Source] EXCEPT ![p] =
                          [owner |-> NoOwner, data |-> <<"question", t>>,
                           masked |-> t \in Masked]],
                      p, 1, "remote")
         /\ outcome' = [outcome EXCEPT ![t] = Waiting(p)]
    /\ UNCHANGED <<connfd, wire, held>>

Received(h, e) == wire' = [wire EXCEPT ![h][e] = Tail(@)]

(* proc_in of a remote: the payload goes to nb_transport_fw of the target, *)
(* or of a module that hands it to the proxy of the next hop.              *)
RemoteReceive(h) ==
    LET d == Route[h + 1]
        m == Head(wire[h]["remote"])
    IN /\ Run(d, <<h, "remote">>)
       /\ h \in connfd
       /\ wire[h]["remote"] # <<>>
       /\ Received(h, "remote")
       /\ \E p \in Places(d, m) :
            IF h + 1 = Len(Route)
              THEN /\ heap' = [heap EXCEPT ![d] = Decoded(d, m, p)]
                   /\ held' = held \cup {p}
                   /\ UNCHANGED sending
              ELSE /\ Forwarded(d, Decoded(d, m, p), p, h + 1, "remote")
                   /\ UNCHANGED held
       /\ UNCHANGED <<connfd, outcome>>

(* proc_in of a proxy: the payload goes to nb_transport_bw of a module on  *)
(* the way, which hands it to its remote, or of the initiator, which knows *)
(* its payload by the address and frees it.                                *)
ProxyReceive(h) ==
    LET d == Route[h]
        m == Head(wire[h]["proxy"])
    IN /\ Run(d, <<h, "proxy">>)
       /\ wire[h]["proxy"] # <<>>
       /\ Received(h, "proxy")
       /\ \E p \in Places(d, m) :
            IF h = 1
              THEN /\ heap' = [heap EXCEPT ![d] = Free(Decoded(d, m, p), p)]
                   /\ outcome' = [t \in Transactions |->
                                    IF outcome[t] = Waiting(p)
                                      THEN Decoded(d, m, p)[p].data
                                      ELSE outcome[t]]
                   /\ UNCHANGED sending
              ELSE /\ Forwarded(d, Decoded(d, m, p), p, h - 1, "proxy")
                   /\ UNCHANGED outcome
       /\ UNCHANGED <<connfd, held>>

(* The target answers in the payload it was given, in any order, and calls *)
(* nb_transport_bw of its remote.                                          *)
Answered(data) ==
    IF data[1] = "question" THEN <<"answer", data[2]>> ELSE data

Answer ==
    /\ Run(Sink, <<0, "target">>)
    /\ \E p \in held :
         /\ Forwarded(Sink, [heap[Sink] EXCEPT ![p].data = Answered(@)],
                      p, Len(Route) - 1, "proxy")
         /\ held' = held \ {p}
    /\ UNCHANGED <<connfd, wire, outcome>>

(* A thread with nothing to do, or a module that waits.                    *)
Idle(d, th) ==
    /\ Run(d, th)
    /\ \/ th[2] \notin Ends
       \/ th[2] = "remote" /\ th[1] \notin connfd
       \/ th[2] \in Ends /\ wire[th[1]][th[2]] = <<>>
    /\ UNCHANGED <<heap, connfd, wire, sending, held, outcome>>

Progress(d) ==
    \/ Flush(d)
    \/ \E h \in Hops : Route[h + 1] = d /\ RemoteReceive(h)
    \/ \E h \in Hops : Route[h] = d /\ ProxyReceive(h)
    \/ \E th \in Threads(d) : Idle(d, th)

Next ==
    \/ \E h \in Hops : Accept(h)
    \/ \E t \in Transactions : Issue(t)
    \/ Answer
    \/ \E d \in Domain : Progress(d)

(* Every process is scheduled, and so is the thread that accepts; a target *)
(* does not put off its answers for ever.                                  *)
Fairness ==
    /\ \A h \in Hops : WF_vars(Accept(h))
    /\ \A d \in Domain : WF_vars(Progress(d))
    /\ SF_vars(Answer)

Spec == Init /\ [][Next]_vars /\ Fairness

-----------------------------------------------------------------------------
(* The payloads that carry the transaction whose payload is at p: messages *)
(* on a way or being sent, and payloads the target holds.                  *)
Carriers(p) ==
    LET owner == [domain |-> Source, pointer |-> p]
    IN {c \in Hops \X Ends \X (1 .. Capacity) :
            /\ c[3] \in DOMAIN wire[c[1]][c[2]]
            /\ wire[c[1]][c[2]][c[3]].owner = owner}
       \cup {<<d, "sending">> : d \in
                {k \in Domain : /\ sending[k] # NotSending
                                /\ sending[k].message.owner = owner}}
       \cup {<<q>> : q \in
                {r \in held : \/ heap[Sink][r].owner = owner
                              \/ Sink = Source /\ r = p}}

(* A payload of the initiator is under way once from the call of the proxy *)
(* to the answer, and what is under way names a payload that is there: no  *)
(* answer is written to memory that was freed or given to another.         *)
OneCarrier ==
    \A p \in Pointers :
        Cardinality(Carriers(p)) =
            IF \E t \in Transactions : outcome[t] = Waiting(p) THEN 1 ELSE 0

(* The payloads wrappers make for the transactions of other domains are    *)
(* freed: those there are were made by the initiator or wait in the target.*)
NoStray ==
    \A d \in Domain, p \in Pointers :
        heap[d][p] # NoPayload =>
            \/ d = Source /\ \E t \in Transactions : outcome[t] = Waiting(p)
            \/ d = Sink /\ p \in held

(* The initiator gets for each transaction the answer the target gave to   *)
(* it, if the payload has no byte enables.                                 *)
RightAnswer ==
    \A t \in Transactions \ Masked :
        outcome[t] \in Data => outcome[t] = <<"answer", t>>

(* The initiator finds the answer of the target in its payload, byte       *)
(* enables or not. Does not hold: decode_payload writes the byte enables   *)
(* of a payload of this domain to its data.                                *)
AnswerKept ==
    \A t \in Transactions :
        outcome[t] \in Data => outcome[t] = <<"answer", t>>

(* Every transaction comes back, though both directions of every way are   *)
(* bounded and a domain that sends does not receive. Holds while the       *)
(* transactions under way do not fill both directions of a way: then the   *)
(* domains at its ends would each wait for the other to receive.           *)
Returns ==
    \A t \in Transactions : (outcome[t] # NoData ~> outcome[t] \in Data)
=============================================================================
