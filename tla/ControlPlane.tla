---------------------------- MODULE ControlPlane ----------------------------
(***************************************************************************)
(* One run of the program: the controller and the clients of N domains,    *)
(* over the control connections.                                           *)
(***************************************************************************)
EXTENDS ControllerSerial, ClientSerial

vars == <<channelVars, controllerVars, clientVars>>

TypeOK == ChannelTypeOK /\ ControllerTypeOK /\ ClientTypeOK

Init == ChannelInit /\ ControllerInit /\ ClientInit

(* The destructors of MPI meet in an MPI_Barrier of all the processes.     *)
Leaving ==
    Backend = "MPI" => /\ phase = "returned"
                       /\ \A d \in Domains : pc[d] \in {"ended", "left", "closed"}

Controller ==
    /\ \/ \E d \in Domains : Accept(d)
       \/ ControllerServe
       \/ Leaving /\ Hangup
    /\ UNCHANGED clientVars

Progress(d) ==
    /\ ClientProgress(d) \/ (Leaving /\ Close(d))
    /\ UNCHANGED controllerVars

Choice(d) == ClientChoice(d) /\ UNCHANGED controllerVars

Terminated ==
    /\ ~ linked
    /\ \A d \in Domains : pc[d] \in Gone

Done == Terminated /\ UNCHANGED vars

Next ==
    \/ Controller
    \/ \E d \in Domains : Progress(d) \/ Choice(d)
    \/ Done

Spec == Init /\ [][Next]_vars

(* The controller polls for ever and every client process is scheduled.    *)
(* Which calls the modules make, and whether they stop, is up to them.     *)
Fairness ==
    /\ WF_vars(Controller)
    /\ \A d \in Domains : WF_vars(Progress(d))

FairSpec == Spec /\ Fairness

-----------------------------------------------------------------------------
(* What a domain has done: it asked for the start of the simulation, and   *)
(* it told the controller that it ended.                                   *)
Ready(d) == pc[d] \in {"waitStart", "run", "waitRunCall", "ended", "closed"}

Running(d) == pc[d] \in {"run", "waitRunCall"}

Ended(d) == pc[d] \in {"ended", "closed"}

(* The controller has received everything, the END included, from d.       *)
Counted == {d \in Domains : Ended(d) /\ up[d] = <<>>}

(* No simulation runs before every domain has made its wrappers and is at  *)
(* the start barrier: action_barrier releases nobody early, neither over   *)
(* the END of a domain nor over the barrier MPI adds to bind(). Holds if   *)
(* every domain starts and none calls EXIT.                                *)
StartTogether ==
    \A d \in Domains : Running(d) => \A e \in Domains : Ready(e)

(* A proxy wrapper is connected to the remote wrapper of the very socket   *)
(* its initiator names, in the domain that holds it, although the address  *)
(* went through two messages and the map of the controller. Holds if every *)
(* domain starts and none calls EXIT.                                      *)
BindsToHome ==
    \A d \in Domains : \A s \in Imported(d) :
        LET a == proxies[d][s]
        IN a.port # 0 => /\ a.domain = Home[s]
                         /\ a.port \in DOMAIN remotes[Home[s]]
                         /\ remotes[Home[s]][a.port] = s

(* "ending" counts the domains whose END is still to come, from the first  *)
(* END on: action_end neither misses a domain nor counts one twice. Holds  *)
(* if no domain calls EXIT.                                                *)
EndingCount ==
    ending = IF Counted = {} THEN 0 ELSE N - Cardinality(Counted)

(* start() of the controller returns, and the connections are closed,      *)
(* after every domain has ended and its END has been received: no domain   *)
(* loses the controller while it runs. Holds if no domain calls EXIT.      *)
ReturnsLast ==
    phase = "returned" => Counted = Domains

(* The user sees before_simulation, then one verdict, and the verdict is   *)
(* that of the END that came first. Holds if every domain starts and none  *)
(* calls EXIT.                                                             *)
CallbacksInOrder ==
    IF ending = 0 /\ phase # "returned"
      THEN fired \in {<<>>, <<"before">>}
      ELSE fired = <<"before", IF ending_status = 0 THEN "success" ELSE "error">>

(* Whatever the domains do, EXIT and an early end included, the user gets  *)
(* at most one verdict and each callback at most once.                     *)
OneVerdict ==
    /\ \A j, k \in DOMAIN fired : fired[j] = fired[k] => j = k
    /\ ~ \E j, k \in DOMAIN fired : fired[j] = "success" /\ fired[k] = "error"

(* The calls of d whose answer d has not received.                         *)
Calling(d) == pc[d] \in {"waitSetupCall", "waitRunCall"}

Outstanding(d) ==
    LET calls_in(stream) == {k \in DOMAIN stream : stream[k].type = "SYSCALL"}
    IN Cardinality(calls_in(up[d])) + Cardinality(calls_in(down[d]))

(* No END has come, so none can be taken for the answer of a call.         *)
NobodyEnded == ending = 0 /\ phase # "returned"

(* Until a domain has ended, the only answer under way to a domain is that *)
(* of the call it blocks in. From then on there may be one more: END took  *)
(* the place of an answer, and since END comes once the answers never lag  *)
(* by more than that one call. Holds if every domain starts and none calls *)
(* EXIT.                                                                   *)
AnswersAtMostOneLate ==
    \A d \in Domains :
        Outstanding(d) <= (IF Calling(d) THEN 1 ELSE 0)
                          + (IF NobodyEnded THEN 0 ELSE 1)

(* Every system call is answered by its own answer.                        *)
OwnAnswer ==
    \A d \in Domains :
        Calling(d) /\ down[d] # <<>> =>
            Head(down[d]).type = "SYSCALL" /\ Head(down[d]).id = calls[d]

(* No call of sbrk, answered or under way, gives memory back.              *)
Sbrking(d) == Calling(d) /\ pending[d].call = "SBRK"

NothingGivenBack ==
    \A d \in Domains :
        /\ Sbrking(d) => pending[d].value >= 0
        /\ \A j \in DOMAIN granted[d] : granted[d][j].size >= 0

Apart(r, q) == r.base + r.size <= q.base \/ q.base + q.size <= r.base

(* The user has been called with a verdict.                                *)
Decided == \E k \in DOMAIN fired : fired[k] \in {"success", "error"}

(* The regions of the one heap that sbrk returned, before and during the   *)
(* simulation, to all of the domains do not overlap: the static break      *)
(* moves once for each call, by what that call asked for. Holds until the  *)
(* verdict, as END may then take the place of an answer, and as long as    *)
(* nobody gives memory back, which moves the break under the others.       *)
HeapDisjoint ==
    ~ Decided /\ NothingGivenBack =>
        \A d, e \in Domains : \A j \in DOMAIN granted[d], k \in DOMAIN granted[e] :
            (d # e \/ j # k) => Apart(granted[d][j], granted[e][k])

(* The regions served to d: those returned and the one on its way.         *)
Served(d) ==
    IF Sbrking(d) /\ down[d] # <<>> THEN Append(granted[d], Returned(d)) ELSE granted[d]

(* Whatever the increments, the break of the domains is one: the calls of  *)
(* all domains have an order, which keeps that of each domain, in which    *)
(* every call returns the break the one before left, and the last leaves   *)
(* the break as it is. Holds until the verdict.                            *)
OneHeap ==
    ~ Decided =>
        LET served == UNION {{d} \X DOMAIN Served(d) : d \in Domains}
            last == Cardinality(served)
            left(c) == Served(c[1])[c[2]].base + Served(c[1])[c[2]].size
        IN \E order \in [1 .. last -> served] :
             /\ \A i, k \in 1 .. last :
                  i < k /\ order[i][1] = order[k][1] => order[i][2] < order[k][2]
             /\ \A i \in 1 .. last :
                  Served(order[i][1])[order[i][2]].base =
                      IF i = 1 THEN 0 ELSE left(order[i - 1])
             /\ heap_sbrk = IF last = 0 THEN 0 ELSE left(order[last])

(* With the barrier between the registrations and the queries, no query of *)
(* an MPI client comes before the registration it asks for. Holds if every *)
(* domain starts, none calls EXIT and a socket has one initiator.          *)
NoMissedQuery ==
    \A d \in Domains :
        pc[d] = "waitAddress" /\ down[d] # <<>> => AddressIn(Head(down[d])).port # 0

(* A run in which a domain finalized without having started is never       *)
(* reported as a success. Holds if no domain calls EXIT before its         *)
(* simulation.                                                             *)
QuitIsNoSuccess ==
    (\E d \in Quitters \ Failing : Ended(d) /\ ~ stop[d]) =>
        \A k \in DOMAIN fired : fired[k] # "success"

(* Registration, queries and barriers never leave a domain behind: every   *)
(* simulation starts.                                                      *)
EverybodyStarts == \A d \in Domains : <>Running(d)

(* When one domain has ended, every other one is told, stops and ends, and *)
(* all the processes leave the library.                                    *)
EverybodyLeaves == (\E d \in Domains : Ended(d)) ~> Terminated
-----------------------------------------------------------------------------
(* The life of a run as its user sees it.                                  *)
StateOf(d) ==
    CASE Ended(d) -> "ended"
      [] Running(d) -> "running"
      [] pc[d] = "waitStart" -> "ready"
      [] OTHER -> "building"

ResultOf(d) ==
    IF ~ Ended(d) THEN "none" ELSE IF stop[d] THEN "success" ELSE "error"

Verdict ==
    IF \E k \in DOMAIN fired : fired[k] = "success" THEN "success"
    ELSE IF \E k \in DOMAIN fired : fired[k] = "error" THEN "error"
    ELSE "none"

Life == INSTANCE Lifecycle
            WITH state <- [d \in Domains |-> StateOf(d)],
                 result <- [d \in Domains |-> ResultOf(d)],
                 verdict <- Verdict,
                 returned <- phase = "returned"

(* The controller and the clients implement the lifecycle: each step of    *)
(* theirs is a step of it or leaves it alone, and fair scheduling makes    *)
(* the domains start, the verdict fall and the controller return. Holds if *)
(* every domain starts and none calls EXIT.                                *)
ImplementsLifecycle == Life!FairSpec
=============================================================================
