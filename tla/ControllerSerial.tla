-------------------------- MODULE ControllerSerial --------------------------
(***************************************************************************)
(* The controller: before_start() accepts every domain once, start() then  *)
(* polls the domains round robin and serves one message of one domain at a *)
(* time. Nothing but the controller reads up or writes down, so receiving  *)
(* a message, acting on it and sending the answers is one step: a client   *)
(* that runs between two of these calls sees the same streams.             *)
(***************************************************************************)
EXTENDS Messages

VARIABLES
    phase,          \* where the controller's start() is
    connected,      \* the domains with a connection (connfd[d - 1] >= 0)
    cursor,         \* the "i" of the polling loop
    ending,         \* domains that have still to end; 0: nobody has ended
    ending_notify,  \* who knows: it ended, or END was sent to it
    ending_status,  \* status of the end that came first
    counter,        \* the static counter of action_barrier
    targets,        \* registered sockets; NoAddress: not in the map
    heap_sbrk,      \* the static break of the simulated heap
    armed,          \* the callbacks that are not NULL
    fired           \* the callbacks called, in order

controllerVars == <<phase, connected, cursor, ending, ending_notify,
                    ending_status, counter, targets, heap_sbrk, armed, fired>>

Callbacks == {"before", "success", "error"}

ControllerTypeOK ==
    /\ phase \in {"accepting", "serving", "returned"}
    /\ connected \in SUBSET Domains
    /\ cursor \in Domains
    /\ ending \in 0 .. N
    /\ ending_notify \in [Domains -> BOOLEAN]
    /\ ending_status \in Status
    /\ counter \in 0 .. N
    /\ targets \in [Socket -> Address]
    /\ heap_sbrk \in Int
    /\ armed \in SUBSET Callbacks
    /\ fired \in Seq(Callbacks)

ControllerInit ==
    /\ phase = "accepting"
    /\ connected = {}
    /\ cursor = 1
    /\ ending = 0
    /\ ending_notify = [d \in Domains |-> FALSE]
    /\ ending_status = 0
    /\ counter = 0
    /\ targets = [s \in Socket |-> NoAddress]
    /\ heap_sbrk = 0
    /\ armed = Callbacks
    /\ fired = <<>>

-----------------------------------------------------------------------------
(* before_start: the sockets take connections in the order they come, MPI  *)
(* receives from rank 1, 2, ... The DOMAIN_REGISTRY goes back with the     *)
(* names of the domain's modules.                                          *)
InTurn(d) == Backend = "MPI" => 1 .. (d - 1) \subseteq connected

Accept(d) ==
    /\ phase = "accepting"
    /\ d \notin connected
    /\ InTurn(d)
    /\ up[d] # <<>>
    /\ Head(up[d]).type = "DOMAIN_REGISTRY"
    /\ connected' = connected \cup {d}
    /\ phase' = IF connected' = Domains THEN "serving" ELSE phase
    /\ up' = Received(up, d)
    /\ down' = Sent(down, d, DomainRegistry)
    /\ UNCHANGED <<linked, cursor, ending, ending_notify, ending_status,
                   counter, targets, heap_sbrk, armed, fired>>

-----------------------------------------------------------------------------
(* The loop of start(): the domain under the cursor has its turn.          *)
NextCursor(i) == (i % N) + 1

Turn ==
    /\ phase = "serving"
    /\ cursor' = NextCursor(cursor)

Serving(type) ==
    /\ Turn
    /\ up[cursor] # <<>>
    /\ Head(up[cursor]).type = type
    /\ up' = Received(up, cursor)

(* A callback pointer is called once: it is set to NULL afterwards.        *)
Call(cb) == IF cb \in armed THEN Append(fired, cb) ELSE fired

MutantDisarmed(cbs) == armed

Disarmed(cbs) == armed \ cbs

(* action_end: the first end opens the count, fixes the status and calls   *)
(* the user back; every end counts down by one.                            *)
MutantAlwaysFirst == TRUE

MutantNeverFirst == FALSE

FirstEnd == ending = 0

MutantEndsToCome == N - 1

EndsToCome == N

MutantMarked(notify, d) == notify

Marked(notify, d) == [notify EXCEPT ![d] = TRUE]

ActionEnd(d, status) ==
    /\ ending' = (IF FirstEnd THEN EndsToCome ELSE ending) - 1
    /\ ending_notify' =
         Marked(IF FirstEnd THEN [i \in Domains |-> FALSE] ELSE ending_notify, d)
    /\ ending_status' = IF FirstEnd THEN status ELSE ending_status
    /\ armed' = IF FirstEnd THEN Disarmed({"success", "error"}) ELSE armed
    /\ fired' = IF FirstEnd THEN Call(IF status = 0 THEN "success" ELSE "error")
                            ELSE fired

(* Nothing to receive from the domain: tell it once that the run ends.     *)
NotifyEnd ==
    /\ Turn
    /\ up[cursor] = <<>>
    /\ ending # 0
    /\ ~ ending_notify[cursor]
    /\ down' = Sent(down, cursor, End(ending_status))
    /\ ending_notify' = Marked(ending_notify, cursor)
    /\ UNCHANGED <<up, linked, phase, connected, ending, ending_status,
                   counter, targets, heap_sbrk, armed, fired>>

Skip ==
    /\ Turn
    /\ up[cursor] = <<>>
    /\ ending = 0 \/ ending_notify[cursor]
    /\ UNCHANGED <<channelVars, phase, connected, ending, ending_notify,
                   ending_status, counter, targets, heap_sbrk, armed, fired>>

(* An END after which nothing is left to count makes start() return.       *)
ServeEnd ==
    /\ Serving("END")
    /\ ActionEnd(cursor, Head(up[cursor]).status)
    /\ phase' = IF ending' = 0 THEN "returned" ELSE phase
    /\ UNCHANGED <<down, linked, connected, counter, targets, heap_sbrk>>

(* map::insert keeps the entry that is there.                              *)
Inserted(s, a) ==
    IF targets[s] = NoAddress THEN [targets EXCEPT ![s] = a] ELSE targets

ServeRegistry ==
    /\ Serving("TARGET_SOCKET_REGISTRY")
    /\ LET m == Head(up[cursor])
       IN targets' = Inserted(m.socketname, m.address)
    /\ UNCHANGED <<down, linked, phase, connected, ending, ending_notify,
                   ending_status, counter, heap_sbrk, armed, fired>>

ServeQuery ==
    /\ Serving("TARGET_SOCKET_QUERY")
    /\ LET s == Head(up[cursor]).socketname
       IN down' = Sent(down, cursor, Query(s, targets[s]))
    /\ UNCHANGED <<linked, phase, connected, ending, ending_notify,
                   ending_status, counter, targets, heap_sbrk, armed, fired>>

(* action_barrier: the counter starts over at N and the domain that brings *)
(* it to 0 releases all of them.                                           *)
MutantArrivals == N - 1

Arrivals == N

MutantReleased(i) == Sent(down, i, Barrier)

Released(i) == [d \in Domains |-> Append(down[d], Barrier)]

ServeBarrier ==
    /\ Serving("BARRIER")
    /\ counter' = (IF counter = 0 THEN Arrivals ELSE counter) - 1
    /\ IF counter' = 0
         THEN /\ down' = Released(cursor)
              /\ fired' = Call("before")
              /\ armed' = Disarmed({"before"})
         ELSE UNCHANGED <<down, fired, armed>>
    /\ UNCHANGED <<linked, phase, connected, ending, ending_notify,
                   ending_status, targets, heap_sbrk>>

(* action_syscall: a call on a file, getcwd included, leaves the state of  *)
(* the controller alone.                                                   *)
ServeFile ==
    /\ Serving("SYSCALL")
    /\ Head(up[cursor]).call = "FILE"
    /\ down' = Sent(down, cursor, Head(up[cursor]))
    /\ UNCHANGED <<linked, phase, connected, ending, ending_notify,
                   ending_status, counter, targets, heap_sbrk, armed, fired>>

(* SBRK hands out the break and moves it by the increment, which may be    *)
(* negative or 0 and is not looked at. The uint64_t stands for an integer: *)
(* increments of 32 bits need 2^32 calls to come round to the same break.  *)
MutantBreak(increment) == heap_sbrk

MutantOnlyUp(increment) == heap_sbrk + (IF increment > 0 THEN increment ELSE 0)

Break(increment) == heap_sbrk + increment

ServeSbrk ==
    /\ Serving("SYSCALL")
    /\ Head(up[cursor]).call = "SBRK"
    /\ down' = Sent(down, cursor, [Head(up[cursor]) EXCEPT !.value = heap_sbrk])
    /\ heap_sbrk' = Break(Head(up[cursor]).value)
    /\ UNCHANGED <<linked, phase, connected, ending, ending_notify,
                   ending_status, counter, targets, armed, fired>>

(* EXIT counts as an end of its domain, and never makes start() return.    *)
ServeExit ==
    /\ Serving("SYSCALL")
    /\ Head(up[cursor]).call = "EXIT"
    /\ ActionEnd(cursor, Head(up[cursor]).value)
    /\ down' = Sent(down, cursor, Head(up[cursor]))
    /\ UNCHANGED <<linked, phase, connected, counter, targets, heap_sbrk>>

(* The destructor closes every connection.                                 *)
Hangup ==
    /\ phase = "returned"
    /\ linked
    /\ linked' = FALSE
    /\ UNCHANGED <<up, down, controllerVars>>

ControllerServe ==
    \/ NotifyEnd
    \/ Skip
    \/ ServeEnd
    \/ ServeRegistry
    \/ ServeQuery
    \/ ServeBarrier
    \/ ServeFile
    \/ ServeSbrk
    \/ ServeExit
=============================================================================
