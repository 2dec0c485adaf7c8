---------------------------- MODULE SingleProcess ----------------------------
(***************************************************************************)
(* A platform that is one process: the client of the SystemC backend, the  *)
(* virtual client of the tests of wrappers, or the macros that replace the *)
(* library where it is not installed. start() binds initiators to targets, *)
(* runs the kernel and calls back. The kernel and the callbacks are        *)
(* external: each may throw.                                               *)
(***************************************************************************)
EXTENDS Naturals, Sequences, FiniteSets

CONSTANT Socket

VARIABLES
    variant,      \* which of the three the program was built or run with
    initiators,   \* sockets some initiator was registered for
    targets,      \* sockets whose target was registered
    registered,   \* callbacks the program gave
    armed,        \* those that are still to be called
    pc,           \* how far start() is
    bound,        \* initiators bound to their target
    outcome,      \* how sc_start() ended
    stopped,      \* sc_end_of_simulation_invoked()
    fired         \* callbacks called, in order

userVars == <<initiators, targets, registered>>
vars == <<variant, userVars, armed, pc, bound, outcome, stopped, fired>>

Callbacks == {"before", "success", "error"}

Variants == {"library", "virtual", "macros"}

TypeOK ==
    /\ variant \in Variants
    /\ initiators \in SUBSET Socket
    /\ targets \in SUBSET Socket
    /\ registered \in SUBSET Callbacks
    /\ armed \in SUBSET registered
    /\ pc \in {"setup", "binding", "before", "running", "succeeded", "caught",
               "unknown", "reporting", "returned", "aborted", "thrown", "crashed"}
    /\ bound \in SUBSET (initiators \cap targets)
    /\ outcome \in {"none", "stopped", "drained", "threw"}
    /\ stopped \in BOOLEAN
    /\ Len(fired) <= Cardinality(registered)
    /\ \A k \in DOMAIN fired : fired[k] \in registered

(* YAPSC_INIT: no environment of another backend is set.                   *)
Init ==
    /\ variant \in Variants
    /\ initiators = {}
    /\ targets = {}
    /\ registered = {}
    /\ armed = {}
    /\ pc = "setup"
    /\ bound = {}
    /\ outcome = "none"
    /\ stopped = FALSE
    /\ fired = <<>>

-----------------------------------------------------------------------------
Goto(from, to) == pc = from /\ pc' = to

RegisterCallback(k) ==
    /\ pc = "setup"
    /\ registered' = registered \cup {k}
    /\ armed' = armed \cup {k}
    /\ UNCHANGED <<variant, initiators, targets, pc, bound, outcome, stopped, fired>>

(* The virtual client keeps neither initiators nor targets.                *)
RegisterInitiator(s) ==
    /\ pc = "setup"
    /\ initiators' = IF variant = "virtual" THEN {} ELSE initiators \cup {s}
    /\ UNCHANGED <<variant, targets, registered, armed, pc, bound, outcome, stopped, fired>>

RegisterTarget(s) ==
    /\ pc = "setup"
    /\ targets' = IF variant = "virtual" THEN {} ELSE targets \cup {s}
    /\ UNCHANGED <<variant, initiators, registered, armed, pc, bound, outcome, stopped, fired>>

Start ==
    /\ Goto("setup", "binding")
    /\ UNCHANGED <<variant, userVars, armed, bound, outcome, stopped, fired>>

-----------------------------------------------------------------------------
(* Binding is outside the try: an initiator without target ends the        *)
(* program with an exception. Otherwise before_simulation() comes next.    *)
Unbound == initiators \ bound

First(S) == CHOOSE s \in S : TRUE

MutantFound(s) == TRUE

Found(s) == s \in targets

Bind ==
    /\ Unbound # {}
    /\ Found(First(Unbound))
    /\ pc = "binding"
    /\ bound' = bound \cup {First(Unbound)}
    /\ UNCHANGED <<variant, userVars, armed, pc, outcome, stopped, fired>>

NoTarget ==
    /\ Unbound # {}
    /\ ~ Found(First(Unbound))
    /\ Goto("binding", "aborted")
    /\ UNCHANGED <<variant, userVars, armed, bound, outcome, stopped, fired>>

Fire(k) == fired' = Append(fired, k)

Calls(k) == variant # "virtual" /\ k \in armed

(* A callback may call sc_stop() itself.                                   *)
Before ==
    /\ Unbound = {}
    /\ Goto("binding", "before")
    /\ IF Calls("before")
         THEN Fire("before") /\ stopped' \in BOOLEAN
         ELSE UNCHANGED <<fired, stopped>>
    /\ UNCHANGED <<variant, userVars, armed, bound, outcome>>

(* What is thrown is a std::exception or something unknown.                *)
Throws(from) == Goto(from, "caught") \/ Goto(from, "unknown")

BeforeThrows ==
    /\ Calls("before")
    /\ Throws("before")
    /\ outcome' = "threw"
    /\ UNCHANGED <<variant, userVars, armed, bound, stopped, fired>>

Run ==
    /\ Goto("before", "running")
    /\ UNCHANGED <<variant, userVars, armed, bound, outcome, stopped, fired>>

-----------------------------------------------------------------------------
(* sc_start() returns after sc_stop(), or with no event left, or throws.   *)
(* The first two disarm the error callback, whether or not somebody        *)
(* stopped the simulation, and go on to the success callback.              *)
MutantDisarmed == armed

Disarmed == armed \ {"error"}

Return(how) ==
    /\ Goto("running", "succeeded")
    /\ outcome' = how
    /\ stopped' = (stopped \/ how = "stopped")
    /\ armed' = Disarmed
    /\ UNCHANGED <<variant, userVars, bound, fired>>

Throw ==
    /\ Throws("running")
    /\ outcome' = "threw"
    /\ stopped' \in {stopped, TRUE}
    /\ UNCHANGED <<variant, userVars, armed, bound, fired>>

(* The macros look at the callback that came before the simulation to see  *)
(* whether there is one for the success.                                   *)
Guard == IF variant = "macros" THEN "before" ELSE "success"

Success ==
    /\ Calls(Guard)
    /\ "success" \in armed
    /\ Fire("success")
    /\ Goto("succeeded", "reporting") \/ Throws("succeeded")
    /\ stopped' \in {stopped, TRUE}
    /\ UNCHANGED <<variant, userVars, armed, bound, outcome>>

NoSuccess ==
    /\ ~ Calls(Guard)
    /\ Goto("succeeded", "reporting")
    /\ UNCHANGED <<variant, userVars, armed, bound, outcome, stopped, fired>>

NullSuccess ==
    /\ Calls(Guard)
    /\ "success" \notin armed
    /\ Goto("succeeded", "crashed")
    /\ UNCHANGED <<variant, userVars, armed, bound, outcome, stopped, fired>>

-----------------------------------------------------------------------------
(* The clients log what they catch. The macros report it: SC_REPORT_ERROR  *)
(* throws, as nobody changes what SystemC does of itself, and start() is   *)
(* left from the clause that caught what is no std::exception.             *)
MutantCaught == "succeeded"

Caught == "reporting"

Catch ==
    /\ Goto("caught", Caught) \/ (variant # "macros" /\ Goto("unknown", Caught))
    /\ UNCHANGED <<variant, userVars, armed, bound, outcome, stopped, fired>>

CatchThrows ==
    /\ variant = "macros"
    /\ Goto("unknown", "thrown")
    /\ UNCHANGED <<variant, userVars, armed, bound, outcome, stopped, fired>>

(* Behind the try: a simulation nobody stopped is stopped, which the       *)
(* macros report before they would do it, then the error callback is       *)
(* called if it is still armed.                                            *)
Report ==
    /\ variant # "macros" \/ stopped
    /\ Goto("reporting", "returned")
    /\ stopped' = TRUE
    /\ IF Calls("error") THEN Fire("error") ELSE UNCHANGED fired
    /\ UNCHANGED <<variant, userVars, armed, bound, outcome>>

ReportThrows ==
    /\ variant = "macros"
    /\ ~ stopped
    /\ Goto("reporting", "thrown")
    /\ UNCHANGED <<variant, userVars, armed, bound, outcome, stopped, fired>>

Terminated == pc \in {"returned", "aborted", "thrown", "crashed"}

Done == Terminated /\ UNCHANGED vars

Setup ==
    \/ \E k \in Callbacks : RegisterCallback(k)
    \/ \E s \in Socket : RegisterInitiator(s) \/ RegisterTarget(s)
    \/ Start

Simulate == Run \/ (\E how \in {"stopped", "drained"} : Return(how)) \/ Throw

Next ==
    \/ Setup
    \/ Bind
    \/ NoTarget
    \/ Before
    \/ BeforeThrows
    \/ Simulate
    \/ Success
    \/ NoSuccess
    \/ NullSuccess
    \/ Catch
    \/ CatchThrows
    \/ Report
    \/ ReportThrows
    \/ Done

Spec == Init /\ [][Next]_vars

-----------------------------------------------------------------------------
Told(k) == \E j \in DOMAIN fired : fired[j] = k

(* When start() returns, the user of the library has been told what        *)
(* happened: of an error if the kernel or the first callback threw, of a   *)
(* success if not, even if the success callback threw in its turn; never   *)
(* of both, and of nothing it gave no callback for. The macros do the same *)
(* if the callbacks before the simulation and for its success come         *)
(* together - except that an exception with which they leave takes the     *)
(* place of the error callback, and may come after a success.              *)
Paired == "before" \in registered <=> "success" \in registered

Faithful == variant = "library" \/ (variant = "macros" /\ Paired)

VerdictFits ==
    Faithful /\ pc \in {"returned", "thrown"} =>
        /\ Told("success") <=> outcome # "threw" /\ "success" \in registered
        /\ Told("error") <=> /\ pc = "returned"
                            /\ outcome = "threw"
                            /\ "error" \in registered

(* A platform in one process looks to its user like one in many: see       *)
(* ControlPlane. The run counts as running from the first callback on, and *)
(* a simulation that runs out of events as a success - the serial client   *)
(* calls that an error. A user without callbacks is told nothing, and then *)
(* the controller of the abstract specification has not returned.          *)
StateNow ==
    CASE pc = "setup" -> "building"
      [] pc \in {"binding", "aborted"} -> "ready"
      [] pc \in {"before", "running"} -> "running"
      [] OTHER -> "ended"

ResultNow ==
    CASE outcome = "none" -> "none"
      [] outcome = "threw" -> "error"
      [] OTHER -> "success"

VerdictNow == IF Told("success") THEN "success" ELSE IF Told("error") THEN "error" ELSE "none"

Life == INSTANCE Lifecycle
            WITH Domains <- {1},
                 state <- [d \in {1} |-> StateNow],
                 result <- [d \in {1} |-> ResultNow],
                 verdict <- VerdictNow,
                 returned <- pc = "returned" /\ VerdictNow # "none"

(* Every step of a single process is a step of the lifecycle or leaves it  *)
(* alone.                                                                  *)
ImplementsLifecycle == Life!Spec
=============================================================================
