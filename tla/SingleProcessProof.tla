-------------------------- MODULE SingleProcessProof --------------------------
(***************************************************************************)
(* Proofs about SingleProcess for any set of sockets.                      *)
(***************************************************************************)
EXTENDS SingleProcess, FiniteSetTheorems, SequenceTheorems, TLAPS

Untold == armed = registered /\ ~ Told("success") /\ ~ Told("error")

(* What the user has been told fits how far start() is and how sc_start()  *)
(* ended: the error callback is armed as long as an error may be reported. *)
ToldSoFar ==
    /\ registered \subseteq Callbacks
    /\ fired \in Seq(Callbacks)
    /\ pc \in {"setup", "binding", "before", "running"} => outcome = "none" /\ Untold
    /\ pc = "succeeded" => /\ outcome \in {"stopped", "drained"}
                           /\ armed = registered \ {"error"}
                           /\ ~ Told("success") /\ ~ Told("error")
    /\ pc \in {"caught", "unknown", "reporting"} =>
          IF outcome = "threw"
            THEN Untold
            ELSE /\ armed = registered \ {"error"}
                 /\ ~ Told("error")
                 /\ Faithful => (Told("success") <=> "success" \in registered)

USE DEF vars, userVars, Goto, Throws

LEMMA ToldFire ==
    ASSUME fired \in Seq(Callbacks), NEW k \in Callbacks, Fire(k)
    PROVE  /\ fired' \in Seq(Callbacks)
           /\ \A j : Told(j)' <=> Told(j) \/ j = k
<1>1. fired' = Append(fired, k) BY DEF Fire
<1>2. /\ fired' \in Seq(Callbacks)
      /\ DOMAIN fired' = 1 .. (Len(fired) + 1)
      /\ fired'[Len(fired) + 1] = k
      /\ \A i \in 1 .. Len(fired) : fired'[i] = fired[i]
      /\ DOMAIN fired = 1 .. Len(fired)
      /\ Len(fired) \in Nat
  BY <1>1, AppendProperties, LenProperties
<1>3. QED BY <1>2 DEF Told

LEMMA ToldStep ==
    ASSUME ToldSoFar, VerdictFits, [Next]_vars
    PROVE  ToldSoFar' /\ VerdictFits'
<1>1. fired' = fired => \A j : Told(j)' <=> Told(j) BY DEF Told
<1>2. CASE Setup
  BY <1>1, <1>2 DEF Setup, RegisterCallback, RegisterInitiator, RegisterTarget, Start,
     ToldSoFar, VerdictFits, Untold, Callbacks
<1>3. CASE Bind \/ NoTarget
  BY <1>1, <1>3 DEF Bind, NoTarget, ToldSoFar, VerdictFits, Untold, Faithful, Paired
<1>4. CASE Before
  <2>1. CASE Calls("before")
    BY <1>4, <2>1, ToldFire DEF Before, ToldSoFar, VerdictFits, Untold, Callbacks
  <2>2. CASE ~ Calls("before")
    BY <1>1, <1>4, <2>2 DEF Before, ToldSoFar, VerdictFits, Untold
  <2>3. QED BY <2>1, <2>2
<1>5. CASE BeforeThrows
  BY <1>1, <1>5 DEF BeforeThrows, ToldSoFar, VerdictFits, Untold
<1>6. CASE Simulate
  BY <1>1, <1>6 DEF Simulate, Run, Return, Disarmed, Throw, ToldSoFar, VerdictFits, Untold
<1>7. CASE Success
  <2>1. /\ "success" \in registered /\ fired' \in Seq(Callbacks)
        /\ \A j : Told(j)' <=> Told(j) \/ j = "success"
    BY <1>7, ToldFire DEF Success, ToldSoFar, Callbacks
  <2>2. QED BY <1>7, <2>1 DEF Success, ToldSoFar, VerdictFits, Untold, Faithful, Paired
<1>8. CASE NoSuccess
  <2>1. Faithful => "success" \notin registered
    BY <1>8 DEF NoSuccess, Calls, Guard, ToldSoFar, Faithful, Paired
  <2>2. QED BY <1>1, <1>8, <2>1 DEF NoSuccess, ToldSoFar, VerdictFits, Faithful, Paired
<1>9. CASE NullSuccess BY <1>1, <1>9 DEF NullSuccess, ToldSoFar, VerdictFits
<1>10. CASE Catch \/ CatchThrows \/ ReportThrows
  BY <1>1, <1>10 DEF Catch, CatchThrows, ReportThrows, Caught, ToldSoFar, VerdictFits,
     Untold, Faithful, Paired
<1>11. CASE Report
  <2>1. Faithful => variant # "virtual" BY DEF Faithful
  <2>2. CASE Calls("error")
    <3>1. "error" \in registered /\ outcome = "threw"
      BY <1>11, <2>2 DEF Report, Calls, ToldSoFar, Untold
    <3>2. fired' \in Seq(Callbacks) /\ \A j : Told(j)' <=> Told(j) \/ j = "error"
      BY <1>11, <2>2, ToldFire DEF Report, ToldSoFar, Callbacks
    <3>3. QED BY <1>11, <3>1, <3>2 DEF Report, ToldSoFar, VerdictFits, Untold
  <2>3. CASE ~ Calls("error")
    BY <1>1, <1>11, <2>1, <2>3 DEF Report, Calls, ToldSoFar, VerdictFits, Untold, Faithful,
       Paired
  <2>4. QED BY <2>2, <2>3
<1>12. CASE UNCHANGED vars
  BY <1>1, <1>12 DEF ToldSoFar, VerdictFits, Untold, Faithful, Paired
<1>13. QED
  BY <1>2, <1>3, <1>4, <1>5, <1>6, <1>7, <1>8, <1>9, <1>10, <1>11, <1>12 DEF Next, Done

(* Whatever the kernel and the callbacks throw, the user of one process    *)
(* that returns has been told of an error, or of a success, exactly when   *)
(* there was one; where the macros leave by an exception instead, no error *)
(* callback was called and a success callback was iff there was a success. *)
THEOREM VerdictAlwaysFits == Spec => []VerdictFits
<1>1. Init => ToldSoFar /\ VerdictFits
  BY DEF Init, ToldSoFar, VerdictFits, Untold, Told
<1>2. ToldSoFar /\ VerdictFits /\ [Next]_vars => ToldSoFar' /\ VerdictFits'
  BY ToldStep
<1>3. QED BY <1>1, <1>2, PTL DEF Spec

-----------------------------------------------------------------------------
(* A callback is given before it is called, and called once; nothing is    *)
(* bound or called before start().                                         *)
Once ==
    /\ \A j, k \in DOMAIN fired : fired[j] = fired[k] => j = k
    /\ \A k \in DOMAIN fired : fired[k] \in registered
    /\ pc \in {"setup", "binding"} => ~ Told("before")
    /\ pc = "setup" => bound = {} /\ fired = <<>>

Types ==
    /\ variant \in Variants
    /\ initiators \in SUBSET Socket
    /\ targets \in SUBSET Socket
    /\ registered \in SUBSET Callbacks
    /\ armed \in SUBSET registered
    /\ pc \in {"setup", "binding", "before", "running", "succeeded", "caught",
               "unknown", "reporting", "returned", "aborted", "thrown", "crashed"}
    /\ bound \in SUBSET (initiators \cap targets)
    /\ outcome \in {"none", "stopped", "drained", "threw"}
    /\ stopped \in BOOLEAN

LEMMA OnceSuffices == ToldSoFar /\ Types /\ Once => TypeOK
<1> SUFFICES ASSUME ToldSoFar, Types, Once PROVE TypeOK
  OBVIOUS
<1>1. /\ fired \in Seq(Callbacks) /\ Len(fired) \in Nat
      /\ DOMAIN fired = 1 .. Len(fired)
  BY LenProperties DEF ToldSoFar
<1>2. fired \in Injection(1 .. Len(fired), registered)
  BY <1>1 DEF Once, Injection, IsInjective
<1>3. IsFiniteSet(registered)
  <2>1. IsFiniteSet({}) /\ Callbacks = (({} \cup {"before"}) \cup {"success"}) \cup {"error"}
    BY FS_EmptySet DEF Callbacks
  <2>2. IsFiniteSet(Callbacks)
    BY <2>1, FS_AddElement
  <2>3. QED
    BY <2>2, FS_Subset DEF Types
<1>4. IsFiniteSet(1 .. Len(fired)) /\ Cardinality(1 .. Len(fired)) = Len(fired)
  BY <1>1, FS_Interval
<1>5. Len(fired) <= Cardinality(registered)
  BY <1>2, <1>3, <1>4, FS_Injection
<1>6. QED
  BY <1>5 DEF TypeOK, Types, Once

LEMMA FireOnce ==
    ASSUME fired \in Seq(Callbacks), Once, registered' = registered,
           NEW k \in registered, k \in Callbacks, Fire(k), ~ Told(k)
    PROVE  /\ \A i, j \in DOMAIN fired' : fired'[i] = fired'[j] => i = j
           /\ \A j \in DOMAIN fired' : fired'[j] \in registered'
<1>1. /\ fired' \in Seq(Callbacks)
      /\ DOMAIN fired' = 1 .. (Len(fired) + 1)
      /\ fired'[Len(fired) + 1] = k
      /\ \A i \in 1 .. Len(fired) : fired'[i] = fired[i]
      /\ DOMAIN fired = 1 .. Len(fired)
      /\ Len(fired) \in Nat
  BY AppendProperties, LenProperties DEF Fire
<1>2. \A i \in DOMAIN fired' : i \in DOMAIN fired \/ i = Len(fired) + 1
  BY <1>1
<1>3. \A i \in DOMAIN fired : fired'[i] = fired[i] /\ fired[i] # k /\ fired[i] \in registered
  BY <1>1 DEF Told, Once
<1>4. QED
  BY <1>1, <1>2, <1>3 DEF Once

LEMMA OnceStep ==
    ASSUME ToldSoFar, VerdictFits, Types, Once, [Next]_vars
    PROVE  Types' /\ Once'
<1>0. ToldSoFar' /\ VerdictFits'
  BY ToldStep
<1>1. fired' = fired => \A j : Told(j)' <=> Told(j)
  BY DEF Told
<1>2. ASSUME NEW k \in Callbacks, RegisterCallback(k)
      PROVE  Types' /\ Once'
  BY <1>1, <1>2 DEF RegisterCallback, Types, Once
<1>3. ASSUME NEW s \in Socket, RegisterInitiator(s) \/ RegisterTarget(s)
      PROVE  Types' /\ Once'
  BY <1>1, <1>3 DEF RegisterInitiator, RegisterTarget, Types, Once
<1>4. CASE Start
  BY <1>1, <1>4 DEF Start, Types, Once
<1>5. CASE Bind
  <2>1. First(Unbound) \in initiators \cap targets
    BY <1>5 DEF Bind, First, Unbound, Found
  <2>2. QED
    BY <1>1, <1>5, <2>1 DEF Bind, Types, Once
<1>6. CASE NoTarget
  BY <1>1, <1>6 DEF NoTarget, Types, Once
<1>7. CASE Before
  <2>1. CASE Calls("before")
    <3>1. "before" \in registered /\ "before" \in Callbacks /\ ~ Told("before")
      BY <1>7, <2>1 DEF Before, Calls, Types, Once
    <3>2. QED
      BY <1>7, <2>1, <3>1, FireOnce DEF Before, Types, Once, ToldSoFar
  <2>2. CASE ~ Calls("before")
    BY <1>1, <1>7, <2>2 DEF Before, Types, Once
  <2>3. QED
    BY <2>1, <2>2
<1>8. CASE BeforeThrows
  BY <1>1, <1>8 DEF BeforeThrows, Types, Once
<1>9. CASE Simulate
  BY <1>1, <1>9 DEF Simulate, Run, Return, Disarmed, Throw, Types, Once
<1>10. CASE Success
  <2>1. "success" \in registered /\ "success" \in Callbacks /\ ~ Told("success")
    BY <1>10 DEF Success, Types, ToldSoFar
  <2>2. QED
    BY <1>10, <2>1, FireOnce DEF Success, Types, Once, ToldSoFar
<1>11. CASE NoSuccess \/ NullSuccess \/ Catch \/ CatchThrows \/ ReportThrows
  BY <1>1, <1>11 DEF NoSuccess, NullSuccess, Catch, CatchThrows, ReportThrows, Caught,
     Types, Once
<1>12. CASE Report
  <2>1. CASE Calls("error")
    <3>1. "error" \in registered /\ "error" \in Callbacks /\ ~ Told("error")
      BY <1>12, <2>1 DEF Report, Calls, Types, ToldSoFar, Untold
    <3>2. QED
      BY <1>12, <2>1, <3>1, FireOnce DEF Report, Types, Once, ToldSoFar
  <2>2. CASE ~ Calls("error")
    BY <1>1, <1>12, <2>2 DEF Report, Types, Once
  <2>3. QED
    BY <2>1, <2>2
<1>13. CASE UNCHANGED vars
  BY <1>1, <1>13 DEF Types, Once
<1>14. QED
  BY <1>2, <1>3, <1>4, <1>5, <1>6, <1>7, <1>8, <1>9, <1>10, <1>11, <1>12, <1>13
  DEF Next, Setup, Done

SingleInv == ToldSoFar /\ VerdictFits /\ Types /\ Once

LEMMA SingleInvariant == Spec => []SingleInv
<1>1. Init => SingleInv
  <2> SUFFICES ASSUME Init PROVE SingleInv
    OBVIOUS
  <2>1. ToldSoFar /\ VerdictFits
    BY DEF Init, ToldSoFar, VerdictFits, Untold, Told
  <2>2. Types
    BY DEF Init, Types
  <2>3. Once
    BY DEF Init, Once, Told
  <2>4. QED
    BY <2>1, <2>2, <2>3 DEF SingleInv
<1>2. SingleInv /\ [Next]_vars => SingleInv'
  BY ToldStep, OnceStep DEF SingleInv
<1>3. QED
  BY <1>1, <1>2, PTL DEF Spec

(* Every variable keeps its type; among others no callback is called that  *)
(* was not given, and none is called twice, whatever throws.               *)
THEOREM SingleTypeCorrect == Spec => []TypeOK
<1>1. SingleInv => TypeOK
  BY OnceSuffices DEF SingleInv
<1>2. QED
  BY <1>1, SingleInvariant, PTL

-----------------------------------------------------------------------------
(* The life cycle. A success is only called after sc_start() returned, an  *)
(* error after something was thrown, and only at the end of start().       *)
ToldRight ==
    /\ Told("success") => outcome \in {"stopped", "drained"}
    /\ Told("error") => outcome = "threw" /\ pc = "returned"
    /\ Told("success") => pc \in {"reporting", "caught", "unknown", "returned", "thrown"}

LEMMA ToldRightStep ==
    ASSUME SingleInv, ToldRight, [Next]_vars
    PROVE  ToldRight'
<1>1. ToldSoFar /\ Types
  BY DEF SingleInv
<1>2. fired' = fired => \A j : Told(j)' <=> Told(j)
  BY DEF Told
<1>3. CASE Before
  <2>1. CASE Calls("before")
    <3>1. \A j : Told(j)' <=> Told(j) \/ j = "before"
      BY <1>1, <1>3, <2>1, ToldFire DEF Before, ToldSoFar, Callbacks
    <3>2. QED
      BY <1>1, <1>3, <3>1 DEF Before, ToldSoFar, Untold, ToldRight
  <2>2. CASE ~ Calls("before")
    BY <1>2, <1>3, <2>2 DEF Before, ToldRight
  <2>3. QED
    BY <2>1, <2>2
<1>4. CASE Success
  <2>1. \A j : Told(j)' <=> Told(j) \/ j = "success"
    BY <1>1, <1>4, ToldFire DEF Success, ToldSoFar, Callbacks
  <2>2. QED
    BY <1>1, <1>4, <2>1 DEF Success, ToldSoFar, ToldRight
<1>5. CASE Report
  <2>1. CASE Calls("error")
    <3>1. \A j : Told(j)' <=> Told(j) \/ j = "error"
      BY <1>1, <1>5, <2>1, ToldFire DEF Report, ToldSoFar, Callbacks
    <3>2. outcome = "threw"
      BY <1>1, <1>5, <2>1 DEF Report, Calls, ToldSoFar
    <3>3. QED
      BY <1>5, <3>1, <3>2 DEF Report, ToldRight
  <2>2. CASE ~ Calls("error")
    BY <1>2, <1>5, <2>2 DEF Report, ToldRight
  <2>3. QED
    BY <2>1, <2>2
<1>6. CASE Setup
  BY <1>2, <1>6 DEF Setup, RegisterCallback, RegisterInitiator, RegisterTarget, Start, ToldRight
<1>7. CASE Bind \/ NoTarget \/ BeforeThrows \/ Simulate
  BY <1>1, <1>2, <1>7
  DEF Bind, NoTarget, BeforeThrows, Simulate, Run, Return, Throw, ToldRight, ToldSoFar, Untold
<1>8. CASE NoSuccess \/ NullSuccess \/ Catch \/ CatchThrows \/ ReportThrows
  BY <1>1, <1>2, <1>8
  DEF NoSuccess, NullSuccess, Catch, CatchThrows, ReportThrows, Caught, ToldRight, ToldSoFar, Untold
<1>9. CASE UNCHANGED vars
  BY <1>2, <1>9 DEF ToldRight
<1>10. QED
  BY <1>3, <1>4, <1>5, <1>6, <1>7, <1>8, <1>9 DEF Next, Done

LEMMA VerdictFacts ==
    /\ ~ Told("success") /\ ~ Told("error") => VerdictNow = "none"
    /\ Told("success") => VerdictNow = "success"
    /\ ~ Told("success") /\ Told("error") => VerdictNow = "error"
    /\ (~ Told("success"))' /\ (~ Told("error"))' => VerdictNow' = "none"
    /\ Told("success")' => VerdictNow' = "success"
    /\ (~ Told("success"))' /\ Told("error")' => VerdictNow' = "error"
    /\ fired' = fired => VerdictNow' = VerdictNow
  BY DEF VerdictNow, Told

LEMMA StateFacts ==
    /\ pc = "setup" => StateNow = "building"
    /\ pc \in {"binding", "aborted"} => StateNow = "ready"
    /\ pc \in {"before", "running"} => StateNow = "running"
    /\ pc \in {"succeeded", "caught", "unknown", "reporting", "returned", "thrown",
               "crashed"} => StateNow = "ended"
    /\ pc' = "setup" => StateNow' = "building"
    /\ pc' \in {"binding", "aborted"} => StateNow' = "ready"
    /\ pc' \in {"before", "running"} => StateNow' = "running"
    /\ pc' \in {"succeeded", "caught", "unknown", "reporting", "returned", "thrown",
                "crashed"} => StateNow' = "ended"
  BY DEF StateNow

LEMMA ResultFacts ==
    /\ outcome = "none" => ResultNow = "none"
    /\ outcome = "threw" => ResultNow = "error"
    /\ outcome \in {"stopped", "drained"} => ResultNow = "success"
    /\ outcome' = "none" => ResultNow' = "none"
    /\ outcome' = "threw" => ResultNow' = "error"
    /\ outcome' \in {"stopped", "drained"} => ResultNow' = "success"
    /\ outcome' = outcome => ResultNow' = ResultNow
  BY DEF ResultNow

ReturnedNow == pc = "returned" /\ VerdictNow # "none"

LEMMA LifeStep ==
    ASSUME SingleInv, ToldRight, [Next]_vars
    PROVE  [Life!Next]_(Life!vars)
<1>1. ToldSoFar /\ Types
  BY DEF SingleInv
<1>2. ASSUME StateNow' = StateNow, ResultNow' = ResultNow, VerdictNow' = VerdictNow,
             ReturnedNow' <=> ReturnedNow
      PROVE  UNCHANGED Life!vars
  <2>1. ReturnedNow' = ReturnedNow
    BY <1>2 DEF ReturnedNow
  <2>2. QED
    BY <1>2, <2>1 DEF Life!vars, ReturnedNow
<1>3. ASSUME fired' = fired, pc \in {"setup", "binding", "before", "running"}
      PROVE  VerdictNow = "none" /\ VerdictNow' = "none" /\ ReturnedNow = FALSE
             /\ ReturnedNow' = FALSE
  BY <1>1, <1>3, VerdictFacts DEF ToldSoFar, Untold, ReturnedNow
<1>4. CASE Start
  <2>1. Life!GetReady(1)
    BY <1>3, <1>4, StateFacts, ResultFacts DEF Start, Life!GetReady, ReturnedNow
  <2>2. QED
    BY <2>1 DEF Life!Next
<1>5. CASE Before
  <2>1. VerdictNow = "none" /\ VerdictNow' = "none"
    <3>1. CASE Calls("before")
      <4>1. \A j : Told(j)' <=> Told(j) \/ j = "before"
        BY <1>1, <1>5, <3>1, ToldFire DEF Before, ToldSoFar, Callbacks
      <4>2. QED
        BY <1>1, <1>5, <4>1, VerdictFacts DEF Before, ToldSoFar, Untold
    <3>2. CASE ~ Calls("before")
      BY <1>3, <1>5, <3>2 DEF Before
    <3>3. QED
      BY <3>1, <3>2
  <2>2. Life!Run(1)
    BY <1>5, <2>1, StateFacts, ResultFacts DEF Before, Life!Run, ReturnedNow
  <2>3. QED
    BY <2>2 DEF Life!Next
<1>6. CASE BeforeThrows \/ Throw
  <2>1. Life!End(1, "error")
    BY <1>1, <1>3, <1>6, StateFacts, ResultFacts
    DEF BeforeThrows, Throw, Life!End, ReturnedNow
  <2>2. QED
    BY <2>1 DEF Life!Next, Life!Results
<1>7. ASSUME NEW how \in {"stopped", "drained"}, Return(how)
      PROVE  [Life!Next]_(Life!vars)
  <2>1. Life!End(1, "success")
    BY <1>1, <1>3, <1>7, StateFacts, ResultFacts DEF Return, Life!End, ReturnedNow
  <2>2. QED
    BY <2>1 DEF Life!Next, Life!Results
<1>8. CASE Success
  <2>1. \A j : Told(j)' <=> Told(j) \/ j = "success"
    BY <1>1, <1>8, ToldFire DEF Success, ToldSoFar, Callbacks
  <2>2. /\ VerdictNow = "none" /\ VerdictNow' = "success" /\ ResultNow = "success"
        /\ StateNow = "ended" /\ StateNow' = "ended" /\ ResultNow' = ResultNow
    BY <1>1, <1>8, <2>1, VerdictFacts, StateFacts, ResultFacts DEF Success, ToldSoFar
  <2>3. ReturnedNow = FALSE /\ ReturnedNow' = FALSE
    BY <1>8 DEF Success, ReturnedNow
  <2>4. Life!Judge
    BY <2>2, <2>3 DEF Life!Judge, Life!Judged, ReturnedNow
  <2>5. QED
    BY <2>4 DEF Life!Next
<1>9. CASE Report
  <2>1. /\ pc = "reporting" /\ pc' = "returned" /\ outcome' = outcome
        /\ StateNow = "ended" /\ StateNow' = "ended" /\ ResultNow' = ResultNow
    BY <1>9, StateFacts, ResultFacts DEF Report
  <2>2. CASE Calls("error")
    <3>1. "error" \in registered /\ outcome = "threw" /\ ~ Told("error") /\ ~ Told("success")
      BY <1>1, <2>1, <2>2 DEF Calls, ToldSoFar, Untold
    <3>2. \A j : Told(j)' <=> Told(j) \/ j = "error"
      BY <1>1, <1>9, <2>2, ToldFire DEF Report, ToldSoFar, Callbacks
    <3>3. VerdictNow = "none" /\ VerdictNow' = "error" /\ ResultNow = "error"
      BY <3>1, <3>2, VerdictFacts, ResultFacts
    <3>4. ReturnedNow' = TRUE
      BY <2>1, <3>3 DEF ReturnedNow
    <3>5. Life!Judge
      BY <2>1, <3>3, <3>4 DEF Life!Judge, Life!Judged, Life!AllEnded, ReturnedNow
    <3>6. QED
      BY <3>5 DEF Life!Next
  <2>3. CASE ~ Calls("error")
    <3>1. VerdictNow' = VerdictNow /\ ReturnedNow = FALSE
      BY <1>9, <2>1, <2>3, VerdictFacts DEF Report, ReturnedNow
    <3>2. CASE VerdictNow = "none"
      <4>1. ReturnedNow' = FALSE
        BY <3>1, <3>2 DEF ReturnedNow
      <4>2. QED
        BY <1>2, <2>1, <3>1, <4>1
    <3>3. CASE VerdictNow # "none"
      <4>1. ReturnedNow' = TRUE
        BY <2>1, <3>1, <3>3 DEF ReturnedNow
      <4>2. Life!Return
        BY <2>1, <3>1, <3>3, <4>1 DEF Life!Return, Life!AllEnded, ReturnedNow
      <4>3. QED
        BY <4>2 DEF Life!Next
    <3>4. QED
      BY <3>2, <3>3
  <2>4. QED
    BY <2>2, <2>3
<1>10. CASE \/ \E k \in Callbacks : RegisterCallback(k)
            \/ \E s \in Socket : RegisterInitiator(s) \/ RegisterTarget(s)
            \/ Bind \/ NoTarget \/ Run
  <2>1. fired' = fired /\ outcome' = outcome /\ pc \in {"setup", "binding", "before"}
    BY <1>10 DEF RegisterCallback, RegisterInitiator, RegisterTarget, Bind, NoTarget, Run
  <2>2. StateNow' = StateNow
    BY <1>10, StateFacts
    DEF RegisterCallback, RegisterInitiator, RegisterTarget, Bind, NoTarget, Run
  <2>3. QED
    BY <1>2, <1>3, <2>1, <2>2, ResultFacts
<1>11. CASE NoSuccess \/ NullSuccess \/ Catch \/ CatchThrows \/ ReportThrows
  <2>1. /\ fired' = fired /\ outcome' = outcome
        /\ pc \in {"succeeded", "caught", "unknown", "reporting"}
        /\ pc' \in {"reporting", "crashed", "thrown"}
    BY <1>11 DEF NoSuccess, NullSuccess, Catch, CatchThrows, ReportThrows, Caught
  <2>2. ReturnedNow = FALSE /\ ReturnedNow' = FALSE
    BY <2>1 DEF ReturnedNow
  <2>3. QED
    BY <1>2, <2>1, <2>2, StateFacts, ResultFacts, VerdictFacts
<1>12. CASE UNCHANGED vars
  <2>1. fired' = fired /\ outcome' = outcome /\ pc' = pc
    BY <1>12
  <2>2. StateNow' = StateNow /\ ResultNow' = ResultNow /\ VerdictNow' = VerdictNow
    BY <2>1, ResultFacts, VerdictFacts DEF StateNow
  <2>3. QED
    BY <1>2, <2>1, <2>2 DEF ReturnedNow
<1>13. QED
  BY <1>4, <1>5, <1>6, <1>7, <1>8, <1>9, <1>10, <1>11, <1>12
  DEF Next, Setup, Simulate, Done

(* A platform in one process is a life cycle with one domain, for every    *)
(* variant and set of callbacks: among others the verdict is that of how   *)
(* sc_start() ended, it comes after that end, and it is the only one.      *)
THEOREM SingleLifecycleCorrect == Spec => ImplementsLifecycle
<1>1. Init => ToldRight /\ Life!Init
  <2> SUFFICES ASSUME Init PROVE ToldRight /\ Life!Init
    OBVIOUS
  <2>1. \A j : ~ Told(j)
    BY DEF Init, Told
  <2>2. VerdictNow = "none" /\ StateNow = "building" /\ ResultNow = "none"
    BY <2>1, VerdictFacts, StateFacts, ResultFacts DEF Init
  <2>3. QED
    BY <2>1, <2>2 DEF ToldRight, Life!Init
<1>2. SingleInv /\ ToldRight /\ [Next]_vars => ToldRight' /\ [Life!Next]_(Life!vars)
  BY ToldRightStep, LifeStep
<1>3. QED
  BY <1>1, <1>2, SingleInvariant, PTL DEF Spec, ImplementsLifecycle, Life!Spec
=============================================================================
