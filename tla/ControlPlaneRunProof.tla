------------------------ MODULE ControlPlaneRunProof ------------------------
(***************************************************************************)
(* What the user sees of a run: the callbacks, the verdict and the life    *)
(* cycle that the library promises.                                        *)
(***************************************************************************)
EXTENDS ControlPlaneProof

(* A callback that has been called is not armed any more, and the two      *)
(* verdicts are disarmed together.                                         *)
VerdictInv ==
    /\ TypeOK
    /\ OneVerdict
    /\ \A k \in DOMAIN fired : fired[k] \notin armed
    /\ "success" \in armed <=> "error" \in armed

(* Until the first END the user has seen before_simulation at most, and    *)
(* has seen it if a domain was told to start; then nothing is armed.       *)
CallbackInv ==
    IF ending = 0 /\ phase # "returned"
      THEN \/ fired = <<>> /\ armed = Callbacks /\ \A d \in Domains : ~ StartOpen(d)
           \/ fired = <<"before">> /\ armed = {"success", "error"}
      ELSE /\ fired = <<"before", IF ending_status = 0 THEN "success" ELSE "error">>
           /\ armed = {}

(* An END says how its domain ended.                                       *)
EndStatus ==
    \A d \in Domains : \A k \in DOMAIN up[d] :
        up[d][k].type = "END" => up[d][k].status = IF stop[d] THEN 0 ELSE 1

RunInv == StartInv /\ CallbackInv /\ EndStatus

-----------------------------------------------------------------------------
(* The steps that call the user back.                                      *)
LEMMA WhoCalls ==
    ASSUME [Next]_vars
    PROVE  \/ UNCHANGED <<fired, armed>>
           \/ \E cb \in {"success", "error"} :
                /\ fired' = Call(cb)
                /\ armed' = Disarmed({"success", "error"})
           \/ /\ fired' = Call("before")
              /\ armed' = Disarmed({"before"})
<1>1. CASE Controller
  BY <1>1
  DEF Controller, ControllerServe, Accept, NotifyEnd, Skip, ServeEnd, ServeRegistry,
      ServeQuery, ServeBarrier, ServeFile, ServeSbrk, ServeExit, Hangup, ActionEnd,
      controllerVars
<1>2. ASSUME NEW d \in Domains, Progress(d) \/ Choice(d)
      PROVE  UNCHANGED <<fired, armed>>
  BY <1>2 DEF Progress, Choice, controllerVars
<1>3. CASE UNCHANGED vars
  BY <1>3 DEF vars, controllerVars
<1>4. QED
  BY <1>1, <1>2, <1>3 DEF Next, Done

LEMMA CallFacts ==
    ASSUME fired \in Seq(Callbacks), NEW cb \in Callbacks
    PROVE  /\ cb \notin armed => Call(cb) = fired
           /\ cb \in armed =>
                /\ Call(cb) = Append(fired, cb)
                /\ Len(fired) \in Nat /\ DOMAIN fired = 1 .. Len(fired)
                /\ DOMAIN Call(cb) = 1 .. (Len(fired) + 1)
                /\ \A k \in DOMAIN fired : Call(cb)[k] = fired[k]
                /\ Call(cb)[Len(fired) + 1] = cb
<1>1. /\ Len(fired) \in Nat /\ DOMAIN fired = 1 .. Len(fired)
      /\ DOMAIN Append(fired, cb) = 1 .. (Len(fired) + 1)
      /\ \A k \in DOMAIN fired : Append(fired, cb)[k] = fired[k]
      /\ Append(fired, cb)[Len(fired) + 1] = cb
  BY AppendProperties, LenProperties
<1>2. QED
  BY <1>1 DEF Call

LEMMA Second ==
    ASSUME NEW S, NEW a \in S, NEW b \in S
    PROVE  Append(<<a>>, b) = <<a, b>>
<1>1. <<a>> \in Seq(S) /\ Len(<<a>>) = 1 /\ <<a>>[1] = a
  OBVIOUS
<1>2. <<a, b>> \in Seq(S) /\ Len(<<a, b>>) = 2 /\ <<a, b>>[1] = a /\ <<a, b>>[2] = b
  OBVIOUS
<1>3. PICK s \in Seq(S) : s = Append(<<a>>, b)
  BY <1>1, AppendProperties
<1>4. Len(s) = 2 /\ s[1] = a /\ s[2] = b
  BY <1>1, <1>3, AppendProperties
<1>5. PICK t \in Seq(S) : t = <<a, b>>
  BY <1>2
<1>6. Len(t) = 2 /\ t[1] = a /\ t[2] = b
  BY <1>2, <1>5
<1>7. \A i \in 1 .. 2 : s[i] = t[i]
  BY <1>4, <1>6
<1>8. s = t
  BY <1>4, <1>6, <1>7, SeqEqual
<1>9. QED
  BY <1>3, <1>5, <1>8

LEMMA VerdictStep ==
    ASSUME VerdictInv, [Next]_vars
    PROVE  VerdictInv'
<1>1. TypeOK'
  BY NextType DEF VerdictInv
<1>2. fired \in Seq(Callbacks) /\ armed \subseteq Callbacks
  BY DEF VerdictInv, TypeOK, ControllerTypeOK
<1>3. CASE UNCHANGED <<fired, armed>>
  BY <1>1, <1>3 DEF VerdictInv, OneVerdict
<1>4. ASSUME NEW cb \in Callbacks, NEW cbs \in {{"before"}, {"success", "error"}},
             cb \in cbs, fired' = Call(cb), armed' = Disarmed(cbs)
      PROVE  VerdictInv'
  <2>1. /\ \A k \in DOMAIN fired : fired[k] \notin armed
        /\ OneVerdict /\ ("success" \in armed <=> "error" \in armed)
    BY DEF VerdictInv
  <2>2. "success" \in armed' <=> "error" \in armed'
    BY <1>4, <2>1 DEF Disarmed
  <2>3. CASE cb \notin armed
    <3>1. fired' = fired /\ armed' \subseteq armed
      BY <1>2, <1>4, <2>3, CallFacts DEF Disarmed
    <3>2. QED
      BY <1>1, <2>1, <2>2, <3>1 DEF VerdictInv, OneVerdict
  <2>4. CASE cb \in armed
    <3>1. /\ Len(fired) \in Nat /\ DOMAIN fired = 1 .. Len(fired)
          /\ DOMAIN fired' = 1 .. (Len(fired) + 1)
          /\ \A k \in DOMAIN fired : fired'[k] = fired[k]
          /\ fired'[Len(fired) + 1] = cb
      BY <1>2, <1>4, <2>4, CallFacts
    <3>2. \A k \in DOMAIN fired' :
            \/ k \in DOMAIN fired /\ fired'[k] = fired[k]
            \/ k = Len(fired) + 1 /\ fired'[k] = cb
      BY <3>1
    <3>3. \A k \in DOMAIN fired : fired[k] # cb
      BY <2>1, <2>4
    <3>4. \A k \in DOMAIN fired' : fired'[k] \notin armed'
      BY <1>4, <2>1, <3>2 DEF Disarmed
    <3>5. \A j, k \in DOMAIN fired' : fired'[j] = fired'[k] => j = k
      BY <2>1, <3>2, <3>3 DEF OneVerdict
    <3>6. ASSUME NEW j \in DOMAIN fired', NEW k \in DOMAIN fired',
                 fired'[j] = "success", fired'[k] = "error"
          PROVE  FALSE
      <4>1. CASE j \in DOMAIN fired /\ k \in DOMAIN fired
        BY <2>1, <3>1, <3>6, <4>1 DEF OneVerdict
      <4>2. CASE j \notin DOMAIN fired
        <5>1. "error" \in armed /\ k \in DOMAIN fired /\ fired[k] = "error"
          BY <2>1, <2>4, <3>2, <3>6, <4>2
        <5>2. QED
          BY <2>1, <5>1
      <4>3. CASE k \notin DOMAIN fired
        <5>1. "success" \in armed /\ j \in DOMAIN fired /\ fired[j] = "success"
          BY <2>1, <2>4, <3>2, <3>6, <4>3
        <5>2. QED
          BY <2>1, <5>1
      <4>4. QED
        BY <4>1, <4>2, <4>3
    <3>7. QED
      BY <1>1, <2>2, <3>4, <3>5, <3>6 DEF VerdictInv, OneVerdict
  <2>5. QED
    BY <2>3, <2>4
<1>5. QED
  BY <1>3, <1>4, WhoCalls DEF Callbacks

(* Whatever the domains do, the user gets at most one verdict, and each    *)
(* callback at most once.                                                  *)
THEOREM OneVerdictCorrect == Spec => []OneVerdict
<1>1. Init => VerdictInv
  <2> SUFFICES ASSUME Init PROVE VerdictInv
    OBVIOUS
  <2>1. DOMAIN fired = {} /\ armed = Callbacks
    BY DEF Init, ControllerInit
  <2>2. QED
    BY <2>1, InitType DEF VerdictInv, OneVerdict, Callbacks
<1>2. VerdictInv /\ [Next]_vars => VerdictInv'
  BY VerdictStep
<1>3. VerdictInv => OneVerdict
  BY DEF VerdictInv
<1>4. QED
  BY <1>1, <1>2, <1>3, PTL DEF Spec

-----------------------------------------------------------------------------
(* A domain is told to start by the barrier alone.                         *)
LEMMA ClientOpens ==
    ASSUME StartInv, NoQuit, NEW d \in Domains, Progress(d) \/ Choice(d),
           NEW e \in Domains, StartOpen(e)'
    PROVE  StartOpen(e)
<1>t. TypeOK /\ Session(d)
  BY DEF StartInv, EndInv, Sessions
<1>1. CASE e # d
  <2>1. pc'[e] = pc[e] /\ down'[e] = down[e]
    BY <1>t, <1>1
    DEF Progress, Choice, ClientProgress, ClientChoice, Connect, GetModules, Start,
        Register, Registered, AskBind, PassBind, Ask, Bind, AskStart, PassStart,
        Answer, Poll, Finish, SetupCall, RunCall, Request, Stop, Fail, Quit, Die, Close,
        Goto, Send, Receive, Received, channelVars, TypeOK, ClientTypeOK, ChannelTypeOK
  <2>2. QED
    BY <2>1 DEF StartOpen
<1>2. CASE e = d
  <2>1. CASE PassStart(d)
    BY <1>2, <2>1 DEF PassStart, Goto, Receive, StartOpen
  <2>2. CASE AskStart(d)
    <3>1. pc[d] = "querying" /\ pc'[d] = "waitStart" /\ down' = down
      BY <1>t, <2>2, GotoEffect DEF AskStart, Send
    <3>2. down[d] = <<>>
      BY <1>t, <3>1 DEF Session, Asking, AtBarrier, Started, Quiet
    <3>3. QED
      BY <1>2, <3>1, <3>2 DEF StartOpen, Started
  <2>3. CASE Finish(d) \/ Fail(d) \/ Close(d) \/ RunCall(d) \/ Goto(d, "waitRunCall", "run")
    BY <1>2, <2>3 DEF Finish, Fail, Close, RunCall, Goto, StartOpen, Started
  <2>4. CASE Register(d) \/ Poll(d) \/ Stop(d)
    BY <1>2, <2>4 DEF Register, Poll, Stop, StartOpen, Started
  <2>5. CASE Connect(d) \/ GetModules(d) \/ Start(d) \/ Registered(d) \/ AskBind(d)
             \/ PassBind(d) \/ Ask(d) \/ Bind(d) \/ SetupCall(d)
             \/ Goto(d, "waitSetupCall", "setup")
    <3>1. pc'[d] \notin Started /\ pc'[d] # "waitStart"
      BY <1>t, <2>5, GotoEffect
      DEF Connect, GetModules, Start, Registered, AskBind, PassBind, Ask, Bind,
          SetupCall, Started
    <3>2. QED
      BY <1>2, <3>1 DEF StartOpen
  <2>6. CASE Die(d)
    <3>1. pc'[d] = "killed"
      BY <1>t, <2>6 DEF Die, TypeOK, ClientTypeOK
    <3>2. QED
      BY <1>2, <3>1 DEF StartOpen, Started
  <2>7. QED
    BY <2>1, <2>2, <2>3, <2>4, <2>5, <2>6
    DEF Progress, Choice, ClientProgress, ClientChoice, Answer, Quit, NoQuit
<1>3. QED
  BY <1>1, <1>2

LEMMA ControllerOpens ==
    ASSUME StartInv, Controller, NEW e \in Domains, StartOpen(e)'
    PROVE  StartOpen(e) \/ (ServeBarrier /\ counter' = 0)
<1>t. TypeOK /\ Session(e)
  BY DEF StartInv, EndInv, Sessions
<1>p. pc' = pc
  BY DEF Controller, clientVars
<1>1. CASE pc[e] \in Started \/ down'[e] = down[e]
  BY <1>p, <1>1 DEF StartOpen
<1>2. CASE pc[e] \notin Started /\ down'[e] # down[e]
  <2>p. pc[e] = "waitStart"
    BY <1>p, <1>2 DEF StartOpen
  <2>1. ~ \E d \in Domains : Accept(d)
    <3> SUFFICES ASSUME NEW d \in Domains, Accept(d) PROVE FALSE
      OBVIOUS
    <3>1. d = e
      BY <1>t, <1>2 DEF Accept, Sent, TypeOK, ChannelTypeOK
    <3>2. pc[e] = "waitModules"
      BY <1>t, <3>1, HeadSays, TopicTypes DEF Accept
    <3>3. QED
      BY <2>p, <3>2
  <2>2. CASE NotifyEnd
    BY <2>2, AfterEnd DEF NotifyEnd
  <2>3. ~ ServeQuery /\ ~ ServeFile /\ ~ ServeSbrk /\ ~ ServeExit
    <3> SUFFICES ASSUME ServeQuery \/ ServeFile \/ ServeSbrk \/ ServeExit PROVE FALSE
      OBVIOUS
    <3>1. cursor = e
      BY <1>t, <1>2
      DEF ServeQuery, ServeFile, ServeSbrk, ServeExit, Sent, TypeOK, ChannelTypeOK
    <3>2. up[e] # <<>> /\ Head(up[e]).type \in {"TARGET_SOCKET_QUERY", "SYSCALL"}
      BY <3>1 DEF ServeQuery, ServeFile, ServeSbrk, ServeExit, Serving
    <3>3. QED
      BY <1>t, <1>2, <2>p, <3>2, HeadSays, TopicTypes
  <2>4. CASE ServeBarrier
    BY <1>2, <2>4 DEF ServeBarrier
  <2>5. ~ (Skip \/ ServeEnd \/ ServeRegistry \/ Hangup)
    BY <1>2 DEF Skip, ServeEnd, ServeRegistry, Hangup, channelVars
  <2>6. QED
    BY <2>1, <2>2, <2>3, <2>4, <2>5 DEF Controller, ControllerServe
<1>3. QED
  BY <1>1, <1>2

LEMMA CallbackStep ==
    ASSUME StartInv, StartInv', CallbackInv, NoExit, NoQuit, [Next]_vars
    PROVE  CallbackInv'
<1>t. TypeOK
  BY DEF StartInv, EndInv
<1>c. PICK c \in Domains : c = cursor
  BY <1>t DEF TypeOK, ControllerTypeOK
<1>1. ASSUME UNCHANGED <<ending, ending_status, fired, armed>>,
             phase' = "returned" <=> phase = "returned",
             \A d \in Domains : StartOpen(d)' => StartOpen(d)
      PROVE  CallbackInv'
  BY <1>1 DEF CallbackInv, Callbacks
<1>2. ASSUME NEW d \in Domains, Progress(d) \/ Choice(d)
      PROVE  CallbackInv'
  BY <1>1, <1>2, ClientOpens DEF Progress, Choice, controllerVars
<1>3. CASE UNCHANGED vars
  <2>1. \A d \in Domains : StartOpen(d)' => StartOpen(d)
    BY <1>3 DEF vars, clientVars, channelVars, StartOpen
  <2>2. QED
    BY <1>1, <1>3, <2>1 DEF vars, controllerVars
<1>4. ASSUME Controller, ~ ServeEnd, ~ ServeBarrier
      PROVE  CallbackInv'
  <2>1. ~ ServeExit
    <3> SUFFICES ASSUME ServeExit PROVE FALSE
      OBVIOUS
    <3>1. up[c] # <<>> /\ Head(up[c]).type = "SYSCALL" /\ Head(up[c]).call = "EXIT"
      BY <1>c DEF ServeExit, Serving
    <3>2. 1 \in DOMAIN up[c] /\ Head(up[c]) = up[c][1]
      BY <1>t, <3>1, StreamUse, TakeFacts
    <3>3. QED
      BY <1>t, <3>1, <3>2 DEF StartInv, EndInv, StreamInv, ExitFree
  <2>2. \A d \in Domains : StartOpen(d)' => StartOpen(d)
    BY <1>4, ControllerOpens
  <2>3. /\ UNCHANGED <<ending, ending_status, fired, armed>>
        /\ phase' = "returned" <=> phase = "returned"
    BY <1>4, <2>1
    DEF Controller, ControllerServe, Accept, NotifyEnd, Skip, ServeRegistry,
        ServeQuery, ServeFile, ServeSbrk, Hangup, Serving, Turn, controllerVars
  <2>4. QED
    BY <1>1, <2>2, <2>3
<1>5. ASSUME Controller, ServeBarrier
      PROVE  CallbackInv'
  <2>1. /\ UNCHANGED <<ending, ending_status, phase>> /\ phase = "serving"
    BY <1>5 DEF ServeBarrier, Serving, Turn
  <2>2. CASE counter' # 0
    <3>1. \A d \in Domains : StartOpen(d)' => StartOpen(d)
      BY <1>5, <2>2, ControllerOpens
    <3>2. QED
      BY <1>1, <1>5, <2>1, <2>2, <3>1 DEF ServeBarrier
  <2>3. CASE counter' = 0
    <3>1. fired' = Call("before") /\ armed' = Disarmed({"before"})
      BY <1>5, <2>3 DEF ServeBarrier
    <3>2. CASE ending = 0 /\ fired = <<>> /\ armed = Callbacks
      <4>1. fired' = <<"before">> /\ armed' = {"success", "error"}
        BY <3>1, <3>2 DEF Call, Disarmed, Callbacks
      <4>2. QED
        BY <2>1, <3>2, <4>1 DEF CallbackInv
    <3>3. CASE "before" \notin armed
      <4>1. fired' = fired /\ armed' = armed
        BY <3>1, <3>3 DEF Call, Disarmed
      <4>2. QED
        BY <2>1, <3>3, <4>1 DEF CallbackInv, Callbacks
    <3>4. QED
      BY <2>1, <3>2, <3>3 DEF CallbackInv
  <2>4. QED
    BY <2>2, <2>3
<1>6. CASE ServeEnd
  <2>1. /\ up[c] # <<>> /\ Head(up[c]).type = "END" /\ phase = "serving"
        /\ ActionEnd(c, Head(up[c]).status)
        /\ phase' = IF ending' = 0 THEN "returned" ELSE phase
    BY <1>6, <1>c DEF ServeEnd, Serving, Turn
  <2>2. ending' # 0 \/ phase' = "returned"
    BY <2>1
  <2>3. CASE ending # 0
    <3>1. UNCHANGED <<ending_status, fired, armed>>
      BY <2>1, <2>3 DEF ActionEnd, FirstEnd
    <3>2. QED
      BY <2>2, <2>3, <3>1 DEF CallbackInv
  <2>4. CASE ending = 0
    <3>1. Session(c) /\ pc[c] \in Started
      BY <1>t, <2>1, HeadSays DEF StartInv, Sessions
    <3>2. fired = <<"before">> /\ armed = {"success", "error"}
      BY <2>1, <2>4, <3>1 DEF CallbackInv, StartOpen
    <3>3. /\ ending_status' = Head(up[c]).status
          /\ armed' = Disarmed({"success", "error"})
          /\ fired' = Call(IF Head(up[c]).status = 0 THEN "success" ELSE "error")
      BY <2>1, <2>4 DEF ActionEnd, FirstEnd
    <3>4. armed' = {}
      BY <3>2, <3>3 DEF Disarmed
    <3>5. fired' = <<"before", IF ending_status' = 0 THEN "success" ELSE "error">>
      <4>1. CASE ending_status' = 0
        <5>1. fired' = Append(fired, "success")
          BY <3>2, <3>3, <4>1 DEF Call
        <5>2. Append(<<"before">>, "success") = <<"before", "success">>
          <6>1. "before" \in Callbacks /\ "success" \in Callbacks
            BY DEF Callbacks
          <6>2. QED
            BY <6>1, Second
        <5>3. QED
          BY <3>2, <4>1, <5>1, <5>2
      <4>2. CASE ending_status' # 0
        <5>1. fired' = Append(fired, "error")
          BY <3>2, <3>3, <4>2 DEF Call
        <5>2. Append(<<"before">>, "error") = <<"before", "error">>
          <6>1. "before" \in Callbacks /\ "error" \in Callbacks
            BY DEF Callbacks
          <6>2. QED
            BY <6>1, Second
        <5>3. QED
          BY <3>2, <4>2, <5>1, <5>2
      <4>3. QED
        BY <4>1, <4>2
    <3>6. QED
      BY <2>2, <3>4, <3>5 DEF CallbackInv
  <2>5. QED
    BY <2>3, <2>4
<1>7. QED
  BY <1>2, <1>3, <1>4, <1>5, <1>6 DEF Next, Done

(* The stop of a domain is decided before its END is sent.                 *)
LEMMA EndStatusStep ==
    ASSUME StartInv, EndStatus, NoQuit, [Next]_vars
    PROVE  EndStatus'
<1>t. TypeOK /\ StreamInv
  BY DEF StartInv, EndInv
<1>0. \A d \in Domains : up[d] \in Seq(Message)
  BY <1>t, StreamUse
<1>1. ASSUME NEW d \in Domains, NEW k \in DOMAIN up[d], up[d][k].type = "END"
      PROVE  up[d][k].status = (IF stop'[d] THEN 0 ELSE 1)
  <2>1. Ended(d)
    BY <1>1, <1>t DEF StreamInv, EndClosesStream
  <2>2. stop'[d] = stop[d]
    BY <1>t, <2>1
    DEF Next, Done, Controller, Progress, Choice, ClientProgress, ClientChoice, Connect,
        GetModules, Start, Register, Registered, AskBind, PassBind, Ask, Bind, AskStart,
        PassStart, Answer, Poll, PollStops, Finish, SetupCall, RunCall, Request, Stop,
        Fail, Quit, Die, Close, vars, clientVars, Ended, TypeOK, ClientTypeOK
  <2>3. QED
    BY <1>1, <2>2 DEF EndStatus
<1>2. ASSUME NEW d \in Domains, up'[d] = up[d] \/ (up[d] # <<>> /\ up'[d] = Tail(up[d]))
      PROVE  \A k \in DOMAIN up'[d] :
               up'[d][k].type = "END" => up'[d][k].status = IF stop'[d] THEN 0 ELSE 1
  <2>1. CASE up'[d] = up[d]
    BY <1>1, <2>1
  <2>2. CASE up[d] # <<>> /\ up'[d] = Tail(up[d])
    <3>1. \A k \in DOMAIN up'[d] : k + 1 \in DOMAIN up[d] /\ up'[d][k] = up[d][k + 1]
      BY <1>0, <2>2, TakeFacts
    <3>2. QED
      BY <1>1, <3>1
  <2>3. QED
    BY <1>2, <2>1, <2>2
<1>3. ASSUME NEW d \in Domains, NEW m \in Message, Send(d, m),
             m.type = "END" => m.status = IF stop'[d] THEN 0 ELSE 1
      PROVE  EndStatus'
  <2>1. /\ up'[d] = Append(up[d], m)
        /\ \A e \in Domains \ {d} : up'[e] = up[e]
    BY <1>t, <1>3, SendEffect
  <2>2. \A k \in DOMAIN up'[d] :
          up'[d][k] = m \/ (k \in DOMAIN up[d] /\ up'[d][k] = up[d][k])
    BY <1>0, <2>1, AddFacts
  <2>3. \A k \in DOMAIN up'[d] :
          up'[d][k].type = "END" => up'[d][k].status = IF stop'[d] THEN 0 ELSE 1
    BY <1>1, <1>3, <2>2
  <2>4. QED
    BY <1>2, <2>1, <2>3 DEF EndStatus
<1>4. CASE Controller \/ UNCHANGED vars
  <2>1. \A d \in Domains : up'[d] = up[d] \/ (up[d] # <<>> /\ up'[d] = Tail(up[d]))
    BY <1>t, <1>4
    DEF Controller, ControllerServe, Accept, NotifyEnd, Skip, ServeEnd, ServeRegistry,
        ServeQuery, ServeBarrier, ServeFile, ServeSbrk, ServeExit, Serving, Hangup,
        Received, TypeOK, ChannelTypeOK, vars, channelVars
  <2>2. QED
    BY <1>2, <2>1 DEF EndStatus
<1>5. ASSUME NEW d \in Domains, Progress(d) \/ Choice(d)
      PROVE  EndStatus'
  <2>1. CASE up' = up
    BY <1>2, <2>1 DEF EndStatus
  <2>2. CASE Connect(d) \/ AskBind(d) \/ AskStart(d)
    <3>1. \E m \in Message : Send(d, m) /\ m.type # "END"
      BY <2>2, MessageTypes DEF Connect, AskBind, AskStart, DomainRegistry, Barrier
    <3>2. QED
      BY <1>3, <3>1
  <2>3. CASE Register(d)
    <3>1. \E m \in Message : Send(d, m) /\ m.type # "END"
      <4>1. First(Unregistered(d)) \in Socket
        BY <2>3, FirstType DEF Register, Unregistered, Exported
      <4>2. PICK port \in Nat : port = Port(d)
        BY <1>t, LenProperties DEF Port, TypeOK, ClientTypeOK
      <4>3. [domain |-> d, port |-> port] \in Address
        BY DEF Address, Domains
      <4>4. QED
        BY <2>3, <4>1, <4>2, <4>3, MessageTypes DEF Register, Registry
    <3>2. QED
      BY <1>3, <3>1
  <2>4. CASE Ask(d)
    <3>1. \E m \in Message : Send(d, m) /\ m.type # "END"
      <4>1. First(Unbound(d)) \in Socket /\ NoAddress \in Address
        BY <2>4, FirstType DEF Ask, Unbound, Imported, NoAddress, Address
      <4>2. QED
        BY <2>4, <4>1, MessageTypes DEF Ask, Query
    <3>2. QED
      BY <1>3, <3>1
  <2>5. CASE SetupCall(d) \/ RunCall(d)
    <3>1. PICK call \in Calls : Request(d, call)
      BY <2>5, UseAssumption DEF SetupCall, RunCall
    <3>2. PICK status \in Int : Send(d, Syscall(call, calls'[d], status))
      BY <3>1, ArgumentsType DEF Request
    <3>3. calls'[d] \in Nat
      BY <1>t, <3>1, RequestType, UseAssumption
    <3>4. /\ Syscall(call, calls'[d], status) \in Message
          /\ Syscall(call, calls'[d], status).type # "END"
      BY <3>3, MessageTypes DEF Syscall
    <3>5. QED
      BY <1>3, <3>2, <3>4
  <2>6. CASE Finish(d)
    <3>1. Send(d, End(0)) /\ stop'[d] /\ End(0) \in Message /\ End(0).status = 0
      BY <2>6, MessageTypes DEF Finish, End, Status
    <3>2. QED
      BY <1>3, <3>1
  <2>7. CASE Fail(d)
    <3>1. Send(d, End(1)) /\ ~ stop'[d] /\ End(1) \in Message /\ End(1).status = 1
      BY <2>7, MessageTypes DEF Fail, End, Status
    <3>2. QED
      BY <1>3, <3>1
  <2>8. CASE GetModules(d) \/ Start(d) \/ Registered(d) \/ PassBind(d) \/ Bind(d)
             \/ PassStart(d) \/ Answer(d) \/ Poll(d) \/ Stop(d) \/ Die(d) \/ Close(d)
    BY <2>1, <2>8
    DEF GetModules, Start, Registered, PassBind, Bind, PassStart, Answer, Poll, Stop,
        Die, Close, Receive, channelVars
  <2>9. QED
    BY <1>5, <2>2, <2>3, <2>4, <2>5, <2>6, <2>7, <2>8
    DEF Progress, Choice, ClientProgress, ClientChoice, Quit, NoQuit
<1>6. QED
  BY <1>4, <1>5 DEF Next, Done

LEMMA RunInitially == Init => RunInv
<1> SUFFICES ASSUME Init PROVE RunInv
  OBVIOUS
<1>1. /\ ending = 0 /\ phase = "accepting" /\ fired = <<>> /\ armed = Callbacks
      /\ \A d \in Domains : pc[d] = "connect" /\ DOMAIN up[d] = {}
  BY DEF Init, ChannelInit, ControllerInit, ClientInit
<1>2. CallbackInv /\ EndStatus
  BY <1>1 DEF CallbackInv, EndStatus, StartOpen, Started
<1>3. QED
  BY <1>2, StartInitially DEF RunInv

LEMMA RunStep ==
    ASSUME NoExit, NoQuit, RunInv, [Next]_vars
    PROVE  RunInv'
<1>1. StartInv'
  BY StartStep DEF RunInv
<1>2. QED
  BY <1>1, CallbackStep, EndStatusStep DEF RunInv

(* If every domain starts and none calls EXIT, the user sees               *)
(* before_simulation and then one verdict, that of the first END.          *)
THEOREM CallbacksInOrderCorrect == ASSUME NoExit, NoQuit PROVE Spec => []CallbacksInOrder
<1>1. RunInv /\ [Next]_vars => RunInv'
  BY RunStep
<1>2. RunInv => CallbacksInOrder
  BY DEF RunInv, CallbackInv, CallbacksInOrder
<1>3. QED
  BY <1>1, <1>2, RunInitially, PTL DEF Spec

-----------------------------------------------------------------------------
(* The life cycle: what a domain shows at each point of its run.           *)
LEMMA StateFacts ==
    ASSUME NEW d \in Domains
    PROVE  /\ Ended(d) => StateOf(d) = "ended"
           /\ Running(d) => StateOf(d) = "running"
           /\ pc[d] = "waitStart" => StateOf(d) = "ready"
           /\ ~ Ended(d) /\ ~ Running(d) /\ pc[d] # "waitStart" => StateOf(d) = "building"
           /\ Ended(d) => ResultOf(d) = IF stop[d] THEN "success" ELSE "error"
           /\ ~ Ended(d) => ResultOf(d) = "none"
<1>1. Ended(d) => ~ Running(d) /\ pc[d] # "waitStart"
  BY DEF Ended, Running
<1>2. Running(d) => pc[d] # "waitStart"
  BY DEF Running
<1>3. QED
  BY <1>1, <1>2 DEF StateOf, ResultOf

VerdictSays ==
    /\ fired = <<>> \/ fired = <<"before">> => Verdict = "none"
    /\ fired = <<"before", "success">> => Verdict = "success"
    /\ fired = <<"before", "error">> => Verdict = "error"

LEMMA VerdictNow == VerdictSays
<1>1. ASSUME fired = <<>> \/ fired = <<"before">>
      PROVE  Verdict = "none"
  <2>1. \A k \in DOMAIN fired : fired[k] = "before"
    BY <1>1
  <2>2. QED
    BY <2>1 DEF Verdict
<1>2. ASSUME fired = <<"before", "success">>
      PROVE  Verdict = "success"
  <2>1. 2 \in DOMAIN fired /\ fired[2] = "success"
    BY <1>2
  <2>2. QED
    BY <2>1 DEF Verdict
<1>3. ASSUME fired = <<"before", "error">>
      PROVE  Verdict = "error"
  <2>1. /\ 2 \in DOMAIN fired /\ fired[2] = "error"
        /\ \A k \in DOMAIN fired : fired[k] # "success"
    BY <1>3
  <2>2. QED
    BY <2>1 DEF Verdict
<1>4. QED
  BY <1>1, <1>2, <1>3 DEF VerdictSays

LEMMA VerdictFacts == VerdictSays /\ VerdictSays'
  BY VerdictNow, PTL

(* A step that the life cycle does not see.                                *)
LEMMA Unseen ==
    ASSUME \A d \in Domains : StateOf(d)' = StateOf(d) /\ ResultOf(d)' = ResultOf(d),
           Verdict' = Verdict, phase' = "returned" <=> phase = "returned"
    PROVE  UNCHANGED Life!vars
<1>1. [d \in Domains |-> StateOf(d)]' = [d \in Domains |-> StateOf(d)]
  OBVIOUS
<1>2. [d \in Domains |-> ResultOf(d)]' = [d \in Domains |-> ResultOf(d)]
  OBVIOUS
<1>3. (phase = "returned")' = (phase = "returned")
  OBVIOUS
<1>4. QED
  BY <1>1, <1>2, <1>3 DEF Life!vars

(* A step that moves one domain on.                                        *)
LEMMA Seen ==
    ASSUME NEW d \in Domains, NEW s, NEW r, StateOf(d)' = s, ResultOf(d)' = r,
           \A e \in Domains \ {d} :
             StateOf(e)' = StateOf(e) /\ ResultOf(e)' = ResultOf(e),
           Verdict' = Verdict, phase' = phase
    PROVE  /\ [e \in Domains |-> StateOf(e)]' =
                [[e \in Domains |-> StateOf(e)] EXCEPT ![d] = s]
           /\ [e \in Domains |-> ResultOf(e)]' =
                [[e \in Domains |-> ResultOf(e)] EXCEPT ![d] = r]
           /\ UNCHANGED <<Verdict, phase = "returned">>
  OBVIOUS

LEMMA Neighbours ==
    ASSUME TypeOK, NEW d \in Domains, Progress(d) \/ Choice(d)
    PROVE  /\ \A e \in Domains \ {d} :
                StateOf(e)' = StateOf(e) /\ ResultOf(e)' = ResultOf(e)
           /\ Verdict' = Verdict /\ phase' = phase
<1>1. fired' = fired /\ phase' = phase
  BY DEF Progress, Choice, controllerVars
<1>2. \A e \in Domains \ {d} : pc'[e] = pc[e] /\ stop'[e] = stop[e]
  BY DEF Progress, Choice, ClientProgress, ClientChoice, Connect, GetModules, Start,
         Register, Registered, AskBind, PassBind, Ask, Bind, AskStart, PassStart,
         Answer, Poll, PollStops, Finish, SetupCall, RunCall, Request, Stop, Fail,
         Quit, Die, Close, Goto, TypeOK, ClientTypeOK
<1>3. QED
  BY <1>1, <1>2 DEF StateOf, ResultOf, Ended, Running, Verdict

LEMMA ClientLife ==
    ASSUME StartInv, NoQuit, NEW d \in Domains, Progress(d) \/ Choice(d)
    PROVE  [Life!Next]_(Life!vars)
<1>t. TypeOK
  BY DEF StartInv, EndInv
<1>n. /\ \A e \in Domains \ {d} :
           StateOf(e)' = StateOf(e) /\ ResultOf(e)' = ResultOf(e)
      /\ Verdict' = Verdict /\ phase' = phase
  BY <1>t, Neighbours
<1>0. ASSUME StateOf(d)' = StateOf(d), ResultOf(d)' = ResultOf(d)
      PROVE  [Life!Next]_(Life!vars)
  BY <1>0, <1>n, Unseen
<1>1. CASE AskStart(d)
  <2>1. pc[d] = "querying" /\ pc'[d] = "waitStart"
    BY <1>1, <1>t, GotoEffect DEF AskStart
  <2>2. /\ StateOf(d) = "building" /\ StateOf(d)' = "ready"
        /\ ResultOf(d) = "none" /\ ResultOf(d)' = "none"
    BY <2>1 DEF StateOf, ResultOf, Ended, Running
  <2>3. Life!GetReady(d)
    BY <1>n, <2>2, Seen DEF Life!GetReady
  <2>4. QED
    BY <2>3 DEF Life!Next
<1>2. CASE PassStart(d)
  <2>1. pc[d] = "waitStart" /\ pc'[d] = "run" /\ down[d] # <<>>
    BY <1>2, <1>t, GotoEffect, ReceiveEffect DEF PassStart
  <2>2. /\ StateOf(d) = "ready" /\ StateOf(d)' = "running"
        /\ ResultOf(d) = "none" /\ ResultOf(d)' = "none"
    BY <2>1 DEF StateOf, ResultOf, Ended, Running
  <2>3. \A e \in Domains : StateOf(e) # "building"
    <3>1. \A e \in Domains : StartOpen(e)
      BY <2>1 DEF StartInv, SameRound, Open, StartOpen
    <3>2. \A e \in Domains : pc[e] = "waitStart" \/ Running(e) \/ Ended(e)
      BY <3>1 DEF StartOpen, Started, Running, Ended
    <3>3. QED
      BY <3>2, StateFacts
  <2>4. Life!Run(d)
    BY <1>n, <2>2, <2>3, Seen DEF Life!Run
  <2>5. QED
    BY <2>4 DEF Life!Next
<1>3. CASE Finish(d) \/ Fail(d)
  <2>1. pc[d] = "run" /\ pc'[d] = "ended" /\ stop' = stop
    BY <1>3, <1>t, GotoEffect DEF Finish, Fail
  <2>2. PICK r \in {"success", "error"} : r = IF stop[d] THEN "success" ELSE "error"
    OBVIOUS
  <2>3. /\ StateOf(d) = "running" /\ StateOf(d)' = "ended"
        /\ ResultOf(d)' = r
    BY <2>1, <2>2 DEF StateOf, ResultOf, Ended, Running
  <2>4. Life!End(d, r)
    BY <1>n, <2>3, Seen DEF Life!End
  <2>5. QED
    BY <2>4 DEF Life!Next, Life!Results
<1>4. CASE Close(d)
  <2>1. pc[d] = "ended" /\ pc'[d] = "closed" /\ stop' = stop
    BY <1>4, <1>t, GotoEffect DEF Close
  <2>2. QED
    BY <1>0, <2>1 DEF StateOf, ResultOf, Ended, Running
<1>5. CASE RunCall(d) \/ Poll(d) \/ Stop(d) \/ (Answer(d) /\ pc[d] = "waitRunCall")
  <2>1. pc[d] \in {"run", "waitRunCall"} /\ pc'[d] \in {"run", "waitRunCall"}
    BY <1>5, <1>t, GotoEffect DEF RunCall, Poll, Stop, Answer
  <2>2. QED
    BY <1>0, <2>1 DEF StateOf, ResultOf, Ended, Running
<1>6. CASE Connect(d) \/ GetModules(d) \/ Start(d) \/ Register(d) \/ Registered(d)
           \/ AskBind(d) \/ PassBind(d) \/ Ask(d) \/ Bind(d) \/ SetupCall(d)
           \/ (Answer(d) /\ pc[d] # "waitRunCall")
  <2> DEFINE B == {"connect", "waitModules", "setup", "binding", "waitBind", "querying",
                   "waitAddress", "waitSetupCall"}
  <2>1. pc[d] \in B /\ pc'[d] \in B
    BY <1>6, <1>t, GotoEffect
    DEF Connect, GetModules, Start, Register, Registered, AskBind, PassBind, Ask, Bind,
        SetupCall, Answer
  <2>2. QED
    BY <1>0, <2>1 DEF StateOf, ResultOf, Ended, Running
<1>7. ~ Quit(d) /\ ~ Die(d)
  <2>1. ~ Die(d)
    <3> SUFFICES ASSUME Die(d) PROVE FALSE
      OBVIOUS
    <3>1. phase = "returned" /\ pc[d] \notin {"ended", "closed"}
      BY DEF Die, StartInv, HangsUpLast, Waiting
    <3>2. QED
      BY <3>1 DEF StartInv, EndInv, Counted, Ended
  <2>2. QED
    BY <2>1 DEF NoQuit, Quit
<1>8. QED
  BY <1>1, <1>2, <1>3, <1>4, <1>5, <1>6, <1>7
  DEF Progress, Choice, ClientProgress, ClientChoice

LEMMA ControllerLife ==
    ASSUME RunInv, RunInv', NoExit, Controller
    PROVE  [Life!Next]_(Life!vars)
<1>t. TypeOK
  BY DEF RunInv, StartInv, EndInv
<1>c. PICK c \in Domains : c = cursor
  BY <1>t DEF TypeOK, ControllerTypeOK
<1>p. \A d \in Domains : StateOf(d)' = StateOf(d) /\ ResultOf(d)' = ResultOf(d)
  BY DEF Controller, clientVars, StateOf, ResultOf, Ended, Running
<1>0. ASSUME Verdict' = Verdict, phase' = "returned" <=> phase = "returned"
      PROVE  [Life!Next]_(Life!vars)
  BY <1>0, <1>p, Unseen
<1>1. CASE ServeBarrier
  <2>1. phase' = phase /\ ending' = ending /\ ending_status' = ending_status
    BY <1>1 DEF ServeBarrier
  <2>2. Verdict' = Verdict
    <3>1. CASE ending = 0 /\ phase # "returned"
      <4>1. /\ fired = <<>> \/ fired = <<"before">>
            /\ fired' = <<>> \/ fired' = <<"before">>
        BY <2>1, <3>1 DEF RunInv, CallbackInv
      <4>2. QED
        BY <4>1, VerdictFacts DEF VerdictSays
    <3>2. CASE ~ (ending = 0 /\ phase # "returned")
      <4>1. fired' = fired
        BY <2>1, <3>2 DEF RunInv, CallbackInv
      <4>2. QED
        BY <4>1 DEF Verdict
    <3>3. QED
      BY <3>1, <3>2
  <2>3. QED
    BY <1>0, <2>1, <2>2
<1>2. CASE ServeEnd
  <2>1. /\ up[c] # <<>> /\ Head(up[c]).type = "END" /\ phase = "serving"
        /\ ActionEnd(c, Head(up[c]).status)
        /\ phase' = IF ending' = 0 THEN "returned" ELSE phase
    BY <1>2, <1>c DEF ServeEnd, Serving, Turn
  <2>2. 1 \in DOMAIN up[c] /\ Head(up[c]) = up[c][1]
    BY <1>t, <2>1, StreamUse, TakeFacts
  <2>3. Ended(c) /\ Head(up[c]).status = IF stop[c] THEN 0 ELSE 1
    BY <2>1, <2>2 DEF RunInv, StartInv, EndInv, StreamInv, EndClosesStream, EndStatus
  <2>4. StateOf(c) = "ended" /\ ResultOf(c) = IF stop[c] THEN "success" ELSE "error"
    BY <2>3, StateFacts
  <2>5. phase' = "returned" => \A d \in Domains : StateOf(d) = "ended"
    <3>1. phase' = "returned" => \A d \in Domains : Ended(d)'
      BY DEF RunInv, StartInv, EndInv, Counted
    <3>2. \A d \in Domains : Ended(d)' <=> Ended(d)
      BY DEF Controller, clientVars, Ended
    <3>3. QED
      BY <3>1, <3>2, StateFacts
  <2>6. CASE ending = 0
    <3>1. Verdict = "none"
      BY <2>1, <2>6, VerdictFacts DEF VerdictSays, RunInv, CallbackInv
    <3>2. ending_status' = Head(up[c]).status
      BY <2>1, <2>6 DEF ActionEnd, FirstEnd
    <3>3. ~ (ending' = 0 /\ phase' # "returned")
      BY <2>1
    <3>4. Verdict' = IF ending_status' = 0 THEN "success" ELSE "error"
      BY <3>3, VerdictFacts DEF VerdictSays, RunInv, CallbackInv
    <3>5. Verdict' = ResultOf(c)
      BY <2>3, <2>4, <3>2, <3>4
    <3>6. Life!Judge
      BY <1>p, <2>1, <2>4, <2>5, <3>1, <3>5 DEF Life!Judge, Life!Judged, Life!AllEnded
    <3>7. QED
      BY <3>6 DEF Life!Next
  <2>7. CASE ending # 0
    <3>1. fired' = fired
      BY <2>1, <2>7 DEF ActionEnd, FirstEnd
    <3>2. Verdict' = Verdict /\ Verdict # "none"
      BY <2>7, <3>1, VerdictFacts DEF VerdictSays, RunInv, CallbackInv, Verdict
    <3>3. CASE phase' # "returned"
      BY <1>0, <2>1, <3>2, <3>3
    <3>4. CASE phase' = "returned"
      <4>1. Life!Return
        BY <1>p, <2>1, <2>5, <3>2, <3>4 DEF Life!Return, Life!AllEnded
      <4>2. QED
        BY <4>1 DEF Life!Next
    <3>5. QED
      BY <3>3, <3>4
  <2>8. QED
    BY <2>6, <2>7
<1>3. CASE ~ ServeBarrier /\ ~ ServeEnd
  <2>1. ~ ServeExit
    <3> SUFFICES ASSUME ServeExit PROVE FALSE
      OBVIOUS
    <3>1. up[c] # <<>> /\ Head(up[c]).type = "SYSCALL" /\ Head(up[c]).call = "EXIT"
      BY <1>c DEF ServeExit, Serving
    <3>2. 1 \in DOMAIN up[c] /\ Head(up[c]) = up[c][1]
      BY <1>t, <3>1, StreamUse, TakeFacts
    <3>3. QED
      BY <1>t, <3>1, <3>2 DEF RunInv, StartInv, EndInv, StreamInv, ExitFree
  <2>2. fired' = fired /\ (phase' = "returned" <=> phase = "returned")
    BY <1>3, <2>1
    DEF Controller, ControllerServe, Accept, NotifyEnd, Skip, ServeRegistry,
        ServeQuery, ServeFile, ServeSbrk, Hangup, Serving, Turn, controllerVars
  <2>3. Verdict' = Verdict
    BY <2>2 DEF Verdict
  <2>4. QED
    BY <1>0, <2>2, <2>3
<1>4. QED
  BY <1>1, <1>2, <1>3

LEMMA LifeInitially == Init => Life!Init
<1> SUFFICES ASSUME Init PROVE Life!Init
  OBVIOUS
<1>1. /\ fired = <<>> /\ phase = "accepting"
      /\ \A d \in Domains : pc[d] = "connect"
  BY DEF Init, ControllerInit, ClientInit
<1>2. \A d \in Domains : StateOf(d) = "building" /\ ResultOf(d) = "none"
  BY <1>1, StateFacts DEF Ended, Running
<1>3. Verdict = "none"
  BY <1>1, VerdictFacts DEF VerdictSays
<1>4. QED
  BY <1>1, <1>2, <1>3 DEF Life!Init

(* If every domain starts and none calls EXIT, every step of the           *)
(* controller and of the clients is a step of the life cycle that the      *)
(* library promises, or is not seen in it: the safety part of              *)
(* ImplementsLifecycle.                                                    *)
THEOREM LifecycleCorrect == ASSUME NoExit, NoQuit PROVE Spec => Life!Spec
<1>1. RunInv /\ [Next]_vars => RunInv'
  BY RunStep
<1>2. RunInv /\ RunInv' /\ [Next]_vars => [Life!Next]_(Life!vars)
  <2> SUFFICES ASSUME RunInv, RunInv', [Next]_vars
               PROVE  [Life!Next]_(Life!vars)
    OBVIOUS
  <2>1. CASE Controller
    BY <2>1, ControllerLife
  <2>2. ASSUME NEW d \in Domains, Progress(d) \/ Choice(d)
        PROVE  [Life!Next]_(Life!vars)
    BY <2>2, ClientLife DEF RunInv
  <2>3. CASE UNCHANGED vars
    <3>1. \A d \in Domains : StateOf(d)' = StateOf(d) /\ ResultOf(d)' = ResultOf(d)
      BY <2>3 DEF vars, clientVars, StateOf, ResultOf, Ended, Running
    <3>2. Verdict' = Verdict /\ phase' = phase
      BY <2>3 DEF vars, controllerVars, Verdict
    <3>3. QED
      BY <3>1, <3>2, Unseen
  <2>4. QED
    BY <2>1, <2>2, <2>3 DEF Next, Done
<1>3. QED
  BY <1>1, <1>2, RunInitially, LifeInitially, PTL DEF Spec, Life!Spec

-----------------------------------------------------------------------------
(* A domain that quits. Here domains may finalize without having started,  *)
(* so that the invariants of the start do not hold; what is left is what   *)
(* happens before the verdict, and who can still reach the barrier.        *)

(* No domain calls EXIT before its simulation.                             *)
NoEarlyExit == \A d \in Domains : "EXIT" \notin SetupCalls[d]

(* The user has been told before_simulation; nobody has been told of an    *)
(* end.                                                                    *)
Opened == "before" \notin armed

Early == "success" \in armed

Before == {"connect", "waitModules", "setup", "waitSetupCall", "binding", "querying",
           "waitAddress"}

AtGate(d) == \E k \in DOMAIN up[d] : up[d][k].type = "BARRIER"

(* Who may still come to the barrier, and who never will.                  *)
Expected == {d \in Domains : pc[d] \in Before \/ AtGate(d)}

Quitted == {d \in Quitters \ Failing : Ended(d) /\ ~ stop[d]}

OneBarrier(d) ==
    /\ \A j, k \in DOMAIN up[d] :
         up[d][j].type = "BARRIER" /\ up[d][k].type = "BARRIER" => j = k
    /\ pc[d] \in Before \/ d \in Quitted => ~ AtGate(d)
    /\ pc[d] # "waitBind"

(* The barrier only opens to those who come: those counted, those who may  *)
(* still come and those who quit are different domains.                    *)
GateInv ==
    /\ \A d \in Domains : OneBarrier(d)
    /\ IF Opened
         THEN Expected \cup Quitted = {}
         ELSE (IF counter = 0 THEN 0 ELSE N - counter)
              + Cardinality(Expected \cup Quitted) <= N

(* Before the verdict nobody runs, and nobody ends well, unless the        *)
(* barrier has opened, since nothing else is sent to who waits at it.      *)
Passed(d) ==
    \/ Running(d)
    \/ pc[d] = "waitStart" /\ down[d] # <<>>
    \/ \E k \in DOMAIN up[d] :
         \/ up[d][k].type = "END" /\ up[d][k].status = 0
         \/ up[d][k].type = "SYSCALL" /\ up[d][k].call = "EXIT"

EarlyInv ==
    Early =>
        /\ ending = 0 /\ phase # "returned" /\ linked
        /\ \A d \in Domains : pc[d] \in Started \/ Session(d)
        /\ (\E d \in Domains : Passed(d)) => Opened

QuitInv ==
    /\ TypeOK
    /\ Backend = "MPI" => Quitted = {}
    /\ Backend # "MPI" =>
         /\ GateInv
         /\ EarlyInv
         /\ (\E k \in DOMAIN fired : fired[k] = "success") => Opened

(* What a client sends.                                                    *)
LEMMA RegistrySent ==
    ASSUME TypeOK, NEW d \in Domains, Register(d)
    PROVE  \E m \in Message : Send(d, m) /\ m.type = "TARGET_SOCKET_REGISTRY"
<1>1. First(Unregistered(d)) \in Socket
  BY FirstType DEF Register, Unregistered, Exported
<1>2. remotes[d] \in Seq(Socket) /\ Port(d) \in Nat
  BY DEF TypeOK, ClientTypeOK, Port
<1>3. Registry(First(Unregistered(d)), [domain |-> d, port |-> Port(d)]) \in Message
  BY <1>1, <1>2, MessageTypes DEF Domains, Address
<1>4. QED
  BY <1>3 DEF Register, Registry

LEMMA QuerySent ==
    ASSUME TypeOK, NEW d \in Domains, Ask(d)
    PROVE  \E m \in Message : Send(d, m) /\ m.type = "TARGET_SOCKET_QUERY"
<1>1. First(Unbound(d)) \in Socket
  BY FirstType DEF Ask, Unbound, Imported
<1>2. Query(First(Unbound(d)), NoAddress) \in Message
  BY <1>1, MessageTypes DEF NoAddress, Address
<1>3. QED
  BY <1>2 DEF Ask, Query

LEMMA CallMade ==
    ASSUME TypeOK, NEW d \in Domains, SetupCall(d) \/ RunCall(d)
    PROVE  \E m \in Message :
             /\ Send(d, m) /\ m.type = "SYSCALL"
             /\ SetupCall(d) => m.call \in SetupCalls[d]
<1>1. PICK call \in SetupCalls[d] \cup RunCalls[d] :
        Request(d, call) /\ (SetupCall(d) => call \in SetupCalls[d])
  BY DEF SetupCall, RunCall
<1>2. call \in Calls
  BY UseAssumption
<1>3. calls'[d] \in Nat
  BY <1>1, <1>2, RequestType, UseAssumption
<1>4. PICK status \in Int : Send(d, Syscall(call, calls'[d], status))
  BY <1>1, ArgumentsType DEF Request
<1>5. /\ Syscall(call, calls'[d], status) \in Message
      /\ Syscall(call, calls'[d], status).type = "SYSCALL"
      /\ Syscall(call, calls'[d], status).call = call
  BY <1>2, <1>3, MessageTypes DEF Syscall
<1>6. QED
  BY <1>1, <1>4, <1>5

(* What a step does to one domain's place before the barrier.              *)
Gated(d) ==
    /\ OneBarrier(d)'
    /\ d \in Expected' \cup Quitted' => d \in Expected \cup Quitted

LEMMA GateStep ==
    ASSUME TypeOK, GateInv, \A d \in Domains : Gated(d), counter' = counter,
           Opened' <=> Opened
    PROVE  GateInv'
<1>1. /\ Expected' \cup Quitted' \subseteq Expected \cup Quitted
      /\ Expected \cup Quitted \in SUBSET Domains
  BY UseAssumption DEF Gated, Expected, Quitted
<1>2. /\ IsFiniteSet(Expected \cup Quitted)
      /\ Cardinality(Expected \cup Quitted) \in Nat
      /\ Cardinality(Expected' \cup Quitted') \in Nat
      /\ Cardinality(Expected' \cup Quitted') <= Cardinality(Expected \cup Quitted)
  BY <1>1, DomainsFinite, FS_Subset, FS_CardinalityType
<1>3. \A d \in Domains : OneBarrier(d)'
  BY DEF Gated
<1>4. CASE Opened
  BY <1>1, <1>3, <1>4 DEF GateInv
<1>5. CASE ~ Opened
  <2>1. counter \in Nat /\ N \in Nat
    BY NAssumption DEF TypeOK, ControllerTypeOK
  <2>2. (IF counter = 0 THEN 0 ELSE N - counter) + Cardinality(Expected \cup Quitted) <= N
    BY <1>5 DEF GateInv
  <2>3. (IF counter = 0 THEN 0 ELSE N - counter) + Cardinality(Expected' \cup Quitted') <= N
    BY <1>2, <2>1, <2>2
  <2>4. QED
    BY <1>3, <1>5, <2>3 DEF GateInv
<1>6. QED
  BY <1>4, <1>5

LEMMA GateTaken ==
    ASSUME TypeOK, NEW d \in Domains, OneBarrier(d), pc'[d] = pc[d], stop'[d] = stop[d],
           up'[d] = up[d] \/ (up[d] # <<>> /\ up'[d] = Tail(up[d]))
    PROVE  Gated(d)
<1>1. d \in Quitted' <=> d \in Quitted
  BY DEF Quitted, Ended
<1>2. CASE up'[d] = up[d]
  BY <1>1, <1>2 DEF OneBarrier, AtGate, Expected, Gated
<1>3. CASE up[d] # <<>> /\ up'[d] = Tail(up[d])
  <2>1. \A k \in DOMAIN up'[d] :
          k \in Nat /\ k + 1 \in DOMAIN up[d] /\ up'[d][k] = up[d][k + 1]
    BY <1>3, StreamUse, TakeFacts
  <2>2. AtGate(d)' => AtGate(d)
    BY <2>1 DEF AtGate
  <2>3. ASSUME NEW j \in DOMAIN up'[d], NEW k \in DOMAIN up'[d],
               up'[d][j].type = "BARRIER", up'[d][k].type = "BARRIER"
        PROVE  j = k
    <3>1. j + 1 = k + 1
      BY <2>1, <2>3 DEF OneBarrier
    <3>2. QED
      BY <2>1, <3>1
  <2>4. QED
    BY <1>1, <2>2, <2>3 DEF OneBarrier, Expected, Gated
<1>4. QED
  BY <1>2, <1>3

LEMMA GateSent ==
    ASSUME TypeOK, NEW d \in Domains, OneBarrier(d), NEW m \in Message,
           up'[d] = Append(up[d], m), pc'[d] # "waitBind",
           m.type = "BARRIER" => pc[d] \in Before /\ pc'[d] \notin Before,
           pc'[d] \in Before => pc[d] \in Before,
           d \in Quitted' => pc[d] \in Before /\ m.type # "BARRIER"
    PROVE  Gated(d)
<1>1. /\ Len(up[d]) \in Nat /\ DOMAIN up[d] = 1 .. Len(up[d])
      /\ DOMAIN up'[d] = 1 .. (Len(up[d]) + 1)
      /\ \A k \in DOMAIN up[d] : up'[d][k] = up[d][k]
      /\ up'[d][Len(up[d]) + 1] = m
  BY StreamUse, AddFacts
<1>2. \A k \in DOMAIN up'[d] :
        \/ k = Len(up[d]) + 1 /\ up'[d][k] = m
        \/ k \in DOMAIN up[d] /\ up'[d][k] = up[d][k]
  BY <1>1
<1>3. AtGate(d)' => AtGate(d) \/ m.type = "BARRIER"
  BY <1>2 DEF AtGate
<1>4. ASSUME NEW j \in DOMAIN up'[d], NEW k \in DOMAIN up'[d],
             up'[d][j].type = "BARRIER", up'[d][k].type = "BARRIER"
      PROVE  j = k
  BY <1>2, <1>4 DEF OneBarrier, AtGate
<1>5. QED
  BY <1>3, <1>4 DEF OneBarrier, Expected, Gated

LEMMA ClientGate ==
    ASSUME TypeOK, Backend # "MPI", \A e \in Domains : OneBarrier(e),
           NEW d \in Domains, Progress(d) \/ Choice(d)
    PROVE  \A e \in Domains : Gated(e)
<1>0. \A e \in Domains \ {d} : pc'[e] = pc[e] /\ up'[e] = up[e] /\ stop'[e] = stop[e]
  BY DEF Progress, Choice, ClientProgress, ClientChoice, Connect, GetModules, Start,
         Register, Registered, AskBind, PassBind, Ask, Bind, AskStart, PassStart, Answer,
         Poll, PollStops, Finish, SetupCall, RunCall, Request, Stop, Fail, Quit, Die,
         Close, Goto, Send, Sent, Receive, Received, channelVars, TypeOK, ClientTypeOK,
         ChannelTypeOK
<1>k. ASSUME Gated(d) PROVE \A e \in Domains : Gated(e)
  BY <1>0, <1>k, GateTaken
<1>w. pc[d] # "waitBind" /\ ~ BarrierInBind
  BY DEF OneBarrier, BarrierInBind
<1>1. CASE AskStart(d)
  <2>1. Barrier \in Message /\ Barrier.type = "BARRIER"
    BY MessageTypes DEF Barrier
  <2>2. pc[d] = "querying" /\ pc'[d] = "waitStart" /\ up'[d] = Append(up[d], Barrier)
    BY <1>1, <2>1, GotoEffect, SendEffect DEF AskStart
  <2>3. Gated(d)
    BY <2>1, <2>2, GateSent DEF Before, Quitted, Ended
  <2>4. QED
    BY <1>k, <2>3
<1>2. ASSUME NEW m \in Message, Send(d, m), m.type # "BARRIER", pc'[d] # "waitBind",
             pc'[d] \in Before => pc[d] \in Before,
             d \in Quitted' => pc[d] \in Before
      PROVE  \A e \in Domains : Gated(e)
  <2>1. up'[d] = Append(up[d], m)
    BY <1>2, SendEffect
  <2>2. Gated(d)
    BY <1>2, <2>1, GateSent
  <2>3. QED
    BY <1>k, <2>2
<1>3. CASE Connect(d)
  <2>1. DomainRegistry \in Message /\ DomainRegistry.type # "BARRIER"
    BY MessageTypes DEF DomainRegistry
  <2>2. QED
    BY <1>2, <1>3, <2>1, GotoEffect DEF Connect, Before, Quitted, Ended
<1>4. CASE Register(d)
  <2>1. PICK m \in Message : Send(d, m) /\ m.type = "TARGET_SOCKET_REGISTRY"
    BY <1>4, RegistrySent
  <2>2. QED
    BY <1>2, <1>4, <2>1 DEF Register, Before, Quitted, Ended
<1>5. CASE Ask(d)
  <2>1. PICK m \in Message : Send(d, m) /\ m.type = "TARGET_SOCKET_QUERY"
    BY <1>5, QuerySent
  <2>2. QED
    BY <1>2, <1>5, <2>1, GotoEffect DEF Ask, Before, Quitted, Ended
<1>6. CASE SetupCall(d) \/ RunCall(d)
  <2>1. PICK m \in Message : Send(d, m) /\ m.type = "SYSCALL"
    BY <1>6, CallMade
  <2>2. QED
    BY <1>2, <1>6, <2>1, GotoEffect DEF SetupCall, RunCall, Before, Quitted, Ended
<1>7. CASE Finish(d) \/ Fail(d) \/ Quit(d)
  <2>1. \A status \in Int : End(status) \in Message /\ End(status).type # "BARRIER"
    BY MessageTypes DEF End, Status
  <2>2. PICK status \in Int : Send(d, End(status))
    BY <1>7 DEF Finish, Fail, Quit, QuitStatus
  <2>3. pc'[d] = "ended" /\ pc[d] \in {"run", "setup"}
    BY <1>7, GotoEffect DEF Finish, Fail, Quit
  <2>4. d \in Quitted' => pc[d] \in Before
    BY <1>7, GotoEffect DEF Finish, Fail, Quit, Quitted, Before
  <2>5. QED
    BY <1>2, <2>1, <2>2, <2>3, <2>4 DEF Before
<1>8. CASE \/ GetModules(d) \/ Start(d) \/ Registered(d) \/ Bind(d) \/ PassStart(d)
           \/ Answer(d) \/ Close(d)
  <2>1. /\ up' = up /\ stop' = stop /\ pc'[d] # "waitBind"
        /\ pc'[d] \in Before => pc[d] \in Before
        /\ Ended(d)' <=> Ended(d)
    BY <1>8, GotoEffect
    DEF GetModules, Start, Registered, Bind, PassStart, Answer, Close, Receive,
        channelVars, Before, Ended
  <2>2. Gated(d)
    BY <2>1 DEF Gated, OneBarrier, Expected, Quitted, AtGate
  <2>3. QED
    BY <1>k, <2>2
<1>9. CASE Poll(d) \/ Stop(d)
  <2>1. up' = up /\ pc' = pc /\ pc[d] = "run"
    BY <1>9 DEF Poll, Stop, Receive, channelVars
  <2>2. Gated(d)
    BY <2>1 DEF Gated, OneBarrier, Expected, Quitted, AtGate, Ended
  <2>3. QED
    BY <1>k, <2>2
<1>10. CASE Die(d)
  <2>1. up' = up /\ pc'[d] = "killed"
    BY <1>10 DEF Die, channelVars, TypeOK, ClientTypeOK
  <2>2. Gated(d)
    BY <2>1 DEF Gated, OneBarrier, Expected, Quitted, AtGate, Ended, Before
  <2>3. QED
    BY <1>k, <2>2
<1>11. ~ AskBind(d) /\ ~ PassBind(d)
  BY <1>w DEF AskBind, PassBind, Goto
<1>12. QED
  BY <1>1, <1>3, <1>4, <1>5, <1>6, <1>7, <1>8, <1>9, <1>10, <1>11
  DEF Progress, Choice, ClientProgress, ClientChoice

(* The controller takes the barrier of a domain, or something else.        *)
LEMMA BarrierGate ==
    ASSUME TypeOK, GateInv, ServeBarrier, UNCHANGED clientVars
    PROVE  GateInv' /\ (counter' = 0 => Opened' /\ Expected' = {})
<1>c. PICK c \in Domains : c = cursor
  BY DEF TypeOK, ControllerTypeOK
<1>1. /\ up[c] # <<>> /\ Head(up[c]).type = "BARRIER"
      /\ up'[c] = Tail(up[c]) /\ pc' = pc /\ stop' = stop
      /\ \A e \in Domains \ {c} : up'[e] = up[e]
      /\ counter' = (IF counter = 0 THEN N ELSE counter) - 1
      /\ counter' = 0 => armed' = armed \ {"before"}
      /\ counter' # 0 => armed' = armed
  BY <1>c DEF ServeBarrier, Serving, Received, Arrivals, Disarmed, TypeOK, ChannelTypeOK,
              clientVars
<1>2. \A e \in Domains : OneBarrier(e) /\ Gated(e)
  BY <1>1, GateTaken DEF GateInv
<1>3. 1 \in DOMAIN up[c] /\ up[c][1].type = "BARRIER"
  BY <1>1, StreamUse, TakeFacts
<1>4. c \in Expected /\ ~ Opened /\ pc[c] \notin Before /\ c \notin Quitted
  BY <1>2, <1>3 DEF AtGate, Expected, GateInv, OneBarrier
<1>5. c \notin Expected' \cup Quitted'
  <2>1. \A k \in DOMAIN up'[c] :
          k \in Nat \ {0} /\ k + 1 \in DOMAIN up[c] /\ up'[c][k] = up[c][k + 1]
    BY <1>1, StreamUse, TakeFacts
  <2>2. ~ AtGate(c)'
    <3> SUFFICES ASSUME NEW k \in DOMAIN up'[c], up'[c][k].type = "BARRIER" PROVE FALSE
      BY DEF AtGate
    <3>1. k + 1 = 1 /\ k \in Nat \ {0}
      BY <1>2, <1>3, <2>1 DEF OneBarrier
    <3>2. QED
      BY <3>1
  <2>3. QED
    BY <1>1, <1>4, <2>2 DEF Expected, Quitted, Ended
<1> DEFINE S == Expected \cup Quitted
           n == Cardinality(S)
           m == Cardinality(Expected' \cup Quitted')
<1>6. S \in SUBSET Domains /\ Expected' \cup Quitted' \subseteq S \ {c} /\ c \in S
  BY <1>2, <1>4, <1>5, UseAssumption DEF Gated, Expected, Quitted
<1>7. /\ n \in Nat /\ m \in Nat /\ m <= n - 1
      /\ m = 0 => Expected' \cup Quitted' = {}
  <2>1. IsFiniteSet(S)
    BY <1>6, DomainsFinite
  <2>2. IsFiniteSet(S \ {c}) /\ Cardinality(S \ {c}) = n - 1 /\ n \in Nat
    BY <1>6, <2>1, FS_RemoveElement, FS_CardinalityType
  <2>3. IsFiniteSet(Expected' \cup Quitted') /\ m <= n - 1
    BY <1>6, <2>2, FS_Subset
  <2>4. m \in Nat /\ (m = 0 => Expected' \cup Quitted' = {})
    BY <2>3, FS_CardinalityType, FS_EmptySet
  <2>5. QED
    BY <2>2, <2>3, <2>4
<1>8. (IF counter = 0 THEN 0 ELSE N - counter) + n <= N
  BY <1>4 DEF GateInv
<1>9. N \in Nat \ {0} /\ counter \in 0 .. N
  BY NAssumption DEF TypeOK, ControllerTypeOK
<1>10. \A e \in Domains : OneBarrier(e)'
  BY <1>2 DEF Gated
<1>11. CASE counter' = 0
  <2>1. m = 0
    <3> HIDE DEF n, m
    <3>1. CASE counter = 0
      BY <1>1, <1>7, <1>8, <1>9, <1>11, <3>1
    <3>2. CASE counter # 0
      BY <1>1, <1>7, <1>8, <1>9, <1>11, <3>2
    <3>3. QED
      BY <3>1, <3>2
  <2>2. Expected' \cup Quitted' = {} /\ Opened'
    BY <1>1, <1>7, <1>11, <2>1 DEF Opened
  <2>3. QED
    BY <1>10, <2>2 DEF GateInv
<1>12. CASE counter' # 0
  <2>1. (IF counter' = 0 THEN 0 ELSE N - counter') + m <= N
    <3> HIDE DEF n, m
    <3>1. CASE counter = 0
      BY <1>1, <1>7, <1>8, <1>9, <1>12, <3>1
    <3>2. CASE counter # 0
      BY <1>1, <1>7, <1>8, <1>9, <1>12, <3>2
    <3>3. QED
      BY <3>1, <3>2
  <2>2. ~ Opened'
    BY <1>1, <1>4, <1>12 DEF Opened
  <2>3. QED
    BY <1>10, <1>12, <2>1, <2>2 DEF GateInv
<1>13. QED
  BY <1>11, <1>12

LEMMA ControllerGate ==
    ASSUME TypeOK, GateInv, Controller, ~ ServeBarrier
    PROVE  GateInv' /\ (Opened' <=> Opened)
<1>c. PICK c \in Domains : c = cursor
  BY DEF TypeOK, ControllerTypeOK
<1>p. UNCHANGED <<pc, stop>>
  BY DEF Controller, clientVars
<1>1. counter' = counter /\ (armed' = armed \/ armed' = armed \ {"success", "error"})
  BY DEF Controller, ControllerServe, Accept, NotifyEnd, Skip, ServeEnd, ServeRegistry,
         ServeQuery, ServeFile, ServeSbrk, ServeExit, Hangup, ActionEnd, Disarmed,
         controllerVars
<1>2. \/ up' = up
      \/ \E d \in Domains : up[d] # <<>> /\ up' = Received(up, d)
  BY <1>c DEF Controller, ControllerServe, Accept, NotifyEnd, Skip, ServeEnd, Serving,
              ServeRegistry, ServeQuery, ServeFile, ServeSbrk, ServeExit, Hangup,
              channelVars
<1>3. \A e \in Domains : up'[e] = up[e] \/ (up[e] # <<>> /\ up'[e] = Tail(up[e]))
  BY <1>2 DEF Received, TypeOK, ChannelTypeOK
<1>4. \A e \in Domains : Gated(e)
  BY <1>3, <1>p, GateTaken DEF GateInv
<1>5. Opened' <=> Opened
  BY <1>1 DEF Opened
<1>6. QED
  BY <1>1, <1>4, <1>5, GateStep

(* Before the verdict. One domain moves: it keeps its session or starts.   *)
LEMMA EarlyStep ==
    ASSUME EarlyInv, Early' => Early,
           Early => UNCHANGED <<ending, linked>> /\ phase' # "returned",
           Opened => Opened',
           \A d \in Domains : pc[d] \in Started \/ Session(d) =>
                pc'[d] \in Started \/ Session(d)',
           \A d \in Domains : Passed(d)' => Opened' \/ \E e \in Domains : Passed(e)
    PROVE  EarlyInv'
  BY DEF EarlyInv

Ends(m) ==
    \/ m.type = "END" /\ m.status = 0
    \/ m.type = "SYSCALL" /\ m.call = "EXIT"

Ending0(d) == \E k \in DOMAIN up[d] : Ends(up[d][k])

LEMMA PassedSent ==
    ASSUME TypeOK, NEW d \in Domains, NEW m \in Message, up'[d] = Append(up[d], m),
           ~ Ends(m), Ending0(d)'
    PROVE  Ending0(d)
<1>1. \A k \in DOMAIN up'[d] : up'[d][k] = m \/ (k \in DOMAIN up[d] /\ up'[d][k] = up[d][k])
  BY StreamUse, AddFacts
<1>2. QED
  BY <1>1 DEF Ending0, Ends

LEMMA PassedTaken ==
    ASSUME TypeOK, NEW d \in Domains, Ending0(d)',
           up'[d] = up[d] \/ (up[d] # <<>> /\ up'[d] = Tail(up[d]))
    PROVE  Ending0(d)
<1>1. CASE up'[d] = up[d]
  BY <1>1 DEF Ending0, Ends
<1>2. CASE up[d] # <<>> /\ up'[d] = Tail(up[d])
  <2>1. \A k \in DOMAIN up'[d] : k + 1 \in DOMAIN up[d] /\ up'[d][k] = up[d][k + 1]
    BY <1>2, StreamUse, TakeFacts
  <2>2. QED
    BY <2>1 DEF Ending0, Ends
<1>3. QED
  BY <1>1, <1>2

LEMMA PassedIs ==
    \A d \in Domains :
        Passed(d) <=> \/ Running(d)
                      \/ pc[d] = "waitStart" /\ down[d] # <<>>
                      \/ Ending0(d)
  BY DEF Passed, Ending0, Ends

LEMMA ClientEarly ==
    ASSUME TypeOK, EarlyInv, NoEarlyExit, Backend # "MPI",
           NEW d \in Domains, Progress(d) \/ Choice(d)
    PROVE  EarlyInv'
<1>c. UNCHANGED <<ending, phase, armed, linked>>
  <2>1. UNCHANGED <<ending, phase, armed>>
    BY DEF Progress, Choice, controllerVars
  <2>2. linked' = linked
    BY DEF Progress, Choice, ClientProgress, ClientChoice, Connect, GetModules, Start,
           Register, Registered, AskBind, PassBind, Ask, Bind, AskStart, PassStart,
           Answer, Poll, Finish, SetupCall, RunCall, Stop, Fail, Quit, Die, Close,
           Send, Receive, Request, channelVars
  <2>3. QED
    BY <2>1, <2>2
<1> SUFFICES ASSUME Early PROVE EarlyInv'
  BY <1>c DEF EarlyInv, Early
<1>e. /\ phase # "returned" /\ linked
      /\ pc[d] \in Started \/ Session(d)
  BY DEF EarlyInv
<1>o. Opened' <=> Opened
  BY <1>c DEF Opened
<1>k. ASSUME Only(d), pc'[d] \in Started \/ Session(d)',
             Passed(d)' => Opened \/ Passed(d)
      PROVE  EarlyInv'
  <2>1. ASSUME NEW e \in Domains \ {d}
        PROVE  (Session(e)' <=> Session(e)) /\ (Passed(e)' <=> Passed(e))
    <3>1. pc'[e] = pc[e] /\ up'[e] = up[e] /\ down'[e] = down[e]
      BY <1>k DEF Only
    <3>2. /\ Quiet(e)' <=> Quiet(e)
          /\ Requested(e)' <=> Requested(e)
          /\ Replied(e)' <=> Replied(e)
          /\ Launched(e)' <=> Launched(e)
          /\ e \in Arrived' <=> e \in Arrived
      BY <3>1 DEF Quiet, Requested, Replied, Launched, Arrived
    <3>3. QED
      BY <3>1, <3>2 DEF Session, Passed, Running
  <2>2. \A e \in Domains : pc[e] \in Started \/ Session(e) =>
              pc'[e] \in Started \/ Session(e)'
    BY <1>k, <2>1 DEF Only
  <2>3. \A e \in Domains : Passed(e)' => Opened' \/ \E f \in Domains : Passed(f)
    BY <1>k, <1>o, <2>1
  <2>4. QED
    BY <1>c, <1>e, <1>o, <2>2, <2>3, EarlyStep DEF Early
<1>r. ASSUME Only(d), pc'[d] \in Started, Running(d)
      PROVE  EarlyInv'
  BY <1>k, <1>r DEF Passed
<1>1. ASSUME NEW m \in Message, NEW to \in Asking,
             NEW from \in {"connect", "setup", "binding", "querying"},
             Goto(d, from, to), Send(d, m), m.type = Topic(to), ~ Ends(m)
      PROVE  EarlyInv'
  <2>1. pc[d] = from /\ pc'[d] = to /\ up'[d] = Append(up[d], m)
    BY <1>1, GotoEffect, SendEffect
  <2>2. Session(d)
    BY <1>e, <2>1 DEF Started
  <2>3. Only(d) /\ Session(d)' /\ down'[d] = <<>>
    BY <1>1, <2>2, ClientAsks
  <2>4. Ending0(d)' => Ending0(d)
    BY <1>1, <2>1, PassedSent
  <2>5. Passed(d)' => Passed(d)
    BY <2>1, <2>3, <2>4 DEF Passed, Ending0, Ends, Running, Asking, AtBarrier
  <2>6. QED
    BY <1>k, <2>3, <2>5
<1>2. ASSUME NEW from \in Asking \ {"waitStart"}, NEW to \in {"setup", "querying"},
             Goto(d, from, to), Receive(d)
      PROVE  EarlyInv'
  <2>1. pc[d] = from /\ pc'[d] = to /\ up' = up
    BY <1>2, GotoEffect, ReceiveEffect
  <2>2. Session(d)
    BY <1>e, <2>1 DEF Started, Asking, AtBarrier
  <2>3. Only(d) /\ Session(d)'
    BY <1>2, <2>2, ClientTakes
  <2>4. Passed(d)' => Passed(d)
    BY <2>1 DEF Passed, Running
  <2>5. QED
    BY <1>k, <2>3, <2>4
<1>3. CASE Connect(d)
  <2>1. DomainRegistry \in Message /\ DomainRegistry.type = "DOMAIN_REGISTRY"
    BY MessageTypes DEF DomainRegistry
  <2>2. Topic("waitModules") = "DOMAIN_REGISTRY" /\ "waitModules" \in Asking
    BY DEF Topic, Asking
  <2>3. QED
    BY <1>1, <1>3, <2>1, <2>2 DEF Connect, Ends
<1>4. CASE SetupCall(d)
  <2>1. PICK m \in Message : Send(d, m) /\ m.type = "SYSCALL" /\ m.call \in SetupCalls[d]
    BY <1>4, CallMade
  <2>2. Topic("waitSetupCall") = "SYSCALL" /\ "waitSetupCall" \in Asking
    BY DEF Topic, Asking
  <2>3. ~ Ends(m)
    BY <2>1 DEF Ends, NoEarlyExit
  <2>4. QED
    BY <1>1, <1>4, <2>1, <2>2, <2>3 DEF SetupCall
<1>5. CASE Ask(d)
  <2>1. PICK m \in Message : Send(d, m) /\ m.type = "TARGET_SOCKET_QUERY"
    BY <1>5, QuerySent
  <2>2. Topic("waitAddress") = "TARGET_SOCKET_QUERY" /\ "waitAddress" \in Asking
    BY DEF Topic, Asking
  <2>3. QED
    BY <1>1, <1>5, <2>1, <2>2 DEF Ask, Ends
<1>6. CASE AskStart(d)
  <2>1. Barrier \in Message /\ Barrier.type = "BARRIER"
    BY MessageTypes DEF Barrier
  <2>2. Topic("waitStart") = "BARRIER" /\ "waitStart" \in Asking
    BY DEF Topic, Asking, AtBarrier
  <2>3. QED
    BY <1>1, <1>6, <2>1, <2>2 DEF AskStart, Ends
<1>7. CASE GetModules(d) \/ Bind(d) \/ (Answer(d) /\ pc[d] = "waitSetupCall")
  <2>1. PICK from \in {"waitModules", "waitAddress", "waitSetupCall"},
             to \in {"setup", "querying"} : Goto(d, from, to)
    BY <1>7 DEF GetModules, Bind, Answer, Goto
  <2>2. Receive(d)
    BY <1>7 DEF GetModules, Bind, Answer
  <2>3. QED
    BY <1>2, <2>1, <2>2 DEF Asking, AtBarrier
<1>8. CASE Start(d) \/ Registered(d)
  <2>1. /\ pc[d] \in {"setup", "binding"} /\ pc'[d] \in {"binding", "querying"}
        /\ Only(d) /\ up'[d] = up[d] /\ down'[d] = down[d]
    BY <1>8, GotoEffect DEF Start, Registered, channelVars, Only
  <2>2. Session(d)
    BY <1>e, <2>1 DEF Started
  <2>3. Quiet(d)' /\ Session(d)'
    BY <2>1, <2>2 DEF Session, Quiet, Asking, AtBarrier, Started
  <2>4. Passed(d)' => Passed(d)
    BY <2>1 DEF Passed, Running
  <2>5. QED
    BY <1>k, <2>1, <2>3, <2>4
<1>9. CASE Register(d)
  <2>1. PICK m \in Message : Send(d, m) /\ m.type = "TARGET_SOCKET_REGISTRY"
    BY <1>9, RegistrySent
  <2>2. /\ pc[d] = "binding" /\ pc'[d] = "binding" /\ Only(d)
        /\ up'[d] = Append(up[d], m) /\ down'[d] = down[d]
    BY <1>9, <2>1, SendEffect DEF Register, Only
  <2>3. Session(d) /\ Quiet(d)
    BY <1>e, <2>2 DEF Session, Asking, AtBarrier, Started
  <2>4. ASSUME NEW k \in DOMAIN up'[d]
        PROVE  up'[d][k] = m \/ (k \in DOMAIN up[d] /\ up'[d][k] = up[d][k])
    BY <2>2, StreamUse, AddFacts
  <2>5. Quiet(d)' /\ Session(d)'
    BY <2>1, <2>2, <2>3, <2>4 DEF Session, Quiet
  <2>6. Passed(d)' => Passed(d)
    BY <2>1, <2>2, <2>4 DEF Passed, Running
  <2>7. QED
    BY <1>k, <2>2, <2>5, <2>6
<1>10. CASE PassStart(d)
  <2>1. /\ pc[d] = "waitStart" /\ pc'[d] = "run" /\ Only(d) /\ down[d] # <<>>
    BY <1>10, GotoEffect, ReceiveEffect DEF PassStart, Only
  <2>2. Passed(d)
    BY <2>1 DEF Passed
  <2>3. QED
    BY <1>k, <2>1, <2>2 DEF Started
<1>11. CASE \/ RunCall(d) \/ (Answer(d) /\ pc[d] = "waitRunCall") \/ Poll(d) \/ Stop(d)
            \/ Finish(d) \/ Fail(d)
  <2>1. /\ Running(d) /\ pc'[d] \in Started
        /\ \A e \in Domains \ {d} : pc'[e] = pc[e]
    BY <1>11, GotoEffect
    DEF RunCall, Answer, Poll, Stop, Finish, Fail, Started, Running
  <2>2. UNCHANGED channelVars \/ Receive(d) \/ \E m : Send(d, m)
    BY <1>11 DEF RunCall, Request, Answer, Poll, Stop, Finish, Fail
  <2>3. Only(d)
    BY <2>1, <2>2 DEF channelVars, Receive, Received, Send, Sent, TypeOK, ChannelTypeOK, Only
  <2>4. QED
    BY <1>r, <2>1, <2>3
<1>12. CASE Close(d)
  <2>1. pc'[d] = "closed" /\ pc[d] = "ended" /\ up' = up /\ Only(d)
    BY <1>12, GotoEffect DEF Close, channelVars, Only
  <2>2. Passed(d)' => Passed(d)
    BY <2>1 DEF Passed, Running
  <2>3. QED
    BY <1>k, <2>1, <2>2 DEF Started
<1>13. CASE Quit(d)
  <2>1. End(2) \in Message /\ ~ Ends(End(2))
    BY MessageTypes DEF End, Ends, Status
  <2>2. /\ pc'[d] = "ended" /\ pc[d] = "setup" /\ Only(d)
        /\ up'[d] = Append(up[d], End(2))
    BY <1>13, <2>1, GotoEffect, SendEffect DEF Quit, QuitStatus, Only
  <2>3. Ending0(d)' => Ending0(d)
    BY <2>1, <2>2, PassedSent
  <2>4. Passed(d)' => Passed(d)
    BY <2>2, <2>3 DEF Passed, Ending0, Ends, Running
  <2>5. QED
    BY <1>k, <2>2, <2>4 DEF Started
<1>14. ~ Die(d) /\ ~ AskBind(d)
  BY <1>e DEF Die, AskBind, BarrierInBind
<1>15. CASE PassBind(d)
  <2>1. Goto(d, "waitBind", "querying") /\ Receive(d)
    BY <1>15 DEF PassBind
  <2>2. QED
    BY <1>2, <2>1 DEF Asking, AtBarrier
<1>16. Answer(d) => pc[d] \in {"waitSetupCall", "waitRunCall"}
  BY DEF Answer, Goto
<1>17. QED
  BY <1>3, <1>4, <1>5, <1>6, <1>7, <1>8, <1>9, <1>10, <1>11, <1>12, <1>13, <1>14, <1>15,
     <1>16
  DEF Progress, Choice, ClientProgress, ClientChoice

(* The controller takes a message of c, and answers it or not.             *)
LEMMA EarlyLocal ==
    ASSUME TypeOK, EarlyInv, Early, UNCHANGED <<pc, ending, linked>>,
           phase' # "returned", Opened => Opened', NEW c \in Domains, Only(c),
           pc[c] \in Started \/ Session(c)',
           up'[c] = up[c] \/ (up[c] # <<>> /\ up'[c] = Tail(up[c])),
           pc[c] = "waitStart" => down'[c] = down[c]
    PROVE  EarlyInv'
<1>1. ASSUME NEW e \in Domains \ {c}
      PROVE  Session(e)' <=> Session(e)
  <2>1. pc'[e] = pc[e] /\ up'[e] = up[e] /\ down'[e] = down[e]
    BY DEF Only
  <2>2. /\ Quiet(e)' <=> Quiet(e)
        /\ Requested(e)' <=> Requested(e)
        /\ Replied(e)' <=> Replied(e)
        /\ Launched(e)' <=> Launched(e)
        /\ e \in Arrived' <=> e \in Arrived
    BY <2>1 DEF Quiet, Requested, Replied, Launched, Arrived
  <2>3. QED
    BY <2>1, <2>2 DEF Session
<1>2. \A e \in Domains : pc[e] \in Started \/ Session(e) => pc'[e] \in Started \/ Session(e)'
  BY <1>1
<1>3. ASSUME NEW e \in Domains, Passed(e)'
      PROVE  Passed(e)
  <2>1. up'[e] = up[e] \/ (up[e] # <<>> /\ up'[e] = Tail(up[e]))
    BY DEF Only
  <2>2. Ending0(e)' => Ending0(e)
    BY <2>1, PassedTaken
  <2>3. pc[e] = "waitStart" => down'[e] = down[e]
    BY DEF Only
  <2>4. QED
    BY <1>3, <2>2, <2>3 DEF Passed, Ending0, Ends, Running
<1>4. QED
  BY <1>2, <1>3, EarlyStep DEF EarlyInv

(* The barrier counts one more, or opens to all: those who have not        *)
(* started are at it, and the others have quit.                            *)
LEMMA BarrierEarly ==
    ASSUME TypeOK, GateInv, EarlyInv, Early, ServeBarrier, UNCHANGED clientVars
    PROVE  EarlyInv'
<1>c. PICK c \in Domains : c = cursor
  BY DEF TypeOK, ControllerTypeOK
<1>1. /\ up[c] # <<>> /\ Head(up[c]).type = "BARRIER"
      /\ up'[c] = Tail(up[c]) /\ up' = Received(up, c)
      /\ \A e \in Domains \ {c} : up'[e] = up[e]
      /\ UNCHANGED <<pc, stop, ending, linked, phase>>
      /\ counter' = 0 => down' = Released(c)
      /\ counter' # 0 => down' = down /\ armed' = armed
  BY <1>c DEF ServeBarrier, Serving, Turn, Received, TypeOK, ChannelTypeOK, clientVars
<1>e. phase # "returned" /\ \A e \in Domains : pc[e] \in Started \/ Session(e)
  BY DEF EarlyInv
<1>2. CASE counter' # 0
  <2>1. Opened => Opened'
    BY <1>1, <1>2 DEF Opened
  <2>2. Only(c)
    BY <1>1, <1>2 DEF Only
  <2>3. CASE pc[c] \in Started
    BY <1>1, <1>2, <1>e, <2>1, <2>2, <2>3, EarlyLocal
  <2>4. CASE pc[c] \notin Started
    <3>1. Session(c)
      BY <1>e, <2>4
    <3>2. pc[c] \in AtBarrier /\ Requested(c) /\ Len(up[c]) = 1
      BY <1>1, <3>1, HeadSays, TopicTypes
    <3>3. up'[c] = <<>>
      BY <1>1, <3>2, StreamUse, TakeFacts
    <3>4. c \in Arrived'
      BY <1>1, <1>2, <3>2, <3>3 DEF Arrived, Requested
    <3>5. Session(c)'
      BY <1>1, <3>2, <3>4 DEF Session, Asking
    <3>6. QED
      BY <1>1, <1>2, <1>e, <2>1, <2>2, <3>5, EarlyLocal
  <2>5. QED
    BY <2>3, <2>4
<1>3. CASE counter' = 0
  <2>1. GateInv' /\ Opened' /\ Expected' = {}
    BY <1>3, BarrierGate
  <2>2. Barrier \in Message /\ Barrier.type = "BARRIER"
    BY MessageTypes DEF Barrier
  <2>3. 1 \in DOMAIN up[c] /\ up[c][1].type = "BARRIER"
    BY <1>1, StreamUse, TakeFacts
  <2>4. ~ Opened
    BY <2>3 DEF GateInv, Expected, AtGate
  <2>5. ASSUME NEW e \in Domains, pc[e] \notin Started
        PROVE  Session(e)'
    <3>1. Session(e) /\ pc[e] \notin Before /\ pc[e] # "waitBind"
      BY <1>1, <1>e, <2>1, <2>5 DEF Expected, GateInv, OneBarrier
    <3>2. pc[e] = "waitStart" /\ (Requested(e) \/ e \in Arrived \/ Replied(e))
      BY <2>5, <3>1 DEF Session, Before, Asking, AtBarrier
    <3>3. Topic(pc[e]) = "BARRIER"
      BY <3>2 DEF Topic
    <3>4. down[e] = <<>>
      <4>1. ~ Passed(e)
        BY <2>4 DEF EarlyInv
      <4>2. QED
        BY <3>2, <4>1 DEF Passed
    <3>5. up'[e] = <<>>
      <4>1. CASE e = c
        <5>1. Len(up[c]) = 1
          BY <1>1, <3>1, <3>2, <3>3, <4>1, HeadSays DEF Asking, AtBarrier
        <5>2. QED
          BY <1>1, <4>1, <5>1, StreamUse, TakeFacts
      <4>2. CASE e # c
        <5>1. up'[e] = up[e]
          BY <1>1, <4>2
        <5>2. ~ AtGate(e)'
          BY <2>1 DEF Expected
        <5>3. \A k \in DOMAIN up[e] : up[e][k].type # "BARRIER"
          BY <5>1, <5>2 DEF AtGate
        <5>4. ~ Requested(e)
          <6> SUFFICES ASSUME Requested(e) PROVE FALSE
            OBVIOUS
          <6>1. Len(up[e]) \in DOMAIN up[e]
            BY StreamUse, TakeFacts DEF Requested
          <6>2. QED
            BY <3>3, <5>3, <6>1 DEF Requested
        <5>5. QED
          BY <3>2, <3>4, <5>1, <5>4 DEF Arrived, Replied
      <4>3. QED
        BY <4>1, <4>2
    <3>6. down'[e] = Append(<<>>, Barrier)
      BY <1>1, <1>3, <3>4 DEF Released
    <3>7. down'[e] = <<Barrier>>
      BY <3>6
    <3>8. /\ down'[e] # <<>> /\ Len(down'[e]) = 1
          /\ DOMAIN down'[e] = 1 .. 1 /\ down'[e][1] = Barrier
      BY <3>7
    <3>9. Replied(e)'
      BY <1>1, <2>2, <3>3, <3>5, <3>8 DEF Replied
    <3>10. QED
      BY <1>1, <3>2, <3>9 DEF Session, Asking, AtBarrier
  <2>6. \A e \in Domains : pc[e] \in Started \/ Session(e) => pc'[e] \in Started \/ Session(e)'
    BY <1>1, <2>5
  <2>7. QED
    BY <1>1, <1>e, <2>1, <2>6, EarlyStep
<1>4. QED
  BY <1>2, <1>3

LEMMA ControllerEarly ==
    ASSUME TypeOK, GateInv, EarlyInv, Controller
    PROVE  EarlyInv'
<1>a. Early' => Early
  BY DEF Controller, ControllerServe, Accept, NotifyEnd, Skip, ServeEnd, ServeRegistry,
         ServeQuery, ServeBarrier, ServeFile, ServeSbrk, ServeExit, Hangup, ActionEnd,
         Disarmed, controllerVars, Early
<1> SUFFICES ASSUME Early, Early' PROVE EarlyInv'
  BY <1>a DEF EarlyInv
<1>c. PICK c \in Domains : c = cursor
  BY DEF TypeOK, ControllerTypeOK
<1>p. UNCHANGED <<pc, clientVars>>
  BY DEF Controller, clientVars
<1>e. /\ ending = 0 /\ phase # "returned" /\ linked
      /\ \A e \in Domains : pc[e] \in Started \/ Session(e)
  BY DEF EarlyInv
<1>k. ASSUME NEW d \in Domains, Only(d), pc[d] \in Started \/ Session(d)',
             up[d] # <<>>, up' = Received(up, d),
             pc[d] = "waitStart" => down'[d] = down[d],
             UNCHANGED <<ending, linked, armed>>, phase' # "returned"
      PROVE  EarlyInv'
  <2>1. up'[d] = Tail(up[d]) /\ (Opened => Opened')
    BY <1>k DEF TypeOK, ChannelTypeOK, Received, Opened
  <2>2. QED
    BY <1>p, <1>k, <2>1, EarlyLocal
<1>r. ASSUME NEW d \in Domains, NEW m \in Message, up[d] # <<>>,
             up' = Received(up, d), down' = Sent(down, d, m),
             m.type = Head(up[d]).type,
             m.type \in {"DOMAIN_REGISTRY", "TARGET_SOCKET_QUERY", "SYSCALL"},
             UNCHANGED <<ending, linked, armed>>, phase' # "returned"
      PROVE  EarlyInv'
  <2>1. Only(d)
    BY <1>p, <1>r DEF TypeOK, ChannelTypeOK, Received, Sent, Only
  <2>2. CASE pc[d] \in Started
    BY <1>k, <1>r, <2>1, <2>2 DEF Started
  <2>3. CASE pc[d] \notin Started
    <3>1. Session(d)
      BY <1>e, <2>3
    <3>2. pc[d] \in Asking
      BY <1>r, <2>3, <3>1, HeadSays DEF Asking
    <3>3. m.type = Topic(pc[d])
      BY <1>r, <2>3, <3>1, HeadSays DEF Topic
    <3>4. pc[d] \notin AtBarrier
      BY <1>r, <3>3 DEF Topic, AtBarrier
    <3>5. Session(d)'
      BY <1>p, <1>r, <3>1, <3>2, <3>3, <3>4, Reply
    <3>6. QED
      BY <1>k, <1>r, <2>1, <3>4, <3>5 DEF AtBarrier
  <2>4. QED
    BY <2>2, <2>3
<1>1. ASSUME NEW d \in Domains, Accept(d)
      PROVE  EarlyInv'
  <2>1. DomainRegistry \in Message /\ DomainRegistry.type = "DOMAIN_REGISTRY"
    BY MessageTypes DEF DomainRegistry
  <2>2. phase' # "returned"
    BY <1>1 DEF Accept
  <2>3. QED
    BY <1>1, <1>r, <2>1, <2>2 DEF Accept
<1>2. CASE Skip
  <2>1. up' = up /\ down' = down /\ UNCHANGED <<ending, linked, armed, phase>>
    BY <1>2 DEF Skip, channelVars
  <2>2. Only(c) /\ (Opened => Opened')
    BY <1>p, <2>1 DEF Only, Opened
  <2>3. Session(c) => Session(c)'
    BY <1>p, <2>1 DEF Session, Quiet, Requested, Arrived, Replied, Launched
  <2>4. QED
    BY <1>p, <1>e, <2>1, <2>2, <2>3, EarlyLocal
<1>3. ~ NotifyEnd /\ ~ Hangup
  BY <1>e DEF NotifyEnd, Hangup
<1>4. ~ ServeEnd /\ ~ ServeExit
  <2>1. ASSUME NEW status, ActionEnd(c, status)
        PROVE  FALSE
    BY <1>e, <2>1 DEF ActionEnd, FirstEnd, Disarmed, Early
  <2>2. QED
    BY <1>c, <2>1 DEF ServeEnd, ServeExit
<1>5. CASE ServeRegistry
  <2>1. /\ up[c] # <<>> /\ Head(up[c]).type = "TARGET_SOCKET_REGISTRY"
        /\ up' = Received(up, c) /\ down' = down
        /\ UNCHANGED <<ending, linked, armed, phase>>
    BY <1>5, <1>c DEF ServeRegistry, Serving
  <2>2. Only(c)
    BY <1>p, <2>1 DEF TypeOK, ChannelTypeOK, Received, Only
  <2>3. Session(c) => Session(c)'
    BY <1>p, <2>1, TakeRegistry
  <2>4. QED
    BY <1>k, <1>e, <2>1, <2>2, <2>3
<1>6. CASE ServeQuery
  <2> DEFINE m == Query(Head(up[c]).socketname, targets[Head(up[c]).socketname])
  <2>1. /\ up[c] # <<>> /\ Head(up[c]).type = "TARGET_SOCKET_QUERY"
        /\ up' = Received(up, c) /\ down' = Sent(down, c, m)
        /\ UNCHANGED <<ending, linked, armed, phase>>
    BY <1>6, <1>c DEF ServeQuery, Serving
  <2>2. m \in Message /\ m.type = "TARGET_SOCKET_QUERY"
    <3>1. Head(up[c]).socketname \in Socket
      BY <2>1, StreamUse, ReceivedType, MessageFields
    <3>2. targets[Head(up[c]).socketname] \in Address
      BY <3>1 DEF TypeOK, ControllerTypeOK
    <3>3. QED
      BY <3>1, <3>2, MessageTypes DEF Query
  <2> HIDE DEF m
  <2>3. QED
    BY <1>r, <1>e, <2>1, <2>2
<1>7. CASE ServeBarrier
  BY <1>7, <1>p, BarrierEarly
<1>8. CASE ServeFile \/ ServeSbrk
  <2>1. /\ up[c] # <<>> /\ Head(up[c]).type = "SYSCALL" /\ up' = Received(up, c)
        /\ UNCHANGED <<ending, linked, armed, phase>>
    BY <1>8, <1>c DEF ServeFile, ServeSbrk, Serving
  <2>2. PICK m \in Message : m.type = "SYSCALL" /\ down' = Sent(down, c, m)
    <3>1. Head(up[c]) \in Message
      BY <2>1, StreamUse, TakeFacts
    <3>2. [Head(up[c]) EXCEPT !.value = heap_sbrk] \in Message
      BY <2>1, <3>1, MessageFields DEF TypeOK, ControllerTypeOK
    <3>3. [Head(up[c]) EXCEPT !.value = heap_sbrk].type = "SYSCALL"
      BY <2>1, <3>1 DEF Message
    <3>4. QED
      BY <1>8, <1>c, <2>1, <3>1, <3>2, <3>3 DEF ServeFile, ServeSbrk
  <2>3. QED
    BY <1>r, <1>e, <2>1, <2>2
<1>9. QED
  BY <1>1, <1>2, <1>3, <1>4, <1>5, <1>6, <1>7, <1>8 DEF Controller, ControllerServe

(* The verdict is that of the first END: if it is a success a domain has   *)
(* passed the barrier.                                                     *)
LEMMA SuccessOpened ==
    ASSUME TypeOK, EarlyInv, Controller,
           (\E k \in DOMAIN fired : fired[k] = "success") => Opened,
           NEW j \in DOMAIN fired', fired'[j] = "success"
    PROVE  Opened'
<1>o. Opened => Opened'
  BY DEF Controller, ControllerServe, Accept, NotifyEnd, Skip, ServeEnd, ServeRegistry,
         ServeQuery, ServeBarrier, ServeFile, ServeSbrk, ServeExit, Hangup, ActionEnd,
         Disarmed, controllerVars, Opened
<1>f. fired \in Seq(Callbacks)
  BY DEF TypeOK, ControllerTypeOK
<1>c. PICK c \in Domains : c = cursor
  BY DEF TypeOK, ControllerTypeOK
<1>1. ASSUME NEW cb \in Callbacks, fired' = Call(cb), ~ (cb = "success" /\ Early)
      PROVE  Opened'
  <2>1. CASE cb \in armed
    <3>1. /\ Len(fired) \in Nat /\ DOMAIN fired' = 1 .. (Len(fired) + 1)
          /\ DOMAIN fired = 1 .. Len(fired)
          /\ \A k \in DOMAIN fired : fired'[k] = fired[k]
          /\ fired'[Len(fired) + 1] = cb
      BY <1>1, <1>f, <2>1, CallFacts
    <3>2. cb # "success"
      BY <1>1, <2>1 DEF Early
    <3>3. j \in DOMAIN fired /\ fired[j] = "success"
      BY <3>1, <3>2
    <3>4. QED
      BY <1>o, <3>3
  <2>2. CASE cb \notin armed
    BY <1>1, <1>f, <1>o, <2>2, CallFacts
  <2>3. QED
    BY <2>1, <2>2
<1>2. CASE ServeEnd \/ ServeExit
  <2>1. PICK status : ActionEnd(c, status) /\ up[c] # <<>> /\
          \/ Head(up[c]).type = "END" /\ Head(up[c]).status = status
          \/ Head(up[c]).type = "SYSCALL" /\ Head(up[c]).call = "EXIT"
    BY <1>2, <1>c DEF ServeEnd, ServeExit, Serving
  <2>2. CASE ending # 0
    BY <1>o, <2>1, <2>2 DEF ActionEnd, FirstEnd
  <2>3. CASE ending = 0
    <3>1. fired' = Call(IF status = 0 THEN "success" ELSE "error")
      BY <2>1, <2>3 DEF ActionEnd, FirstEnd
    <3>2. CASE status = 0 /\ Early
      <4>1. 1 \in DOMAIN up[c] /\ Head(up[c]) = up[c][1]
        BY <2>1, StreamUse, TakeFacts
      <4>2. CASE Head(up[c]).type = "END"
        BY <1>o, <2>1, <3>2, <4>1, <4>2 DEF EarlyInv, Passed
      <4>3. CASE Head(up[c]).type = "SYSCALL" /\ Head(up[c]).call = "EXIT"
        BY <1>o, <3>2, <4>1, <4>3 DEF EarlyInv, Passed
      <4>4. QED
        BY <2>1, <4>2, <4>3
    <3>3. CASE ~ (status = 0 /\ Early)
      BY <1>1, <3>1, <3>3 DEF Callbacks
    <3>4. QED
      BY <3>2, <3>3
  <2>4. QED
    BY <2>2, <2>3
<1>3. CASE ServeBarrier
  <2>1. fired' = fired \/ fired' = Call("before")
    BY <1>3 DEF ServeBarrier
  <2>2. QED
    BY <1>1, <1>o, <2>1 DEF Callbacks
<1>4. CASE ~ ServeEnd /\ ~ ServeExit /\ ~ ServeBarrier
  <2>1. fired' = fired
    BY <1>4
    DEF Controller, ControllerServe, Accept, NotifyEnd, Skip, ServeRegistry, ServeQuery,
        ServeFile, ServeSbrk, Hangup, controllerVars
  <2>2. QED
    BY <1>o, <2>1
<1>5. QED
  BY <1>2, <1>3, <1>4

(* With MPI a domain that quits leaves without an END.                     *)
LEMMA QuitLeaves ==
    ASSUME TypeOK, Backend = "MPI", Quitted = {}, [Next]_vars
    PROVE  Quitted' = {}
<1> SUFFICES ASSUME NEW e \in Quitters \ Failing, e \in Domains, Ended(e)', ~ stop'[e]
             PROVE  FALSE
  BY UseAssumption DEF Quitted
<1>0. ~ Ended(e) \/ stop[e]
  BY DEF Quitted
<1>1. CASE UNCHANGED <<pc, stop>>
  BY <1>0, <1>1 DEF Ended
<1>2. ASSUME NEW d \in Domains, Progress(d) \/ Choice(d)
      PROVE  FALSE
  <2>1. CASE Finish(d) \/ Fail(d) \/ Quit(d)
    <3>1. /\ stop' = stop
          /\ \A f \in Domains \ {d} : pc'[f] = pc[f]
          /\ ~ stop[d] => pc'[d] = "left" \/ d \in Failing
      BY <2>1, GotoEffect DEF Finish, Fail, Quit
    <3>2. QED
      BY <1>0, <3>1 DEF Ended
  <2>2. CASE Close(d)
    <3>1. stop' = stop /\ (Ended(e)' <=> Ended(e))
      BY <2>2, GotoEffect DEF Close, Ended
    <3>2. QED
      BY <1>0, <3>1
  <2>3. CASE Stop(d) \/ Poll(d)
    <3>1. pc' = pc /\ (stop[e] => stop'[e])
      BY <2>3 DEF Stop, Poll, PollStops, TypeOK, ClientTypeOK
    <3>2. QED
      BY <1>0, <3>1 DEF Ended
  <2>4. CASE \/ Connect(d) \/ GetModules(d) \/ Start(d) \/ Register(d) \/ Registered(d)
             \/ AskBind(d) \/ PassBind(d) \/ Ask(d) \/ Bind(d) \/ AskStart(d)
             \/ PassStart(d) \/ Answer(d) \/ SetupCall(d) \/ RunCall(d) \/ Die(d)
    <3>1. /\ stop' = stop
          /\ pc' = pc \/ (pc'[d] \notin {"ended", "closed"} /\
                          \A f \in Domains \ {d} : pc'[f] = pc[f])
      BY <2>4, GotoEffect
      DEF Connect, GetModules, Start, Register, Registered, AskBind, PassBind, Ask, Bind,
          AskStart, PassStart, Answer, SetupCall, RunCall, Request, Die, TypeOK,
          ClientTypeOK
    <3>2. QED
      BY <1>0, <3>1 DEF Ended
  <2>5. QED
    BY <1>2, <2>1, <2>2, <2>3, <2>4 DEF Progress, Choice, ClientProgress, ClientChoice
<1>3. QED
  BY <1>1, <1>2 DEF Next, Done, Controller, vars, clientVars

LEMMA QuitInitially == Init => QuitInv
<1> SUFFICES ASSUME Init PROVE QuitInv
  OBVIOUS
<1>t. TypeOK
  BY InitType
<1>1. /\ \A d \in Domains : /\ pc[d] = "connect" /\ up[d] = <<>> /\ down[d] = <<>>
                            /\ DOMAIN up[d] = {}
      /\ counter = 0 /\ armed = Callbacks /\ fired = <<>> /\ DOMAIN fired = {}
      /\ ending = 0 /\ phase = "accepting" /\ linked = TRUE
  BY DEF Init, ChannelInit, ControllerInit, ClientInit
<1>2. Quitted = {} /\ Expected \in SUBSET Domains /\ ~ Opened
  BY <1>1, UseAssumption DEF Quitted, Expected, Ended, Opened, Callbacks
<1>3. Cardinality(Expected \cup Quitted) \in 0 .. N /\ N \in Nat
  BY <1>2, DomainsFinite, NAssumption
<1>4. \A d \in Domains : OneBarrier(d)
  BY <1>1 DEF OneBarrier, AtGate
<1>5. (IF counter = 0 THEN 0 ELSE N - counter) + Cardinality(Expected \cup Quitted) <= N
  BY <1>1, <1>3
<1>6. GateInv
  BY <1>2, <1>4, <1>5 DEF GateInv
<1>7. \A d \in Domains : Session(d) /\ ~ Passed(d)
  BY <1>1 DEF Session, Quiet, Passed, Running
<1>8. EarlyInv
  BY <1>1, <1>7 DEF EarlyInv
<1>9. QED
  BY <1>t, <1>1, <1>2, <1>6, <1>8 DEF QuitInv

LEMMA QuitStep ==
    ASSUME NoEarlyExit, QuitInv, [Next]_vars
    PROVE  QuitInv'
<1>t. TypeOK /\ TypeOK'
  BY NextType DEF QuitInv
<1>1. CASE Backend = "MPI"
  BY <1>t, <1>1, QuitLeaves DEF QuitInv
<1>2. ASSUME Backend # "MPI"
      PROVE  /\ GateInv' /\ EarlyInv'
             /\ (\E k \in DOMAIN fired' : fired'[k] = "success") => Opened'
  <2>i. /\ GateInv /\ EarlyInv
        /\ (\E k \in DOMAIN fired : fired[k] = "success") => Opened
    BY <1>2 DEF QuitInv
  <2>1. CASE Controller
    <3>1. GateInv'
      BY <1>t, <2>i, <2>1, ControllerGate, BarrierGate DEF Controller
    <3>2. EarlyInv'
      BY <1>t, <2>i, <2>1, ControllerEarly
    <3>3. QED
      BY <1>t, <2>i, <2>1, <3>1, <3>2, SuccessOpened
  <2>2. ASSUME NEW d \in Domains, Progress(d) \/ Choice(d)
        PROVE  /\ GateInv' /\ EarlyInv'
               /\ (\E k \in DOMAIN fired' : fired'[k] = "success") => Opened'
    <3>1. UNCHANGED <<counter, armed, fired>>
      BY <2>2 DEF Progress, Choice, controllerVars
    <3>2. \A e \in Domains : Gated(e)
      BY <1>t, <1>2, <2>i, <2>2, ClientGate DEF GateInv
    <3>3. GateInv'
      BY <1>t, <2>i, <3>1, <3>2, GateStep DEF Opened
    <3>4. EarlyInv'
      BY <1>t, <1>2, <2>i, <2>2, ClientEarly
    <3>5. QED
      BY <2>i, <3>1, <3>3, <3>4 DEF Opened
  <2>3. CASE UNCHANGED vars
    <3>1. UNCHANGED <<up, down, linked, pc, stop, counter, armed, fired, ending, phase>>
      BY <2>3 DEF vars, channelVars, controllerVars, clientVars
    <3>2. \A d \in Domains : Gated(d)
      BY <2>i, <3>1 DEF Gated, GateInv, OneBarrier, Expected, Quitted, AtGate, Ended
    <3>3. GateInv'
      BY <1>t, <2>i, <3>1, <3>2, GateStep DEF Opened
    <3>4. \A d \in Domains : (Session(d)' <=> Session(d)) /\ (Passed(d)' <=> Passed(d))
      BY <3>1 DEF Session, Quiet, Requested, Arrived, Replied, Launched, Passed, Running
    <3>5. EarlyInv'
      BY <2>i, <3>1, <3>4, EarlyStep DEF Early, EarlyInv, Opened
    <3>6. QED
      BY <2>i, <3>1, <3>3, <3>5 DEF Opened
  <2>4. QED
    BY <2>1, <2>2, <2>3 DEF Next, Done
<1>3. QED
  BY <1>t, <1>1, <1>2 DEF QuitInv

(* If no domain calls EXIT before its simulation, a run in which a domain  *)
(* finalized without having started is never reported as a success: the    *)
(* barrier stays closed, nobody runs, and the first END is not a success.  *)
THEOREM QuitIsNoSuccessCorrect == ASSUME NoEarlyExit PROVE Spec => []QuitIsNoSuccess
<1>1. QuitInv /\ [Next]_vars => QuitInv'
  BY QuitStep
<1>2. QuitInv => QuitIsNoSuccess
  <2> SUFFICES ASSUME QuitInv, NEW d \in Quitters \ Failing, Ended(d), ~ stop[d]
               PROVE  \A k \in DOMAIN fired : fired[k] # "success"
    BY DEF QuitIsNoSuccess
  <2>1. d \in Quitted
    BY UseAssumption DEF Quitted
  <2>2. GateInv /\ ((\E k \in DOMAIN fired : fired[k] = "success") => Opened)
    BY <2>1 DEF QuitInv
  <2>3. ~ Opened
    BY <2>1, <2>2 DEF GateInv
  <2>4. QED
    BY <2>2, <2>3
<1>3. QED
  BY <1>1, <1>2, QuitInitially, PTL DEF Spec
=============================================================================
