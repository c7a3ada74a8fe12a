-------------------------- MODULE XenSessionProofs --------------------------
(* Theorems about the session of one call, for any depth of recursion.       *)
EXTENDS XenSession, TLAPS

\* The labels of xenapi_reboot.
CallLabels == P!Ended \cup {"idle", "xen_login", "xen_find", "xen_clean", "xen_hard",
                            "xen_wait", "xen_start", "xen_logout"}

\* What the session's variables say of each other, whatever the frames hold.
Sound ==
  /\ pc \in [{Me} -> CallLabels] /\ pending \in [{Me} -> P!Ended]
  /\ doing \in {"send", "login", "bind"}
  /\ held \in {"none", "valid", "invalid"} /\ method \in BOOLEAN
  /\ doing = "login" => held # "valid"
  /\ doing = "bind" /\ At \notin P!Ended => held # "none"
  /\ method => held # "none"
  /\ At = "idle" => held = "none" /\ ~method
  /\ At \in DOMAIN Command /\ doing = "login" => held # "none"
  /\ At \in {"xen_wait", "xen_logout"} => doing = "send"
  /\ At \in P!Ended => held = "none"
  /\ At \notin P!Ended => fate = "none"
  /\ fate \in {"none", "closed", "lost"}

\* Without a missed call, what the server holds the client knows how to close.
Tidy == ~missed => /\ ~stray
                   /\ held # "none" /\ doing # "bind" => method

LEMMA LabelFacts ==
  /\ P!Ended = {"returned", "raised", "interrupted", "killed"} /\ P!Ended \subseteq CallLabels
  /\ CallLabels = P!Ended \cup {"idle", "xen_login", "xen_find", "xen_clean", "xen_hard",
                                "xen_wait", "xen_start", "xen_logout"}
  /\ DOMAIN Command = {"xen_find", "xen_clean", "xen_hard", "xen_start"}
  /\ Command["xen_find"] = "nothing" /\ Command["xen_clean"] = "halt"
  /\ Command["xen_hard"] = "halt" /\ Command["xen_start"] = "start"
  /\ Answered["xen_find"] = "xen_clean" /\ Answered["xen_clean"] = "xen_wait"
  /\ Answered["xen_hard"] = "xen_wait"
BY DEF P!Ended, CallLabels, Command, Answered

\* Where the steps between two requests lead.
LEMMA Moves ==
  ASSUME Sound
  PROVE  /\ \A label \in CallLabels : P!Goto(Me, label) => At' = label /\ pc' \in [{Me} -> CallLabels]
         /\ \A label \in CallLabels : Begin(label) =>
              At' = label /\ pc' \in [{Me} -> CallLabels] /\ doing' = "send"
         /\ \A how \in P!Ended : Leave(how) =>
              /\ At' = "xen_logout" /\ pc' \in [{Me} -> CallLabels] /\ doing' = "send"
              /\ pending' \in [{Me} -> P!Ended]
         /\ \A how \in P!Ended : Throw(how) =>
              /\ pc' \in [{Me} -> CallLabels] /\ pending' \in [{Me} -> P!Ended]
              /\ At' \in {"xen_find", "xen_hard", "xen_logout"} /\ doing' = "send"
BY LabelFacts DEF Sound, P!Goto, P!Leave, Begin, Leave, Throw, At, Me

LEMMA SoundStep == Sound /\ [Next]_vars => Sound'
<1> SUFFICES ASSUME Sound, [Next]_vars PROVE Sound'
  OBVIOUS
<1> USE LabelFacts, Moves
<1>1. CASE Start
  BY <1>1 DEF Sound, Start, client, call, At
<1>2. CASE Wait
  BY <1>2 DEF Sound, Wait, client
<1>3. CASE DriverAnswer
  BY <1>3 DEF Sound, DriverAnswer, Sending, OfTheDriver, client
<1>4. CASE SessionInvalid
  BY <1>4 DEF Sound, SessionInvalid, NotLoggedIn, Sending, client, At
<1>5. CASE RequestFails
  BY <1>5 DEF Sound, RequestFails, Fails, Sending, client
<1>6. CASE VersionAnswer
  BY <1>6 DEF Sound, VersionAnswer, LoginReturns, Sending, client, At
<1>7. CASE LoginAnswer
  BY <1>7 DEF Sound, LoginAnswer, LoggingIn, At
<1>8. CASE LoginFails
  BY <1>8 DEF Sound, LoginFails, LoggingIn, Fails, client
<1>9. CASE Bind
  BY <1>9 DEF Sound, Bind, BindMethod, At
<1>10. CASE Logout
  BY <1>10 DEF Sound, Logout, LogoutAnswer, LogoutWithoutLogin, LogoutFails, Forget, call
<1>11. CASE StruckBeforeBlock \/ Kill
  BY <1>11 DEF Sound, StruckBeforeBlock, Kill, Forget, call
<1>12. CASE Expire
  BY <1>12 DEF Sound, Expire, call, At
<1>13. CASE UNCHANGED vars
  BY <1>13 DEF Sound, vars, client, call, At
<1> QED
  BY <1>1, <1>2, <1>3, <1>4, <1>5, <1>6, <1>7, <1>8, <1>9, <1>10, <1>11, <1>12, <1>13
     DEF Next, CallStep, Request

LEMMA TidyStep == Sound /\ Tidy /\ [Next]_vars => Tidy'
<1> SUFFICES ASSUME Sound, Tidy, [Next]_vars PROVE Tidy'
  OBVIOUS
<1> USE LabelFacts, Moves DEF Sound, Tidy
<1>1. CASE Start
  BY <1>1 DEF Start, client, call
<1>2. CASE Wait
  BY <1>2 DEF Wait, client, At
<1>3. CASE DriverAnswer \/ RequestFails
  BY <1>3 DEF DriverAnswer, RequestFails, Sending, client
<1>4. CASE SessionInvalid \/ VersionAnswer
  BY <1>4 DEF SessionInvalid, VersionAnswer, Sending, client
<1>5. CASE LoginAnswer \/ LoginFails
  BY <1>5 DEF LoginAnswer, LoginFails, LoggingIn
<1>6. CASE Bind
  BY <1>6 DEF Bind, BindMethod
<1>7. CASE Logout
  BY <1>7 DEF Logout, LogoutAnswer, LogoutWithoutLogin, LogoutFails, Forget
<1>8. CASE StruckBeforeBlock \/ Kill \/ Expire
  BY <1>8 DEF StruckBeforeBlock, Kill, Forget, Expire, call
<1>9. CASE UNCHANGED vars
  BY <1>9 DEF vars, client, call
<1> QED BY <1>1, <1>2, <1>3, <1>4, <1>5, <1>6, <1>7, <1>8, <1>9 DEF Next, CallStep, Request

LEMMA SoundInit == Init => Sound /\ Tidy
<1> SUFFICES ASSUME Init PROVE Sound /\ Tidy
  OBVIOUS
<1>1. pc = [j \in {Me} |-> "idle"] /\ pending = [j \in {Me} |-> "returned"]
  BY DEF Init, P!Init
<1>2. At = "idle"
  BY <1>1 DEF At
<1> QED BY <1>1, <1>2, LabelFacts DEF Init, Sound, Tidy

LEMMA SoundKept == Spec => [](Sound /\ Tidy)
BY SoundInit, SoundStep, TidyStep, PTL DEF Spec

\* However often the server ends the session and wherever in the requests, the
\* call leaves none behind unless a login, the way from there into the block or a
\* logout was cut short.
THEOREM NothingLeftBehind == Spec => []NoSessionLeftBehind
<1>1. Sound /\ Tidy => NoSessionLeftBehind
  BY DEF Sound, Tidy, NoSessionLeftBehind
<1> QED BY <1>1, SoundKept, PTL

-----------------------------------------------------------------------------
(* The call implements a xenapi_reboot of PowerDrivers.                    *)

\* What the driver sees of the session at its own labels.
LEMMA SeenFacts ==
  ASSUME Sound
  PROVE  /\ At \in {"idle", "xen_login"} => Seen = "none"
         /\ At \notin P!Ended \cup {"idle", "xen_login"} =>
              Seen = IF held = "none" THEN "none" ELSE "open"
BY LabelFacts DEF Sound, Seen

\* A step of the client that the driver takes no notice of.
LEMMA Unnoticed ==
  ASSUME Sound, Sound', UNCHANGED <<pc, pending, limited, device, fate>>,
         At \in DOMAIN Command \cup {"xen_wait", "xen_logout"} =>
           (held' = "none" <=> held = "none"),
         At \in P!Ended => UNCHANGED held
  PROVE  UNCHANGED P!vars
<1>1. Seen' = Seen
  BY LabelFacts DEF Sound, Seen, At
<1> QED BY <1>1 DEF P!vars, P!locals, P!given, P!device, device

\* What the driver may find when a request ends: it has had no effect, or its own.
Ending == \/ UNCHANGED device
          \/ Command[At] # "nothing" /\ P!Effect(Me, Command[At])

\* An exception out of a request is a failure of the driver's request.
LEMMA Thrown ==
  ASSUME Sound, Sound', NEW how, Throw(how),
         \/ how = "raised" /\ UNCHANGED limited
         \/ how = "interrupted" /\ P!NotStruck(Me),
         At \in DOMAIN Command => Ending,
         At = "xen_login" => UNCHANGED device,
         UNCHANGED <<held, fate>>
  PROVE  P!Xen(Me)
<1>0. how \in P!Ended
  BY LabelFacts
<1>1. CASE At = "xen_login"
  <2>1. Begin("xen_find") /\ UNCHANGED pending /\ UNCHANGED device
    BY <1>1 DEF Throw
  <2>2. P!Goto(Me, "xen_find") /\ At' = "xen_find"
    BY <2>1, Moves, LabelFacts DEF Begin
  <2>3. Seen = "none" /\ Seen' \in {"none", "open"}
    BY <1>1, <2>2, SeenFacts, LabelFacts DEF Sound, Seen
  <2> QED BY <1>1, <2>1, <2>2, <2>3 DEF P!Xen, P!XenLogin, P!device, P!given, device, At
<1>2. CASE At # "xen_login"
  <2>1. At \in DOMAIN Command /\ Seen' = Seen
    BY <1>0, <1>2, Moves, LabelFacts DEF Throw, Seen, Sound
  <2>2. CASE At = "xen_find"
    BY <1>2, <2>1, <2>2, LabelFacts DEF Throw, Leave, Ending, P!Xen, P!XenFind, P!device,
       P!given, device, At
  <2>3. CASE At = "xen_clean"
    BY <1>2, <2>1, <2>3, LabelFacts DEF Throw, Begin, Ending, P!Xen, P!XenClean, P!Request,
       P!device, P!given, P!locals, device, At
  <2>4. CASE At = "xen_hard"
    BY <1>2, <2>1, <2>4, LabelFacts DEF Throw, Leave, Ending, P!Xen, P!XenRequest,
       P!device, P!given, device, At
  <2>5. CASE At = "xen_start"
    BY <1>2, <2>1, <2>5, LabelFacts DEF Throw, Leave, Ending, P!Xen, P!XenRequest,
       P!device, P!given, device, At
  <2> QED BY <2>1, <2>2, <2>3, <2>4, <2>5, LabelFacts
<1> QED BY <1>1, <1>2

LEMMA Failing ==
  ASSUME Sound, Sound', Fails \/ (Throw("raised") /\ UNCHANGED limited),
         UNCHANGED device \/ (At \in DOMAIN Command /\ Ending), UNCHANGED <<held, fate>>
  PROVE  P!Xen(Me)
<1>0. /\ At \in DOMAIN Command => Ending
      /\ At = "xen_login" => UNCHANGED device
      /\ fate' = fate /\ held' = held
  BY LabelFacts DEF Ending
<1>1. CASE Throw("raised") /\ UNCHANGED limited
  BY <1>0, <1>1, Thrown
<1>2. CASE P!NotStruck(Me) /\ Throw("interrupted")
  BY <1>0, <1>2, Thrown
<1> QED BY <1>1, <1>2 DEF Fails

LEMMA Simulation == Sound /\ [Next]_vars => [P!Next]_P!vars
<1> SUFFICES ASSUME Sound, [Next]_vars PROVE P!Start(Me) \/ P!Xen(Me) \/ P!Kill(Me) \/ UNCHANGED P!vars
  BY DEF P!Next, P!JobStep
<1>0. Sound'
  BY SoundStep
<1>1. CASE Start
  <2>1. /\ P!Goto(Me, "xen_login") \/ P!Goto(Me, "raised")
        /\ At = "idle" /\ At' \in {"xen_login", "raised"}
    BY <1>1, Moves, LabelFacts DEF Start
  <2>2. Seen' = Seen
    BY <1>1, <2>1, LabelFacts DEF Start, Seen, Sound, client
  <2> QED BY <1>1, <2>1, <2>2 DEF Start, P!Start, P!First, P!locals, P!given, P!device,
          device, At
<1>2. CASE Wait
  <2>1. Seen' = Seen
    BY <1>2, Moves, LabelFacts DEF Wait, Seen, Sound, client
  <2> QED BY <1>2, <2>1 DEF Wait, Begin, Leave, P!Xen, P!XenWait, P!given, P!device, device, At
<1>3. CASE DriverAnswer
  <2>1. Seen' = Seen /\ Seen = "open" /\ At \in DOMAIN Command
    BY <1>3, Moves, LabelFacts DEF DriverAnswer, OfTheDriver, Seen, Sound, client
  <2>2. CASE At = "xen_find"
    BY <1>3, <2>1, <2>2, LabelFacts DEF DriverAnswer, Begin, P!Xen, P!XenFind, P!device,
       P!given, device, At
  <2>3. CASE At = "xen_clean"
    BY <1>3, <2>1, <2>3, LabelFacts DEF DriverAnswer, Begin, P!Xen, P!XenClean, P!Request,
       P!device, P!given, P!locals, device, At
  <2>4. CASE At = "xen_hard"
    BY <1>3, <2>1, <2>4, LabelFacts DEF DriverAnswer, Begin, P!Xen, P!XenRequest,
       P!device, P!given, device, At
  <2>5. CASE At = "xen_start"
    BY <1>3, <2>1, <2>5, LabelFacts DEF DriverAnswer, Leave, P!Xen, P!XenRequest,
       P!device, P!given, device, At
  <2> QED BY <2>1, <2>2, <2>3, <2>4, <2>5, LabelFacts
<1>4. CASE SessionInvalid
  <2>1. UNCHANGED <<device, held, fate>>
    BY <1>4 DEF SessionInvalid, client
  <2>2. CASE NotLoggedIn
    BY <1>0, <2>1, <2>2, Failing DEF NotLoggedIn
  <2>3. CASE UNCHANGED <<pc, pending, limited>>
    BY <1>0, <2>1, <2>3, Unnoticed
  <2> QED BY <1>4, <2>2, <2>3 DEF SessionInvalid
<1>5. CASE RequestFails
  BY <1>0, <1>5, Failing DEF RequestFails, OfTheDriver, Ending, client
<1>6. CASE VersionAnswer
  <2>1. UNCHANGED <<device, held, fate>>
    BY <1>6 DEF VersionAnswer, client
  <2>2. CASE At = "xen_login" /\ Begin("xen_find") /\ UNCHANGED <<pending, limited>>
    BY <1>0, <2>1, <2>2, Failing DEF Throw
  <2>3. CASE Throw("raised") /\ UNCHANGED limited
    BY <1>0, <2>1, <2>3, Failing
  <2>4. CASE UNCHANGED <<pc, pending, limited>>
    BY <1>0, <2>1, <2>4, Unnoticed
  <2> QED BY <1>6, <2>2, <2>3, <2>4 DEF VersionAnswer, LoginReturns
<1>7. CASE LoginAnswer
  BY <1>0, <1>7, Unnoticed, LabelFacts DEF LoginAnswer, LoggingIn, Sound
<1>8. CASE LoginFails
  BY <1>0, <1>8, Failing DEF LoginFails, client
<1>9. CASE Bind
  <2>1. UNCHANGED <<device, held, fate>>
    BY <1>9 DEF Bind
  <2>2. CASE UNCHANGED <<pc, pending, limited>>
    BY <1>0, <2>1, <2>2, Unnoticed
  <2>3. CASE Fails \/ (Throw("raised") /\ UNCHANGED limited)
    BY <1>0, <2>1, <2>3, Failing
  <2> QED BY <1>9, <2>2, <2>3 DEF Bind, Fails
<1>10. CASE Logout
  <2>1. At = "xen_logout" /\ Seen = IF held = "none" THEN "none" ELSE "open"
    BY <1>10, SeenFacts, LabelFacts DEF Logout, LogoutAnswer, LogoutWithoutLogin, LogoutFails
  <2>2. At' \in P!Ended
    BY <1>10, Moves, LabelFacts DEF Logout, LogoutAnswer, LogoutWithoutLogin, LogoutFails, Sound
  <2>3. Seen' = fate'
    BY <1>10, <2>2, LabelFacts DEF Logout, LogoutAnswer, LogoutWithoutLogin, LogoutFails,
       Forget, Seen
  <2> QED BY <1>10, <2>1, <2>3 DEF Logout, LogoutAnswer, LogoutWithoutLogin, LogoutFails,
          Sound, P!Xen, P!XenLogout, P!given, P!device, device, At
<1>11. CASE Kill
  <2>1. At' = "killed" /\ Seen' = fate'
    BY <1>11, Moves, LabelFacts DEF Kill, Forget, Seen
  <2>2. fate' = IF Seen = "open" THEN "lost" ELSE Seen
    BY <1>11, SeenFacts, LabelFacts DEF Kill
  <2> QED BY <1>11, <2>1, <2>2 DEF Kill, P!Kill, P!given, P!device, device, At
<1>12. CASE Expire
  BY <1>0, <1>12, Unnoticed DEF Expire, Sound
<1>13. CASE UNCHANGED vars
  BY <1>0, <1>13, Unnoticed DEF vars, client
<1>14. CASE StruckBeforeBlock
  <2>1. Seen = "none" /\ Seen' \in {"none", "lost"}
    BY <1>14, SeenFacts, Moves, LabelFacts DEF StruckBeforeBlock, Forget, Seen
  <2> QED BY <1>14, <2>1 DEF StruckBeforeBlock, P!Xen, P!XenLogin, P!given, P!device, device, At
<1> QED
  BY <1>1, <1>2, <1>3, <1>4, <1>5, <1>6, <1>7, <1>8, <1>9, <1>10, <1>11, <1>12, <1>13, <1>14
     DEF Next, CallStep, Request

\* With all of its retries and nested logins, every call is a xenapi_reboot of
\* PowerDrivers, in which a request is one step.
THEOREM SessionRefinesDriver == Spec => ImplementsDriver
<1>1. Init => P!Init
  BY DEF Init
<1> QED BY <1>1, Simulation, SoundKept, PTL DEF Spec, ImplementsDriver, P!Spec

-----------------------------------------------------------------------------
(* Types: the retries are counted, and the nesting is bounded.             *)

Requesting == At \in {"xen_login"} \cup DOMAIN Command

\* Every request in progress is sent less than three times, or is at its last login.
Counts ==
  /\ frames \in Seq(Frame) /\ Len(frames) <= MaxDepth
  /\ Requesting /\ doing = "send" => frames # <<>> /\ Head(frames).tries < 3
  /\ At \in DOMAIN Command => frames # <<>>
  /\ At = "idle" => doing = "login"

LEMMA Pushed ==
  ASSUME NEW s \in Seq(Frame), NEW f \in Frame
  PROVE  /\ <<f>> \o s \in Seq(Frame) /\ Len(<<f>> \o s) = Len(s) + 1
         /\ <<f>> \o s # <<>> /\ Head(<<f>> \o s) = f
OBVIOUS

LEMMA Popped ==
  ASSUME NEW s \in Seq(Frame), s # <<>>
  PROVE  /\ Tail(s) \in Seq(Frame) /\ Len(Tail(s)) = Len(s) - 1 /\ Len(s) \in Nat
         /\ Head(s) \in Frame
OBVIOUS

\* A frame of a request that is counted once more is still a frame.
LEMMA Retried ==
  ASSUME NEW f \in Frame, f.tries \in 0..2
  PROVE  [f EXCEPT !.tries = Counted(@)] \in Frame
BY DEF Counted, Frame

LEMMA CountsStep == Sound /\ Counts /\ [Next]_vars => Counts'
<1> SUFFICES ASSUME Sound, Counts, [Next]_vars PROVE Counts'
  OBVIOUS
<1> USE LabelFacts, Moves, MaxDepthAssumption DEF Sound, Counts, Requesting
<1>0. /\ <<>> \in Seq(Frame) /\ <<OfDriver>> \in Seq(Frame) /\ <<OfDriver>> # <<>>
      /\ Len(<<>>) = 0 /\ Len(<<OfDriver>>) = 1 /\ Head(<<OfDriver>>).tries = 0
  BY DEF OfDriver, Frame
<1>1. ASSUME NEW label \in {"xen_find", "xen_clean", "xen_hard", "xen_wait", "xen_start"},
             Begin(label)
      PROVE  Counts'
  BY <1>0, <1>1 DEF Begin, At
<1>2. ASSUME NEW how \in P!Ended, Leave(how) PROVE Counts'
  BY <1>0, <1>2 DEF Leave, At
<1>3. ASSUME NEW how \in P!Ended, Throw(how) PROVE Counts'
  BY <1>1, <1>2, <1>3 DEF Throw
<1>4. CASE Start
  BY <1>4 DEF Start, call, At
<1>5. CASE Wait
  BY <1>1, <1>2, <1>5 DEF Wait
<1>6. CASE DriverAnswer
  BY <1>1, <1>2, <1>6 DEF DriverAnswer, OfTheDriver
<1>7. CASE SessionInvalid
  <2>1. CASE NotLoggedIn
    BY <1>3, <2>1 DEF NotLoggedIn
  <2>2. CASE /\ Retop([Top EXCEPT !.tries = Counted(@)]) /\ doing' = "login"
             /\ UNCHANGED pc
    <3>0. Top \in Frame /\ Top.tries \in 0..2
      <4>1. frames \in Seq(Frame) /\ frames # <<>> /\ Head(frames).tries < 3
        BY <1>7 DEF SessionInvalid, Sending
      <4>2. Head(frames) \in Frame
        BY <4>1, Popped
      <4>3. Head(frames).tries \in 0..3
        BY <4>2 DEF Frame
      <4> QED BY <4>1, <4>2, <4>3 DEF Top
    <3>1. [Top EXCEPT !.tries = Counted(@)] \in Frame
      BY <3>0, Retried
    <3>2. frames # <<>> /\ frames' = <<[Top EXCEPT !.tries = Counted(@)]>> \o Tail(frames)
      BY <1>7, <2>2 DEF SessionInvalid, Sending, Retop
    <3>3. Tail(frames) \in Seq(Frame) /\ Len(Tail(frames)) = Len(frames) - 1
          /\ Len(frames) \in Nat
      BY <3>2, Popped
    <3>4. frames' \in Seq(Frame) /\ Len(frames') = Len(frames) /\ frames' # <<>>
      BY <3>1, <3>2, <3>3, Pushed
    <3> QED BY <1>7, <2>2, <3>4 DEF SessionInvalid, Sending, At
  <2> QED BY <1>7, <2>1, <2>2 DEF SessionInvalid
<1>8. CASE RequestFails
  BY <1>3, <1>8 DEF RequestFails, Fails
<1>9. CASE VersionAnswer
  <2>0. frames # <<>> /\ doing = "send" /\ Requesting /\ Top \in Frame
    BY <1>9, Popped DEF VersionAnswer, Sending, Top
  <2>1. CASE Begin("xen_find") \/ Throw("raised")
    BY <1>1, <1>3, <2>1
  <2>2. CASE /\ Tail(frames) # <<>> /\ ~Spent(Head(Tail(frames)).tries)
             /\ frames' = Tail(frames) /\ UNCHANGED <<pc, doing>>
    <3>1. /\ Tail(frames) \in Seq(Frame) /\ Len(Tail(frames)) = Len(frames) - 1
          /\ Len(frames) \in Nat
      BY <2>0, Popped
    <3>2. Head(Tail(frames)) \in Frame
      BY <2>2, <3>1, Popped
    <3>3. Head(Tail(frames)).tries < 3
      BY <2>2, <3>2 DEF Spent, Frame
    <3> QED BY <2>0, <2>2, <3>1, <3>3 DEF At
  <2>3. CASE /\ Retop([tries |-> 0, left |-> Top.left - 1]) /\ Top.left > 0
             /\ UNCHANGED <<pc, doing>>
    <3>0. Top.left \in 1..4
      BY <2>0, <2>3 DEF Frame
    <3>1. [tries |-> 0, left |-> Top.left - 1] \in Frame
      BY <3>0 DEF Frame
    <3>2. frames' = <<[tries |-> 0, left |-> Top.left - 1]>> \o Tail(frames)
      BY <2>3 DEF Retop
    <3>3. Tail(frames) \in Seq(Frame) /\ Len(Tail(frames)) = Len(frames) - 1
          /\ Len(frames) \in Nat
      BY <2>0, Popped
    <3>4. /\ frames' \in Seq(Frame) /\ Len(frames') = Len(frames) /\ frames' # <<>>
          /\ Head(frames') = [tries |-> 0, left |-> Top.left - 1]
      BY <3>1, <3>2, <3>3, Pushed
    <3> QED BY <2>0, <2>3, <3>4 DEF At
  <2> QED BY <1>9, <2>1, <2>2, <2>3 DEF VersionAnswer, LoginReturns
<1>10. CASE LoginAnswer
  BY <1>10 DEF LoginAnswer, LoggingIn, At
<1>11. CASE LoginFails
  BY <1>3, <1>11 DEF LoginFails, Fails
<1>12. CASE Bind
  <2>1. CASE Throw("raised") \/ Throw("interrupted")
    BY <1>3, <2>1
  <2>2. CASE Len(frames) < MaxDepth /\ frames' = <<OfLogin>> \o frames /\ UNCHANGED pc
    <3>1. OfLogin \in Frame /\ OfLogin.tries = 0
      BY DEF OfLogin, Frame
    <3> QED BY <1>12, <2>2, <3>1, Pushed DEF Bind, At
  <2> QED BY <1>12, <2>1, <2>2 DEF Bind
<1>13. CASE Logout
  BY <1>13 DEF Logout, LogoutAnswer, LogoutWithoutLogin, LogoutFails, call
<1>14. CASE StruckBeforeBlock \/ Kill
  BY <1>14 DEF StruckBeforeBlock, Kill, call
<1>15. CASE Expire \/ UNCHANGED vars
  BY <1>15 DEF Expire, vars, call, At
<1> QED
  BY <1>4, <1>5, <1>6, <1>7, <1>8, <1>9, <1>10, <1>11, <1>12, <1>13, <1>14, <1>15
     DEF Next, CallStep, Request

Typed ==
  /\ limited \subseteq {Me} /\ power \in {"on", "off"} /\ everOn \in BOOLEAN
  /\ owes \subseteq {Me} /\ restarted \subseteq {Me}
  /\ missed \in BOOLEAN /\ stray \in BOOLEAN

LEMMA TypedStep == Sound /\ Typed /\ [Next]_vars => Typed'
<1> SUFFICES ASSUME Sound, Typed, [Next]_vars PROVE Typed'
  OBVIOUS
<1>1. UNCHANGED device \/ \E command : P!Effect(Me, command)
  BY DEF Next, CallStep, Request, Logout, Start, Wait, DriverAnswer, SessionInvalid,
     RequestFails, VersionAnswer, LoginAnswer, LoginFails, Bind, LogoutAnswer,
     LogoutWithoutLogin, LogoutFails, StruckBeforeBlock, Kill, Expire, vars, device
<1>2. /\ power' \in {"on", "off"} /\ everOn' \in BOOLEAN
      /\ owes' \subseteq {Me} /\ restarted' \subseteq {Me}
  <2>1. CASE UNCHANGED device
    BY <2>1 DEF device, Typed
  <2>2. ASSUME NEW command, P!Effect(Me, command)
        PROVE  /\ power' \in {"on", "off"} /\ everOn' \in BOOLEAN
               /\ owes' \subseteq {Me} /\ restarted' \subseteq {Me}
    BY <2>2 DEF P!Effect, P!Bmc, P!TurnOff, P!TurnOn, P!Restart, P!Running, P!device, Typed
  <2> QED BY <1>1, <2>1, <2>2
<1>3. UNCHANGED limited \/ P!NotStruck(Me)
  BY DEF Next, CallStep, Request, Logout, Start, Wait, DriverAnswer, SessionInvalid,
     RequestFails, VersionAnswer, LoginAnswer, LoginFails, Bind, LogoutAnswer,
     LogoutWithoutLogin, LogoutFails, StruckBeforeBlock, Kill, Expire, vars, Fails, NotLoggedIn, LoginReturns
<1>4. missed' \in BOOLEAN /\ stray' \in BOOLEAN
  BY DEF Typed, Next, CallStep, Request, Logout, Start, Wait, DriverAnswer, SessionInvalid,
     RequestFails, VersionAnswer, LoginAnswer, LoginFails, Bind, LogoutAnswer,
     LogoutWithoutLogin, LogoutFails, StruckBeforeBlock, Kill, Expire, vars
<1> QED BY <1>2, <1>3, <1>4 DEF Typed, P!NotStruck

LEMMA CountsInit == Init => Counts /\ Typed
<1> SUFFICES ASSUME Init PROVE Counts /\ Typed
  OBVIOUS
<1>1. pc = [j \in {Me} |-> "idle"] /\ Typed
  BY DEF Init, P!Init, Typed
<1>2. At = "idle"
  BY <1>1 DEF At
<1> QED BY <1>1, <1>2, LabelFacts, MaxDepthAssumption DEF Init, Counts, Requesting

\* The retry counts and the nesting stay within their bounds, and the variables
\* of the driver keep the types PowerDrivers gives them.
THEOREM XenTypeSafety == Spec => []TypeOK
<1>1. Sound /\ Counts /\ Typed => TypeOK
  <2> SUFFICES ASSUME Sound, Counts, Typed PROVE TypeOK
    OBVIOUS
  <2>1. Seen \in {"none", "open", "closed", "lost"} 
    BY DEF Sound, Seen
  <2>2. CallLabels \subseteq P!Labels
    BY DEF CallLabels, P!Labels, P!Off, P!Ended
  <2> QED BY <2>1, <2>2 DEF TypeOK, Sound, Counts, Typed, P!TypeOK, P!First
<1> QED BY <1>1, SoundKept, CountsStep, TypedStep, CountsInit, PTL DEF Spec

-----------------------------------------------------------------------------
(* The retries come to an end.                                             *)

\* What a level has ahead is a number with a bound, and there are few levels.
Finite == \A d \in 0..MaxDepth : Ahead(d) \in 0..79

LEMMA Amounts ==
  /\ Place \in 0..8 /\ Place' \in 0..8
  /\ Sound => Phase \in 0..3
  /\ Sound' => Phase' \in 0..3
<1>1. Place \in 0..8 /\ Place' \in 0..8
  BY DEF Place
<1>2. Sound => Phase \in 0..3
  BY DEF Sound, Phase
<1>3. Sound' => Phase' \in 0..3
  BY DEF Sound, Phase
<1> QED BY <1>1, <1>2, <1>3

\* The frames of the nesting, counted from the outermost: what is pushed or
\* popped on top of them does not touch them.
LEMMA Nesting ==
  ASSUME NEW s \in Seq(Frame)
  PROVE  /\ Len(s) \in Nat
         /\ \A d \in 1..Len(s) : s[Len(s) + 1 - d] \in Frame
         /\ s # <<>> => /\ Head(s) = s[1] /\ Len(s) \in Nat \ {0}
                        /\ \A d \in 1..(Len(s) - 1) :
                             Tail(s)[Len(s) - d] = s[Len(s) + 1 - d]
OBVIOUS

LEMMA NestingUnder ==
  ASSUME NEW s \in Seq(Frame), NEW f \in Frame
  PROVE  /\ \A d \in 1..Len(s) :
              (<<f>> \o s)[Len(s) + 2 - d] = s[Len(s) + 1 - d]
         /\ s # <<>> => \A d \in 1..(Len(s) - 1) :
                          (<<f>> \o Tail(s))[Len(s) + 1 - d] = s[Len(s) + 1 - d]
OBVIOUS

LEMMA FrameWeight ==
  ASSUME NEW f \in Frame
  PROVE  f.left \in 0..4 /\ f.tries \in 0..3 /\ 4 * f.left + 3 - f.tries \in 0..19
BY DEF Frame

\* Fewer turns are less, on whatever phase of a login.
LEMMA Lexical ==
  /\ \A t \in 0..19, p \in 0..3 : 4 * t + p \in 0..79
  /\ \A t, u \in Nat, p, q \in 0..3 : t < u => 4 * t + p < 4 * u + q
OBVIOUS

LEMMA TurnsAreFew ==
  ASSUME frames \in Seq(Frame), NEW d \in 0..Len(frames) PROVE Turns(d) \in 0..19
<1>1. CASE d = 0
  BY <1>1, Amounts DEF Turns
<1>2. CASE d # 0
  <2>1. Len(frames) \in Nat /\ Len(frames) + 1 - d \in 1..Len(frames)
    BY <1>2
  <2>2. Level(d) \in Frame
    BY <2>1 DEF Level
  <2>3. Turns(d) = 4 * Level(d).left + 3 - Level(d).tries
    BY <1>2 DEF Turns
  <2> QED BY <2>2, <2>3, FrameWeight
<1> QED BY <1>1, <1>2

LEMMA AheadIsFinite == Sound /\ Counts => Finite
<1> SUFFICES ASSUME Sound, Counts, NEW d \in 0..MaxDepth PROVE Ahead(d) \in 0..79
  BY DEF Finite
<1>1. Len(frames) \in Nat /\ frames \in Seq(Frame)
  BY DEF Counts
<1>2. d <= Len(frames) => Turns(d) \in 0..19
  BY <1>1, TurnsAreFew
<1>3. CASE d <= Len(frames)
  <2>1. PICK p \in 0..3 : Ahead(d) = 4 * Turns(d) + p
    BY <1>1, <1>3, Amounts, MaxDepthAssumption DEF Ahead
  <2> QED BY <1>2, <1>3, <2>1, Lexical
<1>4. CASE d > Len(frames)
  BY <1>4 DEF Ahead
<1> QED BY <1>1, <1>3, <1>4, MaxDepthAssumption

\* A level below the innermost waits for a login.
LEMMA Unfolded ==
  ASSUME frames \in Seq(Frame), frames' \in Seq(Frame), NEW d \in Nat
  PROVE  /\ d < Len(frames) => Ahead(d) = 4 * Turns(d) + 1
         /\ d = Len(frames) => Ahead(d) = 4 * Turns(d) + Phase
         /\ d < Len(frames') => Ahead(d)' = 4 * Turns(d)' + 1
         /\ d = Len(frames') => Ahead(d)' = 4 * Turns(d)' + Phase'
<1>1. Len(frames) \in Nat /\ Len(frames') \in Nat
  OBVIOUS
<1> QED BY <1>1 DEF Ahead

LEMMA CallDescends ==
  Sound /\ Counts /\ [Next]_vars
    => UNCHANGED <<pc, call>> \/ Descends
<1> SUFFICES ASSUME Sound, Counts, [Next]_vars PROVE UNCHANGED <<pc, call>> \/ Descends
  OBVIOUS
<1>a. Sound' /\ Counts'
  BY SoundStep, CountsStep
<1>b. /\ frames \in Seq(Frame) /\ frames' \in Seq(Frame)
      /\ Len(frames) \in 0..MaxDepth /\ Len(frames') \in 0..MaxDepth
  BY <1>a, MaxDepthAssumption DEF Counts
<1>c. \A d \in Nat : /\ d < Len(frames) => Ahead(d) = 4 * Turns(d) + 1
                     /\ d = Len(frames) => Ahead(d) = 4 * Turns(d) + Phase
                     /\ d < Len(frames') => Ahead(d)' = 4 * Turns(d)' + 1
                     /\ d = Len(frames') => Ahead(d)' = 4 * Turns(d)' + Phase'
  BY <1>b, Unfolded
<1>d. Turns(0) = Place /\ Turns(0)' = Place'
  BY DEF Turns
<1>1. ASSUME Place' < Place PROVE Descends
  <2>1. PICK p \in 0..3 : Ahead(0) = 4 * Place + p
    BY <1>b, <1>c, <1>d, Amounts
  <2>2. PICK q \in 0..3 : Ahead(0)' = 4 * Place' + q
    BY <1>a, <1>b, <1>c, <1>d, Amounts
  <2>3. Place \in Nat /\ Place' \in Nat
    BY Amounts
  <2>4. 4 * Place' + q < 4 * Place + p
    BY <1>1, <2>3, Lexical
  <2> QED BY <2>1, <2>2, <2>4, MaxDepthAssumption DEF Descends
<1>2. ASSUME UNCHANGED <<pc, frames>>, Phase' < Phase PROVE Descends
  <2>1. \A d \in Nat : Turns(d)' = Turns(d)
    BY <1>2 DEF Turns, Level, Place, At
  <2>2. Turns(Len(frames)) \in Nat
    <3>1. frames \in Seq(Frame) /\ Len(frames) \in 0..Len(frames)
      BY <1>b
    <3>2. Turns(Len(frames)) \in 0..19
      BY <3>1, TurnsAreFew
    <3> QED BY <3>2
  <2>3. Ahead(Len(frames))' < Ahead(Len(frames))
    BY <1>2, <1>a, <1>b, <1>c, <2>1, <2>2, Amounts
  <2> QED BY <1>2, <1>b, <1>c, <2>1, <2>3 DEF Descends
<1>3. ASSUME UNCHANGED pc, frames # <<>>, NEW f \in Frame,
             frames' = <<f>> \o Tail(frames),
             4 * f.left - f.tries < 4 * Top.left - Top.tries
      PROVE  Descends
  <2>0. PICK n \in Nat : n = Len(frames)
    BY <1>b
  <2>1. /\ n # 0 /\ Len(frames') = n
        /\ Turns(n) = 4 * Top.left + 3 - Top.tries
        /\ Turns(n)' = 4 * f.left + 3 - f.tries
    BY <1>3, <1>b, <2>0, Nesting, Popped, Pushed DEF Turns, Level, Top
  <2>2. \A d \in 0..(n - 1) : Turns(d)' = Turns(d)
    <3>1. \A d \in 1..(n - 1) : frames'[n + 1 - d] = frames[n + 1 - d]
      BY <1>3, <1>b, <2>0, <2>1, NestingUnder
    <3>2. \A d \in 1..(n - 1) : Level(d)' = Level(d)
      BY <2>0, <2>1, <3>1 DEF Level
    <3>3. Place' = Place
      BY <1>3 DEF Place, At
    <3> QED BY <3>2, <3>3, <2>0 DEF Turns
  <2>3. Turns(n) \in Nat /\ Turns(n)' \in Nat /\ Turns(n)' < Turns(n)
    <3>1. Top \in Frame
      BY <1>3, <1>b, Popped DEF Top
    <3>2. PICK a \in 0..4, b \in 0..3 : Top.left = a /\ Top.tries = b
      BY <3>1, FrameWeight
    <3>3. PICK l \in 0..4, t \in 0..3 : f.left = l /\ f.tries = t
      BY FrameWeight
    <3>4. 4 * l - t < 4 * a - b
      BY <1>3, <3>2, <3>3
    <3>5. Turns(n) = 4 * a + 3 - b /\ Turns(n)' = 4 * l + 3 - t
      BY <2>1, <3>2, <3>3
    <3> QED BY <3>4, <3>5
  <2>4. Ahead(n)' < Ahead(n)
    BY <1>a, <1>c, <2>0, <2>1, <2>3, Amounts, Lexical
  <2> QED BY <1>b, <1>c, <2>0, <2>1, <2>2, <2>4 DEF Descends
<1>4. ASSUME UNCHANGED pc, frames # <<>>, Tail(frames) # <<>>, frames' = Tail(frames),
             doing' = "send"
      PROVE  Descends
  <2>l. /\ Len(frames) \in Nat /\ Len(frames) # 0 /\ Len(frames') # 0
        /\ Len(frames') = Len(frames) - 1
    <3>1. \A s \in Seq(Frame) : s # <<>> => Len(s) \in Nat /\ Len(s) # 0
      OBVIOUS
    <3>2. Len(Tail(frames)) = Len(frames) - 1
      BY <1>4, <1>b, Popped
    <3> QED BY <1>4, <1>b, <3>1, <3>2
  <2>0. PICK n \in Nat : n + 1 = Len(frames)
    BY <2>l
  <2>1. n # 0 /\ Len(frames') = n /\ Phase' = 0
    BY <1>4, <2>l, <2>0 DEF Phase
  <2>2. \A d \in 0..n : Turns(d)' = Turns(d)
    <3>1. ASSUME NEW d \in 1..n PROVE Level(d)' = Level(d)
      <4>1. PICK m \in 1..n : m = n + 1 - d
        BY <2>0
      <4>2. Level(d) = frames[m + 1] /\ Level(d)' = frames'[m]
        BY <2>0, <2>1, <4>1 DEF Level
      <4>3. Tail(frames)[m] = frames[m + 1]
        BY <1>b, <1>4, <2>0
      <4> QED BY <1>4, <4>2, <4>3
    <3>2. \A d \in 1..n : Level(d)' = Level(d)
      BY <3>1
    <3>3. Place' = Place
      BY <1>4 DEF Place, At
    <3> QED BY <3>2, <3>3, <2>0 DEF Turns
  <2>3. Turns(n) \in Nat
    <3>1. frames \in Seq(Frame) /\ n \in 0..Len(frames)
      BY <1>b, <2>0
    <3>2. Turns(n) \in 0..19
      BY <3>1, TurnsAreFew
    <3> QED BY <3>2
  <2>4. Ahead(n)' < Ahead(n)
    BY <1>c, <2>0, <2>1, <2>2, <2>3
  <2> QED BY <1>b, <1>c, <2>0, <2>1, <2>2, <2>4 DEF Descends
<1>5. ASSUME UNCHANGED pc, NEW f \in Frame, frames' = <<f>> \o frames, doing = "bind"
      PROVE  Descends
  <2>0. PICK n \in Nat : n = Len(frames)
    BY <1>b
  <2>1. Len(frames') = n + 1 /\ Phase = 2
    BY <1>5, <1>b, <2>0, Nesting, Pushed DEF Phase
  <2>2. \A d \in 0..n : Turns(d)' = Turns(d)
    <3>1. \A d \in 1..n : frames'[n + 2 - d] = frames[n + 1 - d]
      BY <1>5, <1>b, <2>0, NestingUnder
    <3>2. \A d \in 1..n : Level(d)' = Level(d)
      BY <2>0, <2>1, <3>1 DEF Level
    <3>3. Place' = Place
      BY <1>5 DEF Place, At
    <3> QED BY <3>2, <3>3, <2>0 DEF Turns
  <2>3. Turns(n) \in Nat
    <3>1. frames \in Seq(Frame) /\ n \in 0..Len(frames)
      BY <1>b, <2>0
    <3>2. Turns(n) \in 0..19
      BY <3>1, TurnsAreFew
    <3> QED BY <3>2
  <2>4. Ahead(n)' < Ahead(n)
    BY <1>c, <2>0, <2>1, <2>2, <2>3
  <2> QED BY <1>b, <1>c, <2>0, <2>1, <2>2, <2>4 DEF Descends
<1> USE LabelFacts, Moves
<1>6. ASSUME NEW how \in P!Ended, Throw(how) PROVE Descends
  <2>1. Place' < Place
    <3>1. CASE At = "xen_login" /\ Begin("xen_find")
      BY <3>1 DEF Place
    <3>2. CASE At = "xen_clean" /\ Begin("xen_hard")
      BY <3>2 DEF Place
    <3>3. CASE At \in {"xen_find", "xen_hard", "xen_start"} /\ Leave(how)
      BY <3>3 DEF Place
    <3> QED BY <1>6, <3>1, <3>2, <3>3 DEF Throw
  <2> QED BY <1>1, <2>1
<1>7. ASSUME Fails PROVE Descends
  BY <1>6, <1>7 DEF Fails
<1>8. CASE Start
  <2>1. At = "idle" /\ At' \in {"xen_login", "raised"}
    BY <1>8 DEF Start
  <2>2. Place' < Place
    BY <2>1 DEF Place
  <2> QED BY <1>1, <2>2
<1>9. CASE Wait
  <2>1. At = "xen_wait" /\ At' \in {"xen_start", "xen_logout"}
    BY <1>9 DEF Wait
  <2>2. Place' < Place
    BY <2>1 DEF Place
  <2> QED BY <1>1, <2>2
<1>10. CASE DriverAnswer
  <2>1. \/ At = "xen_find" /\ At' = "xen_clean"
        \/ At = "xen_clean" /\ At' = "xen_wait"
        \/ At = "xen_hard" /\ At' = "xen_wait"
        \/ At = "xen_start" /\ At' = "xen_logout"
    BY <1>10 DEF DriverAnswer, OfTheDriver
  <2>2. Place' < Place
    BY <2>1 DEF Place
  <2> QED BY <1>1, <2>2
<1>11. CASE SessionInvalid
  <2>1. CASE NotLoggedIn
    BY <1>6, <2>1 DEF NotLoggedIn
  <2>2. CASE Retop([Top EXCEPT !.tries = Counted(@)]) /\ UNCHANGED pc
    <3>0. Requesting /\ doing = "send"
      BY <1>11 DEF SessionInvalid, Sending, Requesting
    <3>1. frames # <<>> /\ Top \in Frame /\ Top.tries \in 0..2 /\ Top.left \in 0..4
      BY <1>b, <3>0, Popped DEF Counts, Top, Frame
    <3> DEFINE f == [Top EXCEPT !.tries = Counted(@)]
    <3>2. f \in Frame /\ f.left = Top.left /\ f.tries = Top.tries + 1
      BY <3>1 DEF Counted, Frame
    <3>3. 4 * f.left - f.tries < 4 * Top.left - Top.tries
      BY <3>1, <3>2
    <3>4. frames' = <<f>> \o Tail(frames)
      BY <2>2 DEF Retop
    <3> HIDE DEF f
    <3> QED BY <1>3, <2>2, <3>1, <3>2, <3>3, <3>4
  <2> QED BY <1>11, <2>1, <2>2 DEF SessionInvalid
<1>12. CASE RequestFails
  BY <1>7, <1>12 DEF RequestFails
<1>13. CASE VersionAnswer
  <2>1. /\ frames # <<>> /\ Top \in Frame /\ Top.left \in 1..4 /\ Top.tries \in 0..3
        /\ doing = "send"
    BY <1>13, <1>b, Popped DEF VersionAnswer, Sending, Counts, Requesting, Top, Frame
  <2>2. CASE At = "xen_login" /\ Begin("xen_find")
    BY <1>1, <2>2 DEF Place
  <2>3. CASE Throw("raised")
    BY <1>6, <2>3
  <2>4. CASE Tail(frames) # <<>> /\ frames' = Tail(frames) /\ UNCHANGED <<pc, doing>>
    BY <1>4, <2>1, <2>4
  <2>5. CASE Retop([tries |-> 0, left |-> Top.left - 1]) /\ UNCHANGED pc
    <3> DEFINE f == [tries |-> 0, left |-> Top.left - 1]
    <3>1. f \in Frame /\ f.left = Top.left - 1 /\ f.tries = 0
      BY <2>1 DEF Frame
    <3>2. 4 * f.left - f.tries < 4 * Top.left - Top.tries
      BY <2>1, <3>1
    <3>3. frames' = <<f>> \o Tail(frames)
      BY <2>5 DEF Retop
    <3> HIDE DEF f
    <3> QED BY <1>3, <2>1, <2>5, <3>1, <3>2, <3>3
  <2> QED BY <1>13, <2>2, <2>3, <2>4, <2>5 DEF VersionAnswer, LoginReturns
<1>14. CASE LoginAnswer
  <2>1. Phase = 3 /\ Phase' = 2
    BY <1>14 DEF LoginAnswer, LoggingIn, Phase
  <2> QED BY <1>2, <1>14, <2>1 DEF LoginAnswer
<1>15. CASE LoginFails
  BY <1>7, <1>15 DEF LoginFails
<1>16. CASE Bind
  <2>1. CASE Throw("raised") \/ Throw("interrupted")
    BY <1>6, <2>1
  <2>2. CASE frames' = <<OfLogin>> \o frames /\ UNCHANGED pc
    <3>1. OfLogin \in Frame
      BY DEF OfLogin, Frame
    <3> QED BY <1>5, <1>16, <2>2, <3>1 DEF Bind
  <2> QED BY <1>16, <2>1, <2>2 DEF Bind
<1>17. CASE Logout
  <2>1. At = "xen_logout" /\ At' \in P!Ended
    BY <1>17 DEF Logout, LogoutAnswer, LogoutWithoutLogin, LogoutFails, Sound
  <2>2. Place' < Place
    BY <2>1 DEF Place
  <2> QED BY <1>1, <2>2
<1>18. CASE StruckBeforeBlock \/ Kill
  <2>1. /\ At \in CallLabels \ (P!Ended \cup {"idle"})
        /\ At' \in {"interrupted", "killed"}
    BY <1>18 DEF StruckBeforeBlock, Kill, Sound, At
  <2>2. Place' < Place
    BY <2>1 DEF Place
  <2> QED BY <1>1, <2>2
<1>19. CASE Expire \/ UNCHANGED vars
  BY <1>19 DEF Expire, vars
<1> QED
  BY <1>8, <1>9, <1>10, <1>11, <1>12, <1>13, <1>14, <1>15, <1>16, <1>17, <1>18, <1>19
     DEF Next, CallStep, Request

\* Whatever the bound on the nesting is, no request of the call and no login is
\* made in vain: CallEnds adds to this only that the process runs.
THEOREM StepsDescend == Spec => EveryStepDescends /\ []Finite
<1>1. Sound /\ Counts /\ [Next]_vars
        => [UNCHANGED <<pc, call>> \/ Descends]_vars
  BY CallDescends
<1> QED BY <1>1, AheadIsFinite, SoundKept, CountsStep, CountsInit, PTL
        DEF Spec, EveryStepDescends
=============================================================================
