----------------------------- MODULE XenSession -----------------------------
(***************************************************************************)
(* One call of xenapi_reboot with the requests of its XenAPI.Session: what *)
(* PowerDrivers takes for one request is here a loop.  A request that the  *)
(* server refuses with SESSION_INVALID is sent again after a new login, up *)
(* to three times; a login reads the server's version with four requests   *)
(* of its own, each of which may find the session invalid again, and so    *)
(* on, down to Python's recursion limit.                                   *)
(*                                                                         *)
(* The server may end a session at any time.  A request is answered, finds *)
(* its session invalid, or raises (a Failure, a network error, the soft    *)
(* limit) with or without effect at the server.                            *)
(***************************************************************************)
EXTENDS Naturals, Sequences

CONSTANT MaxDepth    \* how many requests fit into Python's recursion limit

ASSUME MaxDepthAssumption == MaxDepth \in Nat \ {0}

VARIABLES
  pc, pending, limited, power, everOn, owes, restarted,    \* as in PowerDrivers
  frames,    \* the xenapi_requests in progress, the innermost first
  doing,     \* what the innermost does: send, log in, or bind the login's result
  held,      \* self._session: none, or one the server knows or has ended
  method,    \* has self.last_login_method a value?
  fate,      \* the session's, once _logout has forgotten it
  missed,    \* was a login, the way into the block or a logout cut short?
  stray      \* has the server a session that nobody holds any more?

call == <<frames, doing>>
client == <<held, method, fate>>
device == <<power, everOn, owes, restarted>>
vars == <<pc, pending, limited, device, call, client, missed, stray>>

Me == "call"
At == pc[Me]

\* The session as the driver sees it between its own steps.
Seen == IF At \in {"idle", "xen_login"} \/ (held = "none" /\ fate = "none") THEN "none"
        ELSE IF fate # "none" THEN fate ELSE "open"

P == INSTANCE PowerDrivers WITH
       Jobs <- {Me}, Fleets <- {{"xen"}},
       driver <- [j \in {Me} |-> "xen"], typed <- FALSE,
       argument <- [j \in {Me} |-> "name"], session <- [j \in {Me} |-> Seen]

\* The driver's requests: what they do to the VM, and where their answer leads.
Command == [xen_find |-> "nothing", xen_clean |-> "halt", xen_hard |-> "halt",
            xen_start |-> "start"]
Answered == [xen_find |-> "xen_clean", xen_clean |-> "xen_wait",
             xen_hard |-> "xen_wait", xen_start |-> "xen_logout"]

\* A request with its retry_count: the driver's, or one of the "left" requests
\* that a login still has to make for the version.
Frame == [tries : 0..3, left : 0..4]
OfDriver == [tries |-> 0, left |-> 0]
OfLogin == [tries |-> 0, left |-> 4]

TypeOK ==
  /\ P!TypeOK
  /\ frames \in Seq(Frame) /\ Len(frames) <= MaxDepth
  /\ doing \in {"send", "login", "bind"}
  /\ held \in {"none", "valid", "invalid"} /\ method \in BOOLEAN
  /\ fate \in {"none", "closed", "lost"}
  /\ missed \in BOOLEAN /\ stray \in BOOLEAN

Init ==
  /\ P!Init
  /\ frames = <<>> /\ doing = "login"
  /\ held = "none" /\ method = FALSE /\ fate = "none"
  /\ missed = FALSE /\ stray = FALSE

-----------------------------------------------------------------------------
(* The driver, between its requests.                                       *)

Begin(label) == /\ P!Goto(Me, label)
                /\ frames' = IF label \in DOMAIN Command THEN <<OfDriver>> ELSE <<>>
                /\ doing' = "send"

Leave(how) == /\ P!Leave(Me, how)
              /\ frames' = <<>> /\ doing' = "send"

\* Where an exception out of the request leads: xen_session swallows that of
\* the login, the driver that of the clean shutdown.
Throw(how) ==
  \/ At = "xen_login" /\ Begin("xen_find") /\ UNCHANGED pending
  \/ At = "xen_clean" /\ Begin("xen_hard") /\ UNCHANGED pending
  \/ At \in {"xen_find", "xen_hard", "xen_start"} /\ Leave(how)

Start ==
  /\ At = "idle"
  /\ P!Goto(Me, "xen_login") \/ P!Goto(Me, "raised")
  /\ UNCHANGED <<pending, limited, device, call, client, missed, stray>>

Wait ==
  /\ At = "xen_wait"
  /\ \/ Begin("xen_start") /\ UNCHANGED <<pending, limited>>
     \/ P!NotStruck(Me) /\ Leave("interrupted")
  /\ UNCHANGED <<device, client, missed, stray>>

\* An ordinary exception, or the soft limit.
Fails == \/ Throw("raised") /\ UNCHANGED limited
         \/ P!NotStruck(Me) /\ Throw("interrupted")

-----------------------------------------------------------------------------
(* xenapi_request.                                                         *)

Top == Head(frames)
Sending == At \in {"xen_login"} \cup DOMAIN Command /\ doing = "send"
OfTheDriver == At \in DOMAIN Command /\ Top.left = 0
Retop(frame) == frames' = <<frame>> \o Tail(frames)

DriverAnswer ==
  /\ Sending /\ OfTheDriver /\ held = "valid"
  /\ IF Command[At] = "nothing" THEN UNCHANGED device ELSE P!Effect(Me, Command[At])
  /\ IF At = "xen_start" THEN Leave("returned")
     ELSE Begin(Answered[At]) /\ UNCHANGED pending
  /\ UNCHANGED <<limited, client, missed, stray>>

\* A retry_count that is never raised.
Uncounted(tries) == tries
Counted(tries) == tries + 1

\* The marker for "reconnect", returned to the driver as if it were the VM.
GoOnWithout == /\ At = "xen_find"
               /\ Begin(Answered[At]) /\ UNCHANGED <<pending, limited>>

\* There is nothing to log in with.
NotLoggedIn == Throw("raised") /\ UNCHANGED limited

SessionInvalid ==
  /\ Sending /\ held # "valid"
  /\ \/ /\ method
        /\ Retop([Top EXCEPT !.tries = Counted(@)]) /\ doing' = "login"
        /\ UNCHANGED <<pc, pending, limited>>
     \/ ~method /\ NotLoggedIn
  /\ UNCHANGED <<device, client, missed, stray>>

\* The request raises; one of the driver's own may have had its effect.
RequestFails ==
  /\ Sending
  /\ \/ UNCHANGED device
     \/ /\ OfTheDriver /\ held = "valid" /\ Command[At] # "nothing"
        /\ P!Effect(Me, Command[At])
  /\ Fails
  /\ UNCHANGED <<client, missed, stray>>

\* One retry more than retry_count < 3 allows.
SpentLater(tries) == tries > 3
Spent(tries) == tries >= 3

\* The login returns; a request that was refused three times gives up now.
LoginReturns ==
  \/ /\ At = "xen_login" /\ Tail(frames) = <<>>
     /\ Begin("xen_find") /\ UNCHANGED <<pending, limited>>
  \/ /\ Tail(frames) # <<>> /\ ~Spent(Head(Tail(frames)).tries)
     /\ frames' = Tail(frames) /\ UNCHANGED <<pc, pending, limited, doing>>
  \/ /\ Tail(frames) # <<>> /\ Spent(Head(Tail(frames)).tries)
     /\ Throw("raised") /\ UNCHANGED limited

VersionAnswer ==
  /\ Sending /\ Top.left > 0 /\ held = "valid"
  /\ IF Top.left = 1 THEN LoginReturns
     ELSE /\ Retop([tries |-> 0, left |-> Top.left - 1])
          /\ UNCHANGED <<pc, pending, limited, doing>>
  /\ UNCHANGED <<device, client, missed, stray>>

-----------------------------------------------------------------------------
(* _login: the session, then the method, then the version.                 *)

LoggingIn == At \in {"xen_login"} \cup DOMAIN Command /\ doing = "login"

LoginAnswer ==
  /\ LoggingIn
  /\ held' = "valid" /\ doing' = "bind"
  /\ stray' = (stray \/ held = "valid")
  /\ UNCHANGED <<pc, pending, limited, device, frames, method, fate, missed>>

\* The server may have opened a session whose id never arrives.
LoginFails ==
  /\ LoggingIn
  /\ stray' \in {stray, TRUE} /\ missed' = TRUE
  /\ Fails
  /\ UNCHANGED <<device, client>>

\* Were the method set after the version has been read.
BindLater == UNCHANGED method
BindMethod == method' = TRUE

Bind ==
  /\ At \in {"xen_login"} \cup DOMAIN Command /\ doing = "bind"
  /\ \/ /\ BindMethod
        /\ \/ /\ Len(frames) < MaxDepth
              /\ frames' = <<OfLogin>> \o frames /\ doing' = "send"
              /\ UNCHANGED <<pc, pending, limited>>
           \/ /\ Len(frames) = MaxDepth               \* RecursionError
              /\ Throw("raised") /\ UNCHANGED limited
        /\ UNCHANGED missed
     \/ /\ P!NotStruck(Me) /\ Throw("interrupted")
        /\ missed' = TRUE /\ UNCHANGED method
  /\ UNCHANGED <<device, held, fate, stray>>

-----------------------------------------------------------------------------
(* _logout, in the finally of xen_session; it forgets the session anyhow.   *)

Forget == held' = "none" /\ method' = FALSE

LogoutAnswer ==
  /\ At = "xen_logout" /\ method
  /\ P!Goto(Me, pending[Me])
  /\ Forget /\ fate' = "closed"
  /\ UNCHANGED <<pending, limited, device, call, missed, stray>>

\* None has no startswith.
LogoutWithoutLogin ==
  /\ At = "xen_logout" /\ ~method
  /\ P!Goto(Me, "raised")
  /\ Forget /\ fate' = IF held = "none" THEN "none" ELSE "lost"
  /\ stray' = (stray \/ held = "valid")
  /\ UNCHANGED <<pending, limited, device, call, missed>>

LogoutFails ==
  /\ At = "xen_logout"
  /\ \/ method /\ P!Goto(Me, "raised") /\ UNCHANGED limited
     \/ P!NotStruck(Me) /\ P!Goto(Me, "interrupted")
  /\ Forget /\ fate' = IF held = "none" THEN "none" ELSE "lost"
  /\ stray' \in {stray, stray \/ held = "valid"} /\ missed' = TRUE
  /\ UNCHANGED <<pending, device, call>>

-----------------------------------------------------------------------------
\* Once the login has returned or raised, the soft limit may strike between the
\* "try" around it and the one with the finally: nobody logs out.
StruckBeforeBlock ==
  /\ At = "xen_login" /\ (doing = "bind" => Len(frames) = MaxDepth)
  /\ P!NotStruck(Me) /\ P!Goto(Me, "interrupted")
  /\ Forget /\ fate' = IF held = "none" THEN "none" ELSE "lost"
  /\ \/ stray' = (stray \/ held = "valid")
     \/ LoggingIn /\ stray' = TRUE
  /\ missed' = TRUE
  /\ UNCHANGED <<pending, device, call>>

\* The process dies, and what it knew with it.
Kill ==
  /\ At \notin P!Ended \cup {"idle"}
  /\ P!Goto(Me, "killed")
  /\ Forget
  /\ fate' = IF At # "xen_login" /\ held # "none" THEN "lost" ELSE "none"
  /\ stray' = (stray \/ held = "valid") /\ missed' = TRUE
  /\ UNCHANGED <<pending, limited, device, call>>

\* The server ends the session: a restart, a time-out, too many sessions.
Expire ==
  /\ held = "valid" /\ held' = "invalid"
  /\ UNCHANGED <<pc, pending, limited, device, call, method, fate, missed, stray>>

Request == \/ DriverAnswer \/ SessionInvalid \/ RequestFails \/ VersionAnswer
           \/ LoginAnswer \/ LoginFails \/ Bind
Logout == LogoutAnswer \/ LogoutWithoutLogin \/ LogoutFails
CallStep == Start \/ Wait \/ Request \/ StruckBeforeBlock \/ Logout \/ Kill

Next == CallStep \/ Expire

\* The process runs, and a request that is not answered meets the limits.
Spec == Init /\ [][Next]_vars /\ WF_vars(CallStep)

-----------------------------------------------------------------------------
(* What the session promises.                                              *)

\* However often the server ends the session, and wherever in the nested
\* requests and logins it does, the call leaves no session behind at the
\* server unless a login, the few steps from there into the block or a logout
\* was cut short (XenAPI.py:173-200 sets the session, the method and the version
\* one after the other).
NoSessionLeftBehind == At \in P!Ended /\ ~missed => ~stray /\ held = "none"

\* The retries come to an end even when the server ends every session at once
\* (151: a request is sent three times at most, and the nesting is bounded).
CallEnds == <>(At \in P!Ended)

\* How much the call has before it, level by level: the driver's requests are
\* level 0, each request in progress has the level of its nesting.  A level has
\* its requests and their retries ahead, and one login at a time on the way.
Place == CASE At = "idle" -> 8 [] At = "xen_login" -> 7 [] At = "xen_find" -> 6
           [] At = "xen_clean" -> 5 [] At = "xen_hard" -> 4 [] At = "xen_wait" -> 3
           [] At = "xen_start" -> 2 [] At = "xen_logout" -> 1 [] OTHER -> 0
Phase == CASE doing = "login" -> 3 [] doing = "bind" -> 2 [] doing = "send" -> 0
Level(d) == frames[Len(frames) + 1 - d]
Turns(d) == IF d = 0 THEN Place ELSE 4 * Level(d).left + 3 - Level(d).tries
Ahead(d) == IF d > Len(frames) THEN 0
            ELSE 4 * Turns(d) + IF d = Len(frames) THEN Phase ELSE 1
Descends == \E d \in 0..MaxDepth : /\ Ahead(d)' < Ahead(d)
                                   /\ \A e \in 0..(d - 1) : Ahead(e)' = Ahead(e)

\* No step of the call is in vain, whatever the server refuses: some level comes
\* nearer to its end and the levels around it, which a nested login could set
\* back (164: it has retries of its own), stay as they are.
EveryStepDescends == [][UNCHANGED <<pc, call>> \/ Descends]_vars

\* With all of its retries and logins the call is one xenapi_reboot of
\* PowerDrivers, where each request is one step.
ImplementsDriver == P!Spec
=============================================================================
