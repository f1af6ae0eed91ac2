--------------------------- MODULE DesktopProofs ---------------------------
(***************************************************************************)
(* One owner of the Ghidra project, outcomes that are true and requests    *)
(* that run once, for any number of operations, attempts and desktops.     *)
(***************************************************************************)
EXTENDS Desktop, TLAPS

\* DesktopTypeOK in two parts: what the server keeps, and what is outside of it.
TypedServer ==
    /\ gui \in BOOLEAN /\ status \in [Ops -> Statuses]
    /\ handler \in [at : {"idle", "route", "dispatch", "status", "launch", "install",
                          "send", "wait", "headless", "open", "compile", "note", "opening"},
                    op : Ops \cup {None}, id : 0 .. tries, desktop : 0 .. MaxDesktops]
    /\ At("idle") => handler = Idle
    /\ tries \in 0 .. MaxTries /\ stops \in 0 .. MaxStops

TypedOutside ==
    /\ desktops \in [Desktops -> {"none", "launched", "open", "closed", "gone"}]
    /\ launch \in 0 .. MaxDesktops /\ fresh \in BOOLEAN
    /\ session \in [desktop : 0 .. MaxDesktops, ready : BOOLEAN]
    /\ requests \subseteq [id : 1 .. tries, op : Ops \cup {None}, desktop : Desktops]
    /\ cancels \subseteq 1 .. tries /\ answers \subseteq [id : 1 .. tries, ok : BOOLEAN]
    /\ running = Nothing \/ running \in
            [id : 1 .. tries, op : Ops \cup {None},
             at : {"script", "save", "done", "failed", "answered"}]
    /\ memory \subseteq Ops /\ saved \subseteq Ops
    /\ headless \subseteq [id : 1 .. tries, op : Ops, at : {"started", "open", "saved"}]
    /\ ran \subseteq [id : 1 .. tries, made : Desktops, in : Desktops]
    /\ forgotten \subseteq Desktops

LEMMA TypesInParts == DesktopTypeOK <=> TypedServer /\ TypedOutside /\ late \in BOOLEAN
BY DEF DesktopTypeOK, TypedServer, TypedOutside

\* What a handler has at each of its steps, before its request or process exists.
Preparing == {"route", "open", "compile", "note", "opening", "dispatch", "status", "launch",
              "install", "send"}

\* A handler is one attempt at its operation, or at the window.
HandlerIsAnAttempt ==
    /\ ~At("idle") => handler.id = tries /\ tries > 0
    /\ handler.at \in {"route", "dispatch", "status", "launch", "install", "headless"}
        => handler.op \in Ops
    /\ handler.at \in {"send", "wait", "note"} => handler.desktop \in Desktops
    /\ handler.op \in Ops => status[handler.op] = "applying"

\* launch.json knows the desktops that run, except those that were forgotten.
LaunchesAreKnown ==
    /\ launch # 0 => desktops[launch] # "none"
    /\ handler.at \in {"compile", "note"} => ~Alive(launch)
    /\ At("note") => desktops[handler.desktop] # "none"
    /\ \A d \in Desktops :
        Alive(d) => \/ d \in forgotten \/ d = launch
                    \/ At("note") /\ handler.desktop = d

\* One process has the project open, and a desktop never holds less than is saved.
OneOwner ==
    /\ \A d, e \in Desktops : desktops[d] = "open" /\ desktops[e] = "open" => d = e
    /\ \A h \in headless : \A d \in Desktops : h.at # "started" => desktops[d] # "open"
    /\ \A d \in Desktops : desktops[d] = "open" => saved \subseteq memory
    /\ running # Nothing => \E d \in Desktops : desktops[d] = "open"

\* A request, its execution and a headless process are the handler's if they have its id.
IdsAreUnique ==
    /\ \A q, p \in requests : q.id = p.id => q = p
    /\ ~At("idle") =>
        /\ \A p \in requests \cup headless \cup {running} :
            p.id = handler.id => p.op = handler.op
        /\ handler.at \in Preparing =>
            \A x \in requests \cup headless \cup {running} \cup answers \cup ran :
                x.id # handler.id

\* What is known of an operation once its script has run.
ProgressIsTrue ==
    /\ running.at = "save" => running.op \in memory
    /\ running.at = "done" => running.op \in saved \cup {None}
    /\ \A h \in headless : h.at = "saved" => h.op \in saved
    /\ At("wait") => \A a \in answers :
        a.id = handler.id /\ a.ok => handler.op \in saved \cup {None}

\* A request that has been executed is being answered, or its desktop is over.
ExecutedOnce ==
    /\ \A q \in requests : \A x \in ran :
        x.id = q.id => running.id = q.id \/ desktops[q.desktop] \in {"closed", "gone"}
    /\ \A q \in requests : running.id = q.id => desktops[q.desktop] = "open"

\* A session that dispatch has not seen came late, and without one it knows every desktop
\* but the forgotten.
LooksAreTrue ==
    /\ handler.at \in {"status", "launch", "install"} => late \/ session.desktop = 0
    /\ At("install") => late \/ \A d \in Desktops : Alive(d) => d \in forgotten

Inv ==
    /\ DesktopTypeOK /\ HandlerIsAnAttempt /\ LaunchesAreKnown /\ OneOwner /\ LooksAreTrue
    /\ IdsAreUnique /\ ProgressIsTrue /\ OutcomesAreTrue /\ ExecutedOnce /\ NoReplay

\* A handler keeps to its steps.
LEMMA ServerStay ==
    ASSUME TypedServer, TypedOutside, HandlerIsAnAttempt, [Next]_vars
    PROVE  TypedServer'
<1> USE DesktopAssumption DEF TypedServer, TypedOutside, HandlerIsAnAttempt, At, Desktops,
                              Statuses, Idle
<1>1. ASSUME UNCHANGED <<gui, status, handler, tries, stops>> PROVE TypedServer'
    BY <1>1
<1>2. ASSUME NEW o \in Ops, Begin(o) PROVE TypedServer'
  <2>1. /\ handler' = [at |-> "route", op |-> o, id |-> tries + 1, desktop |-> 0]
        /\ tries' = tries + 1 /\ tries < MaxTries /\ UNCHANGED <<gui, stops>>
        /\ status' \in [Ops -> Statuses]
      BY <1>2 DEF Begin
  <2>2. tries' \in 0 .. MaxTries /\ handler'.id \in 0 .. tries' /\ 0 \in 0 .. MaxDesktops
      BY <2>1
  <2> QED BY <2>1, <2>2
<1>3. CASE OpenWindow
  <2>1. /\ handler' = [at |-> "open", op |-> None, id |-> tries + 1, desktop |-> 0]
        /\ tries' = tries + 1 /\ tries < MaxTries /\ UNCHANGED <<gui, stops>>
        /\ status' \in [Ops -> Statuses]
      BY <1>3 DEF OpenWindow
  <2>2. tries' \in 0 .. MaxTries /\ handler'.id \in 0 .. tries' /\ 0 \in 0 .. MaxDesktops
      BY <2>1
  <2> QED BY <2>1, <2>2
<1>4. CASE Dropped
    BY <1>4 DEF Dropped, Forget, bridge, native
<1>5. CASE RouteToWindow \/ RouteOn \/ RouteToStatus \/ RouteStatus \/ RouteClear
  <2>1. CASE RouteToWindow
      BY <2>1 DEF RouteToWindow, Look, Go, NoSession, bridge, native
  <2>2. CASE RouteOn
      BY <2>2 DEF RouteOn, Go, bridge, native
  <2>3. CASE RouteToStatus
      BY <2>3 DEF RouteToStatus, Look, Go, NoSession, bridge, native
  <2>4. CASE RouteStatus
      BY <2>4 DEF RouteStatus, Look, Go, NoSession, bridge, native
  <2>5. CASE RouteClear
      BY <2>5 DEF RouteClear, Go, bridge, native
  <2> QED BY <1>5, <2>1, <2>2, <2>3, <2>4, <2>5
<1>6. CASE RouteToDesktop
    BY <1>6 DEF RouteToDesktop, Session, Alive, bridge, native
<1>7. CASE RouteToHeadless
    BY <1>7 DEF RouteToHeadless, Go, bridge, native
<1>8. CASE RouteRefused
    BY <1>8 DEF RouteRefused, Fails, Report, bridge, native
<1>9. CASE Send
    BY <1>9 DEF Send, Go, bridge, native
<1>10. CASE SeeAnswer
    BY <1>10 DEF SeeAnswer, Report, bridge, native
<1>11. CASE SeeDesktopLost
    BY <1>11 DEF SeeDesktopLost, Look, Fails, Report, bridge, native
<1>12. CASE GiveUp
    BY <1>12 DEF GiveUp, Fails, Report, bridge, native
<1>13. CASE OpenAgain
    BY <1>13 DEF OpenAgain, Session, Alive, bridge, native
<1>14. CASE OpenCompile
    BY <1>14 DEF OpenCompile, Look, Go, NoSession, bridge, native
<1>15. CASE OpenSpawn
  <2>1. PICK d \in Desktops : handler' = [handler EXCEPT !.at = "note", !.desktop = d]
      BY <1>15 DEF OpenSpawn
  <2>2. handler' = [at |-> "note", op |-> handler.op, id |-> handler.id, desktop |-> d]
      BY <2>1
  <2> QED BY <1>15, <2>2 DEF OpenSpawn, bridge
<1>16. CASE OpenNote
    BY <1>16 DEF OpenNote, Go, bridge, native
<1>17. CASE OpenDone
    BY <1>17 DEF OpenDone, Report, Go, Session, Alive, bridge, native
<1>18. CASE OpenFails
    BY <1>18 DEF OpenFails, Look, Fails, Report, Forget, NoSession, bridge, native
<1>19. CASE HeadlessStopped
    BY <1>19 DEF HeadlessStopped, Fails, Report, Waited, bridge, native
<1>20. ASSUME NEW h \in headless, HeadlessEnds(h) PROVE TypedServer'
    BY <1>20 DEF HeadlessEnds, Report, Waited, bridge, native
<1>21. CASE Stop
    BY <1>21 DEF Stop, Forget, bridge, native
<1> QED BY <1>1, <1>2, <1>3, <1>4, <1>5, <1>6, <1>7, <1>8, <1>9, <1>10, <1>11, <1>12, <1>13,
    <1>14, <1>15, <1>16, <1>17, <1>18, <1>19, <1>20, <1>21
      DEF Next, Calls, HandlerStep, Routing, Requesting, Opening, HeadlessStep, DesktopStep,
         Running, vars, bridge, native, HeadlessOpens, HeadlessSaves, DesktopOpens,
         Heartbeat, DropForeign, TakeUp, UserSaves, UserCloses, DesktopEnds, HeartbeatLate,
         RunScript, RunSave, RunFails, RunAnswer, RunEnds, SetHeadless, Then

\* Every file, process and execution names an attempt that was made.
LEMMA OutsideStay ==
    ASSUME TypedServer, TypedOutside, HandlerIsAnAttempt, [Next]_vars
    PROVE  TypedOutside'
<1> USE DesktopAssumption DEF TypedServer, TypedOutside, HandlerIsAnAttempt, At, Desktops,
                              NoSession, Nothing
<1>1. ASSUME UNCHANGED <<tries, launch, session, fresh, requests, cancels, answers,
    desktops, running, memory, saved, headless, ran, forgotten>> PROVE TypedOutside'
    BY <1>1
<1>2. ASSUME NEW o \in Ops, Begin(o) PROVE TypedOutside'
    BY <1>2 DEF Begin, bridge, native
<1>3. CASE OpenWindow
    BY <1>3 DEF OpenWindow, bridge, native
<1>4. CASE Dropped
    BY <1>4 DEF Dropped, Forget, bridge, native
<1>5. CASE RouteToWindow \/ RouteOn \/ RouteToStatus \/ RouteStatus \/ RouteClear
  <2>1. CASE RouteToWindow
      BY <2>1 DEF RouteToWindow, Look, Go, NoSession, bridge, native
  <2>2. CASE RouteOn
      BY <2>2 DEF RouteOn, Go, bridge, native
  <2>3. CASE RouteToStatus
      BY <2>3 DEF RouteToStatus, Look, Go, NoSession, bridge, native
  <2>4. CASE RouteStatus
      BY <2>4 DEF RouteStatus, Look, Go, NoSession, bridge, native
  <2>5. CASE RouteClear
      BY <2>5 DEF RouteClear, Go, bridge, native
  <2> QED BY <1>5, <2>1, <2>2, <2>3, <2>4, <2>5
<1>6. CASE RouteToHeadless
    BY <1>6 DEF RouteToHeadless, Go, bridge, native
<1>7. CASE RouteRefused
    BY <1>7 DEF RouteRefused, Fails, Report, Idle, bridge, native
<1>8. CASE Send
    BY <1>8 DEF Send, Go, bridge, native
<1>9. CASE SeeAnswer
    BY <1>9 DEF SeeAnswer, Report, Idle, bridge, native
<1>10. CASE SeeDesktopLost
    BY <1>10 DEF SeeDesktopLost, Look, Fails, Report, Idle, bridge, native
<1>11. CASE GiveUp
  <2>1. handler.id \in 1 .. tries
      BY <1>11 DEF GiveUp
  <2>2. cancels' \subseteq 1 .. tries
      BY <1>11, <2>1 DEF GiveUp
  <2> QED BY <1>11, <2>2 DEF GiveUp, native
<1>12. CASE OpenCompile
    BY <1>12 DEF OpenCompile, Look, Go, bridge, native
<1>13. CASE OpenSpawn
    BY <1>13 DEF OpenSpawn, bridge, native
<1>14. CASE OpenNote
    BY <1>14 DEF OpenNote, Go, bridge, native
<1>15. CASE OpenFails
  <2>1. session' = session \/ session' = [desktop |-> 0, ready |-> FALSE]
      BY <1>15 DEF OpenFails, Look
  <2>2. session' \in [desktop : 0 .. MaxDesktops, ready : BOOLEAN]
    <3>1. [desktop |-> 0, ready |-> FALSE] \in [desktop : 0 .. MaxDesktops, ready : BOOLEAN]
        OBVIOUS
    <3> QED BY <2>1, <3>1, Zenon
  <2>3. forgotten' \subseteq Desktops
      BY <1>15 DEF OpenFails, Forget
  <2> QED BY <1>15, <2>2, <2>3 DEF OpenFails, native
<1>16. CASE HeadlessStopped
    BY <1>16 DEF HeadlessStopped, Fails, Report, Idle, Waited, bridge, native
<1>17. ASSUME NEW h \in headless, HeadlessOpens(h) PROVE TypedOutside'
    BY <1>17 DEF HeadlessOpens, SetHeadless, Locked, bridge, native
<1>18. ASSUME NEW h \in headless, HeadlessSaves(h) PROVE TypedOutside'
    BY <1>18 DEF HeadlessSaves, SetHeadless, bridge, native
<1>19. ASSUME NEW h \in headless, HeadlessEnds(h) PROVE TypedOutside'
    BY <1>19 DEF HeadlessEnds, Report, Idle, Waited, bridge, native
<1>20. ASSUME NEW d \in Desktops, DesktopOpens(d) PROVE TypedOutside'
    BY <1>20 DEF DesktopOpens, Locked, bridge, native
<1>21. ASSUME NEW d \in Desktops, Heartbeat(d) PROVE TypedOutside'
    BY <1>21 DEF Heartbeat, bridge, native
<1>22. ASSUME NEW d \in Desktops, DropForeign(d) PROVE TypedOutside'
    BY <1>22 DEF DropForeign, bridge, native
<1>23. ASSUME NEW d \in Desktops, TakeUp(d) PROVE TypedOutside'
    BY <1>23 DEF TakeUp, Foreign, bridge, native
<1>24. ASSUME NEW d \in Desktops, UserSaves(d) PROVE TypedOutside'
    BY <1>24 DEF UserSaves, bridge, native
<1>25. ASSUME NEW d \in Desktops, UserCloses(d) PROVE TypedOutside'
    BY <1>25 DEF UserCloses, bridge, native
<1>26. ASSUME NEW d \in Desktops, DesktopEnds(d) PROVE TypedOutside'
  <2>1. session' = session \/ session' = [desktop |-> 0, ready |-> FALSE]
      BY <1>26 DEF DesktopEnds
  <2>2. session' \in [desktop : 0 .. MaxDesktops, ready : BOOLEAN]
    <3>1. [desktop |-> 0, ready |-> FALSE] \in [desktop : 0 .. MaxDesktops, ready : BOOLEAN]
        OBVIOUS
    <3> QED BY <2>1, <3>1, Zenon
  <2>3. desktops' \in [Desktops -> {"none", "launched", "open", "closed", "gone"}]
      BY <1>26 DEF DesktopEnds
  <2>4. (running' = Nothing \/ running' = running) /\ memory' \subseteq Ops
      BY <1>26 DEF DesktopEnds
  <2> QED BY <1>26, <2>2, <2>3, <2>4 DEF DesktopEnds
<1>27. CASE HeartbeatLate
    BY <1>27 DEF HeartbeatLate, bridge, native
<1>28. CASE RunScript
    BY <1>28 DEF RunScript, Then, Save, bridge, native
<1>29. CASE RunSave
    BY <1>29 DEF RunSave, Then, bridge, native
<1>30. CASE RunFails
    BY <1>30 DEF RunFails, Then, bridge, native
<1>31. CASE RunAnswer
  <2>1. running.id \in 1 .. tries /\ (running.at = "done") \in BOOLEAN
      BY <1>31 DEF RunAnswer
  <2>2. answers' \subseteq [id : 1 .. tries, ok : BOOLEAN]
     <3>1. [id |-> running.id, ok |-> running.at = "done"] \in [id : 1 .. tries, ok :
        BOOLEAN]
        BY <2>1, Zenon
    <3>2. answers' = answers \cup {[id |-> running.id, ok |-> running.at = "done"]}
        BY <1>31 DEF RunAnswer
    <3> QED BY <3>1, <3>2, Zenon
  <2>3. running' \in [id : 1 .. tries, op : Ops \cup {None},
                    at : {"script", "save", "done", "failed", "answered"}]
      BY <1>31 DEF RunAnswer, Then
  <2> QED BY <1>31, <2>2, <2>3 DEF RunAnswer
<1>32. CASE RunEnds
    BY <1>32 DEF RunEnds, bridge, native
<1>33. CASE Stop
    BY <1>33 DEF Stop, Forget, bridge, native
<1> QED BY <1>1, <1>2, <1>3, <1>4, <1>5, <1>6, <1>7, <1>8, <1>9, <1>10, <1>11, <1>12, <1>13,
    <1>14, <1>15, <1>16, <1>17, <1>18, <1>19, <1>20, <1>21, <1>22, <1>23, <1>24, <1>25,
    <1>26, <1>27, <1>28, <1>29, <1>30, <1>31, <1>32, <1>33
      DEF Next, Calls, HandlerStep, Routing, Requesting, Opening, HeadlessStep, DesktopStep,
         Running, vars, bridge, native, RouteToDesktop, OpenAgain, OpenDone, Report, Go

LEMMA LateStays == late \in BOOLEAN /\ [Next]_vars => late' \in BOOLEAN
BY DEF Next, Calls, HandlerStep, Routing, Requesting, Opening, HeadlessStep, DesktopStep,
       Running, vars, Begin, OpenWindow, Dropped, RouteToWindow, RouteOn, RouteToDesktop,
       RouteToStatus, RouteStatus, RouteClear, RouteToHeadless, RouteRefused, Send, SeeAnswer,
       SeeDesktopLost, GiveUp, OpenAgain, OpenCompile, OpenSpawn, OpenNote, OpenDone,
       OpenFails, HeadlessStopped, HeadlessOpens, HeadlessSaves, HeadlessEnds, DesktopOpens,
       Heartbeat, DropForeign, TakeUp, UserSaves, UserCloses, DesktopEnds, HeartbeatLate,
       RunScript, RunSave, RunFails, RunAnswer, RunEnds, Stop, Forget

\* A handler begins with an id of its own and ends with a report.
LEMMA AttemptsStay ==
    ASSUME DesktopTypeOK, HandlerIsAnAttempt, [Next]_vars
    PROVE  HandlerIsAnAttempt'
<1> USE DesktopAssumption DEF DesktopTypeOK, HandlerIsAnAttempt, At, Desktops, Idle,
                              Statuses
<1>1. ASSUME UNCHANGED <<status, handler, tries>> PROVE HandlerIsAnAttempt'
    BY <1>1
<1>2. ASSUME NEW o \in Ops, Begin(o) PROVE HandlerIsAnAttempt'
    BY <1>2 DEF Begin, bridge, native
<1>3. CASE OpenWindow
    BY <1>3 DEF OpenWindow, bridge, native
<1>4. CASE Dropped
    BY <1>4 DEF Dropped, Forget, bridge, native
<1>5. CASE RouteToWindow \/ RouteOn \/ RouteToStatus \/ RouteStatus \/ RouteClear
    BY <1>5 DEF RouteToWindow, RouteOn, RouteToStatus, RouteStatus, RouteClear,
               Look, Go, NoSession, bridge, native
<1>6. CASE RouteToDesktop
    BY <1>6 DEF RouteToDesktop, Session, Alive, bridge, native
<1>7. CASE RouteToHeadless
    BY <1>7 DEF RouteToHeadless, Go, bridge, native
<1>8. CASE RouteRefused
    BY <1>8 DEF RouteRefused, Fails, Report, bridge, native
<1>9. CASE Send
    BY <1>9 DEF Send, Go, bridge, native
<1>10. CASE SeeAnswer
    BY <1>10 DEF SeeAnswer, Report, bridge, native
<1>11. CASE SeeDesktopLost
    BY <1>11 DEF SeeDesktopLost, Look, Fails, Report, bridge, native
<1>12. CASE GiveUp
    BY <1>12 DEF GiveUp, Fails, Report, bridge, native
<1>13. CASE OpenAgain
    BY <1>13 DEF OpenAgain, Session, Alive, bridge, native
<1>14. CASE OpenCompile
    BY <1>14 DEF OpenCompile, Look, Go, NoSession, bridge, native
<1>15. CASE OpenSpawn
    BY <1>15 DEF OpenSpawn, bridge, native
<1>16. CASE OpenNote
    BY <1>16 DEF OpenNote, Go, bridge, native
<1>17. CASE OpenDone
    BY <1>17 DEF OpenDone, Report, Go, Session, Alive, bridge, native
<1>18. CASE OpenFails
    BY <1>18 DEF OpenFails, Look, Fails, Report, Forget, NoSession, bridge, native
<1>19. CASE HeadlessStopped
    BY <1>19 DEF HeadlessStopped, Fails, Report, Waited, bridge, native
<1>20. ASSUME NEW h \in headless, HeadlessEnds(h) PROVE HandlerIsAnAttempt'
    BY <1>20 DEF HeadlessEnds, Report, Waited, bridge, native
<1>21. CASE Stop
    BY <1>21 DEF Stop, Forget, bridge, native
<1> QED BY <1>1, <1>2, <1>3, <1>4, <1>5, <1>6, <1>7, <1>8, <1>9, <1>10, <1>11, <1>12, <1>13,
    <1>14, <1>15, <1>16, <1>17, <1>18, <1>19, <1>20, <1>21
      DEF Next, Calls, HandlerStep, Routing, Requesting, Opening, HeadlessStep, DesktopStep,
         Running, vars, bridge, native, HeadlessOpens, HeadlessSaves, DesktopOpens,
         Heartbeat, DropForeign, TakeUp, UserSaves, UserCloses, DesktopEnds, HeartbeatLate,
         RunScript, RunSave, RunFails, RunAnswer, RunEnds, SetHeadless, Then

\* open starts a desktop only while the last one it noted is over.
LEMMA LaunchesStay ==
    ASSUME DesktopTypeOK, HandlerIsAnAttempt, LaunchesAreKnown, [Next]_vars
    PROVE  LaunchesAreKnown'
<1> USE DesktopAssumption DEF DesktopTypeOK, HandlerIsAnAttempt, LaunchesAreKnown, Alive,
                              At, Desktops, Idle, Forget
<1>1. ASSUME UNCHANGED <<handler, launch, desktops, forgotten>> PROVE LaunchesAreKnown'
    BY <1>1
<1>2. ASSUME NEW o \in Ops, Begin(o) PROVE LaunchesAreKnown'
    BY <1>2 DEF Begin, bridge, native
<1>3. CASE OpenWindow
    BY <1>3 DEF OpenWindow, bridge, native
<1>4. CASE Dropped
    BY <1>4 DEF Dropped, bridge, native
<1>5. CASE RouteToWindow \/ RouteOn \/ RouteToStatus \/ RouteStatus \/ RouteClear
    BY <1>5 DEF RouteToWindow, RouteOn, RouteToStatus, RouteStatus, RouteClear,
               Look, Go, NoSession, bridge, native
<1>6. CASE RouteToDesktop
    BY <1>6 DEF RouteToDesktop, Session, bridge, native
<1>7. CASE RouteToHeadless
    BY <1>7 DEF RouteToHeadless, Go, bridge, native
<1>8. CASE RouteRefused
    BY <1>8 DEF RouteRefused, Fails, Report, bridge, native
<1>9. CASE Send
    BY <1>9 DEF Send, Go, bridge, native
<1>10. CASE SeeAnswer
    BY <1>10 DEF SeeAnswer, Report, bridge, native
<1>11. CASE SeeDesktopLost
    BY <1>11 DEF SeeDesktopLost, Look, Fails, Report, bridge, native
<1>12. CASE GiveUp
    BY <1>12 DEF GiveUp, Fails, Report, bridge, native
<1>13. CASE OpenAgain
    BY <1>13 DEF OpenAgain, Session, bridge, native
<1>14. CASE OpenCompile
    BY <1>14 DEF OpenCompile, Look, Go, NoSession, bridge, native
<1>15. CASE OpenSpawn
    BY <1>15 DEF OpenSpawn, bridge, native
<1>16. CASE OpenNote
    BY <1>16 DEF OpenNote, Go, bridge, native
<1>17. CASE OpenDone
    BY <1>17 DEF OpenDone, Report, Go, Session, bridge, native
<1>18. CASE OpenFails
    BY <1>18 DEF OpenFails, Look, Fails, Report, NoSession, bridge, native
<1>19. CASE HeadlessStopped
    BY <1>19 DEF HeadlessStopped, Fails, Report, Waited, bridge, native
<1>20. ASSUME NEW h \in headless, HeadlessEnds(h) PROVE LaunchesAreKnown'
    BY <1>20 DEF HeadlessEnds, Report, Waited, bridge, native
<1>21. ASSUME NEW d \in Desktops, DesktopOpens(d) PROVE LaunchesAreKnown'
    BY <1>21 DEF DesktopOpens, Locked, bridge, native
<1>22. ASSUME NEW d \in Desktops, UserCloses(d) PROVE LaunchesAreKnown'
    BY <1>22 DEF UserCloses, bridge, native
<1>23. ASSUME NEW d \in Desktops, DesktopEnds(d) PROVE LaunchesAreKnown'
    BY <1>23 DEF DesktopEnds, bridge, native
<1>24. CASE Stop
    BY <1>24 DEF Stop, bridge, native
<1> QED BY <1>1, <1>2, <1>3, <1>4, <1>5, <1>6, <1>7, <1>8, <1>9, <1>10, <1>11, <1>12, <1>13,
    <1>14, <1>15, <1>16, <1>17, <1>18, <1>19, <1>20, <1>21, <1>22, <1>23, <1>24
      DEF Next, Calls, HandlerStep, Routing, Requesting, Opening, HeadlessStep, DesktopStep,
         Running, vars, bridge, native, HeadlessOpens, HeadlessSaves, Heartbeat,
         DropForeign, TakeUp, UserSaves, HeartbeatLate, RunScript, RunSave, RunFails,
         RunAnswer, RunEnds, SetHeadless, Then

\* What the handler has read stays so, but for a session that comes.
LEMMA LooksStay ==
    ASSUME DesktopTypeOK, LaunchesAreKnown, LooksAreTrue, [Next]_vars
    PROVE  LooksAreTrue'
<1> USE DesktopAssumption DEF DesktopTypeOK, LooksAreTrue, At, Alive, Desktops, NoSession
<1>1. ASSUME UNCHANGED <<handler, session, desktops, forgotten, late>> PROVE LooksAreTrue'
    BY <1>1
<1>2. ASSUME handler'.at \notin {"status", "launch", "install"} PROVE LooksAreTrue'
    BY <1>2
<1>3. CASE RouteToStatus
    BY <1>3 DEF RouteToStatus, Look, Go
<1>4. CASE RouteStatus
    BY <1>4 DEF RouteStatus, Look, Go, Session, bridge, native
<1>5. CASE RouteClear
    BY <1>5 DEF RouteClear, Go, MayRunHeadless, Starting, LaunchesAreKnown, bridge, native
<1>6. ASSUME NEW d \in Desktops, DesktopOpens(d) \/ UserCloses(d) \/ DesktopEnds(d)
      PROVE  LooksAreTrue'
    BY <1>6 DEF DesktopOpens, UserCloses, DesktopEnds, bridge
<1>7. ASSUME NEW d \in Desktops, Heartbeat(d) PROVE LooksAreTrue'
    BY <1>7 DEF Heartbeat, native
<1>8. CASE OpenWindow \/ Dropped \/ Stop \/ \E o \in Ops : Begin(o)
  <2>1. CASE Dropped \/ Stop
      BY <1>2, <2>1 DEF Dropped, Stop, Idle
  <2>2. CASE OpenWindow
      BY <1>2, <2>2 DEF OpenWindow, Idle
  <2>3. CASE \E o \in Ops : Begin(o)
      BY <1>2, <2>3 DEF Begin, Idle
  <2> QED BY <1>8, <2>1, <2>2, <2>3
<1>9. \A v : Go(v) => handler'.at = v
    BY DEF Go
<1>10. \A v : Report(v) => handler'.at = "idle"
    BY DEF Report, Idle
<1>11. CASE RouteToWindow \/ RouteOn \/ RouteToDesktop \/ RouteToHeadless \/ RouteRefused
  <2>1. CASE RouteToDesktop
      BY <1>2, <2>1 DEF RouteToDesktop
  <2>2. CASE RouteToWindow \/ RouteOn \/ RouteToHeadless \/ RouteRefused
      BY <1>2, <1>9, <1>10, <2>2 DEF RouteToWindow, RouteOn, RouteToHeadless, RouteRefused,
                                      Fails
  <2> QED BY <1>11, <2>1, <2>2
<1>12. CASE Requesting \/ HeadlessStopped
    BY <1>2, <1>9, <1>10, <1>12 DEF Requesting, Send, SeeAnswer, SeeDesktopLost, GiveUp,
                                   HeadlessStopped, Fails
<1>13. CASE Opening
  <2>1. CASE OpenCompile \/ OpenNote \/ OpenDone \/ OpenFails
      BY <1>2, <1>9, <1>10, <2>1 DEF OpenCompile, OpenNote, OpenDone, OpenFails, Fails
  <2>2. CASE OpenSpawn
      BY <1>2, <2>2 DEF OpenSpawn
  <2>3. CASE OpenAgain
      BY <1>2, <2>3 DEF OpenAgain
  <2> QED BY <1>13, <2>1, <2>2, <2>3 DEF Opening
<1>14. CASE HeadlessStep
  <2>1. ASSUME NEW h \in headless, HeadlessOpens(h) \/ HeadlessSaves(h) PROVE LooksAreTrue'
      BY <1>1, <2>1 DEF HeadlessOpens, HeadlessSaves, bridge
  <2>2. ASSUME NEW h \in headless, HeadlessEnds(h) PROVE LooksAreTrue'
      BY <1>1, <1>2, <2>2 DEF HeadlessEnds, Report, Idle, bridge
  <2> QED BY <1>14, <2>1, <2>2 DEF HeadlessStep
<1>15. CASE Running \/ HeartbeatLate
    BY <1>1, <1>15 DEF Running, RunScript, RunSave, RunFails, RunAnswer, RunEnds,
                       HeartbeatLate, bridge, native
<1>16. ASSUME NEW d \in Desktops, DropForeign(d) \/ TakeUp(d) \/ UserSaves(d)
       PROVE  LooksAreTrue'
    BY <1>1, <1>16 DEF DropForeign, TakeUp, UserSaves, bridge, native
<1>17. CASE UNCHANGED vars
    BY <1>1, <1>17 DEF vars, bridge, native
<1> QED BY <1>3, <1>4, <1>5, <1>6, <1>7, <1>8, <1>11, <1>12, <1>13, <1>14, <1>15, <1>16, <1>17
        DEF Next, Calls, HandlerStep, Routing, DesktopStep

\* The lock of the project keeps the others out, and a save of the desktop loses nothing.
LEMMA OwnersStay ==
    ASSUME DesktopTypeOK, OneOwner, [Next]_vars
    PROVE  OneOwner'
<1> USE DesktopAssumption DEF DesktopTypeOK, OneOwner, Locked, Desktops, Nothing, Waited
<1>1. ASSUME UNCHANGED <<desktops, running, memory, saved, headless>> PROVE OneOwner'
    BY <1>1
<1>2. CASE RouteToHeadless
    BY <1>2 DEF RouteToHeadless, Go, bridge, native
<1>3. CASE OpenSpawn
    BY <1>3 DEF OpenSpawn, bridge, native
<1>4. CASE HeadlessStopped
    BY <1>4 DEF HeadlessStopped, Fails, Report, Idle, bridge, native
<1>5. ASSUME NEW h \in headless, HeadlessOpens(h) PROVE OneOwner'
    BY <1>5 DEF HeadlessOpens, SetHeadless, bridge, native
<1>6. ASSUME NEW h \in headless, HeadlessSaves(h) PROVE OneOwner'
    BY <1>6 DEF HeadlessSaves, SetHeadless, bridge, native
<1>7. ASSUME NEW h \in headless, HeadlessEnds(h) PROVE OneOwner'
    BY <1>7 DEF HeadlessEnds, Report, Idle, bridge, native
<1>8. ASSUME NEW d \in Desktops, DesktopOpens(d) PROVE OneOwner'
    BY <1>8 DEF DesktopOpens, bridge, native
<1>9. ASSUME NEW d \in Desktops, TakeUp(d) PROVE OneOwner'
    BY <1>9 DEF TakeUp, Foreign, bridge, native
<1>10. ASSUME NEW d \in Desktops, UserSaves(d) PROVE OneOwner'
    BY <1>10 DEF UserSaves, bridge, native
<1>11. ASSUME NEW d \in Desktops, UserCloses(d) PROVE OneOwner'
    BY <1>11 DEF UserCloses, bridge, native
<1>12. ASSUME NEW d \in Desktops, DesktopEnds(d) PROVE OneOwner'
    BY <1>12 DEF DesktopEnds, bridge, native
<1>13. CASE RunScript
    BY <1>13 DEF RunScript, Then, Save, bridge, native
<1>14. CASE RunSave
    BY <1>14 DEF RunSave, Then, bridge, native
<1>15. CASE RunFails
    BY <1>15 DEF RunFails, Then, bridge, native
<1>16. CASE RunAnswer
    BY <1>16 DEF RunAnswer, Then, bridge, native
<1>17. CASE RunEnds
    BY <1>17 DEF RunEnds, bridge, native
<1> QED BY <1>1, <1>2, <1>3, <1>4, <1>5, <1>6, <1>7, <1>8, <1>9, <1>10, <1>11, <1>12, <1>13,
    <1>14, <1>15, <1>16, <1>17
      DEF Next, Calls, HandlerStep, Routing, Requesting, Opening, HeadlessStep, DesktopStep,
         Running, vars, bridge, native, Begin, OpenWindow, Dropped, RouteToWindow, RouteOn,
         RouteToStatus, RouteStatus, RouteClear, RouteToDesktop, RouteRefused, Send,
         SeeAnswer, SeeDesktopLost, GiveUp, OpenAgain, OpenCompile, OpenNote, OpenDone,
         OpenFails, Heartbeat, DropForeign, HeartbeatLate, Stop, Forget, Look, Go, Fails,
         Report

\* An attempt has one request or one process.
LEMMA IdsStay ==
    ASSUME DesktopTypeOK, HandlerIsAnAttempt, IdsAreUnique, [Next]_vars
    PROVE  IdsAreUnique'
<1> USE DesktopAssumption DEF DesktopTypeOK, HandlerIsAnAttempt, IdsAreUnique, At,
                              Preparing, Idle, Nothing, Desktops, Waited
<1>1. ASSUME UNCHANGED <<handler, requests, answers, running, headless, ran>> PROVE
    IdsAreUnique'
    BY <1>1
<1>2. ASSUME NEW o \in Ops, Begin(o) PROVE IdsAreUnique'
    BY <1>2 DEF Begin, bridge, native
<1>3. CASE OpenWindow
    BY <1>3 DEF OpenWindow, bridge, native
<1>4. CASE Dropped
    BY <1>4 DEF Dropped, Forget, bridge, native
<1>5. CASE RouteToWindow \/ RouteOn \/ RouteToStatus \/ RouteStatus \/ RouteClear
    BY <1>5 DEF RouteToWindow, RouteOn, RouteToStatus, RouteStatus, RouteClear,
               Look, Go, NoSession, bridge, native
<1>6. CASE RouteToDesktop
    BY <1>6 DEF RouteToDesktop, Session, Alive, bridge, native
<1>7. CASE RouteToHeadless
    BY <1>7 DEF RouteToHeadless, Go, bridge, native
<1>8. CASE RouteRefused
    BY <1>8 DEF RouteRefused, Fails, Report, bridge, native
<1>9. CASE Send
    BY <1>9 DEF Send, Go, bridge, native
<1>10. CASE SeeAnswer
    BY <1>10 DEF SeeAnswer, Report, bridge, native
<1>11. CASE SeeDesktopLost
    BY <1>11 DEF SeeDesktopLost, Look, Fails, Report, bridge, native
<1>12. CASE GiveUp
    BY <1>12 DEF GiveUp, Fails, Report, bridge, native
<1>13. CASE OpenAgain
    BY <1>13 DEF OpenAgain, Session, Alive, bridge, native
<1>14. CASE OpenCompile
    BY <1>14 DEF OpenCompile, Look, Go, NoSession, bridge, native
<1>15. CASE OpenSpawn
    BY <1>15 DEF OpenSpawn, bridge, native
<1>16. CASE OpenNote
    BY <1>16 DEF OpenNote, Go, bridge, native
<1>17. CASE OpenDone
    BY <1>17 DEF OpenDone, Report, Go, Session, Alive, bridge, native
<1>18. CASE OpenFails
    BY <1>18 DEF OpenFails, Look, Fails, Report, Forget, NoSession, bridge, native
<1>19. CASE HeadlessStopped
    BY <1>19 DEF HeadlessStopped, Fails, Report, bridge, native
<1>20. ASSUME NEW h \in headless, HeadlessOpens(h) PROVE IdsAreUnique'
    BY <1>20 DEF HeadlessOpens, SetHeadless, Locked, bridge, native
<1>21. ASSUME NEW h \in headless, HeadlessSaves(h) PROVE IdsAreUnique'
    BY <1>21 DEF HeadlessSaves, SetHeadless, bridge, native
<1>22. ASSUME NEW h \in headless, HeadlessEnds(h) PROVE IdsAreUnique'
    BY <1>22 DEF HeadlessEnds, Report, bridge, native
<1>23. ASSUME NEW d \in Desktops, DropForeign(d) PROVE IdsAreUnique'
    BY <1>23 DEF DropForeign, bridge, native
<1>24. ASSUME NEW d \in Desktops, TakeUp(d) PROVE IdsAreUnique'
    BY <1>24 DEF TakeUp, Foreign, bridge, native
<1>25. ASSUME NEW d \in Desktops, DesktopEnds(d) PROVE IdsAreUnique'
    BY <1>25 DEF DesktopEnds, bridge, native
<1>26. CASE RunScript
    BY <1>26 DEF RunScript, Then, Save, bridge, native
<1>27. CASE RunSave
    BY <1>27 DEF RunSave, Then, bridge, native
<1>28. CASE RunFails
    BY <1>28 DEF RunFails, Then, bridge, native
<1>29. CASE RunAnswer
    BY <1>29 DEF RunAnswer, Then, bridge, native
<1>30. CASE RunEnds
    BY <1>30 DEF RunEnds, bridge, native
<1>31. CASE Stop
    BY <1>31 DEF Stop, Forget, bridge, native
<1> QED BY <1>1, <1>2, <1>3, <1>4, <1>5, <1>6, <1>7, <1>8, <1>9, <1>10, <1>11, <1>12, <1>13,
    <1>14, <1>15, <1>16, <1>17, <1>18, <1>19, <1>20, <1>21, <1>22, <1>23, <1>24, <1>25,
    <1>26, <1>27, <1>28, <1>29, <1>30, <1>31
      DEF Next, Calls, HandlerStep, Routing, Requesting, Opening, HeadlessStep, DesktopStep,
         Running, vars, bridge, native, DesktopOpens, Heartbeat, UserSaves, UserCloses,
         HeartbeatLate

\* The script is over before the save, the save before the answer.
LEMMA ProgressStay ==
     ASSUME DesktopTypeOK, HandlerIsAnAttempt, OneOwner, IdsAreUnique, ProgressIsTrue,
        [Next]_vars
    PROVE  ProgressIsTrue'
<1> USE DesktopAssumption DEF DesktopTypeOK, HandlerIsAnAttempt, OneOwner, IdsAreUnique,
                              ProgressIsTrue, At, Preparing, Idle, Nothing, Waited
<1>1. ASSUME UNCHANGED <<handler, answers, running, memory, saved, headless>> PROVE
    ProgressIsTrue'
    BY <1>1
<1>2. ASSUME NEW o \in Ops, Begin(o) PROVE ProgressIsTrue'
    BY <1>2 DEF Begin, bridge, native
<1>3. CASE OpenWindow
    BY <1>3 DEF OpenWindow, bridge, native
<1>4. CASE Dropped
    BY <1>4 DEF Dropped, Forget, bridge, native
<1>5. CASE RouteToWindow \/ RouteOn \/ RouteToStatus \/ RouteStatus \/ RouteClear
    BY <1>5 DEF RouteToWindow, RouteOn, RouteToStatus, RouteStatus, RouteClear,
               Look, Go, NoSession, bridge, native
<1>6. CASE RouteToDesktop
    BY <1>6 DEF RouteToDesktop, Session, Alive, bridge, native
<1>7. CASE RouteToHeadless
    BY <1>7 DEF RouteToHeadless, Go, bridge, native
<1>8. CASE RouteRefused
    BY <1>8 DEF RouteRefused, Fails, Report, bridge, native
<1>9. CASE Send
    BY <1>9 DEF Send, Go, bridge, native
<1>10. CASE SeeAnswer
    BY <1>10 DEF SeeAnswer, Report, bridge, native
<1>11. CASE SeeDesktopLost
    BY <1>11 DEF SeeDesktopLost, Look, Fails, Report, bridge, native
<1>12. CASE GiveUp
    BY <1>12 DEF GiveUp, Fails, Report, bridge, native
<1>13. CASE OpenAgain
    BY <1>13 DEF OpenAgain, Session, Alive, bridge, native
<1>14. CASE OpenCompile
    BY <1>14 DEF OpenCompile, Look, Go, NoSession, bridge, native
<1>15. CASE OpenSpawn
    BY <1>15 DEF OpenSpawn, bridge, native
<1>16. CASE OpenNote
    BY <1>16 DEF OpenNote, Go, bridge, native
<1>17. CASE OpenDone
    BY <1>17 DEF OpenDone, Report, Go, Session, Alive, bridge, native
<1>18. CASE OpenFails
    BY <1>18 DEF OpenFails, Look, Fails, Report, Forget, NoSession, bridge, native
<1>19. CASE HeadlessStopped
    BY <1>19 DEF HeadlessStopped, Fails, Report, bridge, native
<1>20. ASSUME NEW h \in headless, HeadlessOpens(h) PROVE ProgressIsTrue'
    BY <1>20 DEF HeadlessOpens, SetHeadless, Locked, bridge, native
<1>21. ASSUME NEW h \in headless, HeadlessSaves(h) PROVE ProgressIsTrue'
    BY <1>21 DEF HeadlessSaves, SetHeadless, bridge, native
<1>22. ASSUME NEW h \in headless, HeadlessEnds(h) PROVE ProgressIsTrue'
    BY <1>22 DEF HeadlessEnds, Report, bridge, native
<1>23. ASSUME NEW d \in Desktops, DesktopOpens(d) PROVE ProgressIsTrue'
    BY <1>23 DEF DesktopOpens, Locked, bridge, native
<1>24. ASSUME NEW d \in Desktops, TakeUp(d) PROVE ProgressIsTrue'
    BY <1>24 DEF TakeUp, Foreign, bridge, native
<1>25. ASSUME NEW d \in Desktops, UserSaves(d) PROVE ProgressIsTrue'
    BY <1>25 DEF UserSaves, bridge, native
<1>26. ASSUME NEW d \in Desktops, UserCloses(d) PROVE ProgressIsTrue'
    BY <1>26 DEF UserCloses, bridge, native
<1>27. ASSUME NEW d \in Desktops, DesktopEnds(d) PROVE ProgressIsTrue'
    BY <1>27 DEF DesktopEnds, bridge, native
<1>28. CASE RunScript
    BY <1>28 DEF RunScript, Then, Save, bridge, native
<1>29. CASE RunSave
    BY <1>29 DEF RunSave, Then, bridge, native
<1>30. CASE RunFails
    BY <1>30 DEF RunFails, Then, bridge, native
<1>31. CASE RunAnswer
  <2>1. running' = [running EXCEPT !.at = "answered"] /\ running'.at = "answered"
      BY <1>31 DEF RunAnswer, Then
  <2>2. ASSUME At("wait"), NEW a \in answers', a.id = handler.id, a.ok
        PROVE  handler.op \in saved \cup {None}
    <3>1. CASE a \in answers
        BY <2>2, <3>1
    <3>2. CASE a = [id |-> running.id, ok |-> running.at = "done"]
      <4>1. running.id = handler.id /\ running.at = "done"
          BY <2>2, <3>2, Zenon
      <4>2. running.op = handler.op
          BY <4>1, <2>2
      <4> QED BY <4>1, <4>2
    <3> QED BY <1>31, <2>2, <3>1, <3>2 DEF RunAnswer
  <2> QED BY <1>31, <2>1, <2>2 DEF RunAnswer
<1>32. CASE RunEnds
    BY <1>32 DEF RunEnds, bridge, native
<1>33. CASE Stop
    BY <1>33 DEF Stop, Forget, bridge, native
<1> QED BY <1>1, <1>2, <1>3, <1>4, <1>5, <1>6, <1>7, <1>8, <1>9, <1>10, <1>11, <1>12, <1>13,
    <1>14, <1>15, <1>16, <1>17, <1>18, <1>19, <1>20, <1>21, <1>22, <1>23, <1>24, <1>25,
    <1>26, <1>27, <1>28, <1>29, <1>30, <1>31, <1>32, <1>33
      DEF Next, Calls, HandlerStep, Routing, Requesting, Opening, HeadlessStep, DesktopStep,
         Running, vars, bridge, native, Heartbeat, DropForeign, HeartbeatLate

\* A handler believes what it was told, and what it was not told it does not.
LEMMA OutcomesStay ==
     ASSUME DesktopTypeOK, HandlerIsAnAttempt, OneOwner, IdsAreUnique, ProgressIsTrue,
        OutcomesAreTrue, [Next]_vars
    PROVE  OutcomesAreTrue'
<1> USE DesktopAssumption DEF DesktopTypeOK, HandlerIsAnAttempt, OneOwner, IdsAreUnique,
                              ProgressIsTrue, OutcomesAreTrue, At, Nothing, Idle, Waited
<1>1. ASSUME UNCHANGED <<status, requests, running, memory, saved, headless>> PROVE
    OutcomesAreTrue'
    BY <1>1
<1>2. ASSUME NEW o \in Ops, Begin(o) PROVE OutcomesAreTrue'
    BY <1>2 DEF Begin, bridge, native
<1>3. CASE RouteToHeadless
    BY <1>3 DEF RouteToHeadless, Go, bridge, native
<1>4. CASE RouteRefused
    BY <1>4 DEF RouteRefused, Fails, Report, bridge, native
<1>5. CASE Send
    BY <1>5 DEF Send, Go, bridge, native
<1>6. CASE SeeAnswer
    BY <1>6 DEF SeeAnswer, Report, bridge, native
<1>7. CASE SeeDesktopLost
    BY <1>7 DEF SeeDesktopLost, Look, Fails, Report, bridge, native
<1>8. CASE GiveUp
    BY <1>8 DEF GiveUp, Fails, Report, bridge, native
<1>9. CASE OpenDone
    BY <1>9 DEF OpenDone, Report, Go, Session, Alive, bridge, native
<1>10. CASE OpenFails
    BY <1>10 DEF OpenFails, Look, Fails, Report, Forget, NoSession, bridge, native
<1>11. CASE HeadlessStopped
    BY <1>11 DEF HeadlessStopped, Fails, Report, bridge, native
<1>12. ASSUME NEW h \in headless, HeadlessOpens(h) PROVE OutcomesAreTrue'
    BY <1>12 DEF HeadlessOpens, SetHeadless, Locked, bridge, native
<1>13. ASSUME NEW h \in headless, HeadlessSaves(h) PROVE OutcomesAreTrue'
    BY <1>13 DEF HeadlessSaves, SetHeadless, bridge, native
<1>14. ASSUME NEW h \in headless, HeadlessEnds(h) PROVE OutcomesAreTrue'
    BY <1>14 DEF HeadlessEnds, Report, bridge, native
<1>15. ASSUME NEW d \in Desktops, DesktopOpens(d) PROVE OutcomesAreTrue'
    BY <1>15 DEF DesktopOpens, Locked, bridge, native
<1>16. ASSUME NEW d \in Desktops, DropForeign(d) PROVE OutcomesAreTrue'
    BY <1>16 DEF DropForeign, bridge, native
<1>17. ASSUME NEW d \in Desktops, TakeUp(d) PROVE OutcomesAreTrue'
    BY <1>17 DEF TakeUp, Foreign, bridge, native
<1>18. ASSUME NEW d \in Desktops, UserSaves(d) PROVE OutcomesAreTrue'
    BY <1>18 DEF UserSaves, bridge, native
<1>19. ASSUME NEW d \in Desktops, UserCloses(d) PROVE OutcomesAreTrue'
    BY <1>19 DEF UserCloses, bridge, native
<1>20. ASSUME NEW d \in Desktops, DesktopEnds(d) PROVE OutcomesAreTrue'
    BY <1>20 DEF DesktopEnds, bridge, native
<1>21. CASE RunScript
    BY <1>21 DEF RunScript, Then, Save, bridge, native
<1>22. CASE RunSave
    BY <1>22 DEF RunSave, Then, bridge, native
<1>23. CASE RunFails
    BY <1>23 DEF RunFails, Then, bridge, native
<1>24. CASE RunAnswer
    BY <1>24 DEF RunAnswer, Then, bridge, native
<1>25. CASE RunEnds
    BY <1>25 DEF RunEnds, bridge, native
<1>26. CASE Stop
    BY <1>26 DEF Stop, Forget, bridge, native
<1> QED BY <1>1, <1>2, <1>3, <1>4, <1>5, <1>6, <1>7, <1>8, <1>9, <1>10, <1>11, <1>12, <1>13,
    <1>14, <1>15, <1>16, <1>17, <1>18, <1>19, <1>20, <1>21, <1>22, <1>23, <1>24, <1>25,
    <1>26
      DEF Next, Calls, HandlerStep, Routing, Requesting, Opening, HeadlessStep, DesktopStep,
         Running, vars, bridge, native, OpenWindow, Dropped, RouteToWindow, RouteOn,
         RouteToStatus, RouteStatus, RouteClear, RouteToDesktop, OpenAgain, OpenCompile,
         OpenSpawn, OpenNote, Heartbeat, HeartbeatLate, Forget, Look, Go

\* A request goes with its execution, or its session with it.
LEMMA ExecutionsStay ==
     ASSUME DesktopTypeOK, HandlerIsAnAttempt, OneOwner, IdsAreUnique, ExecutedOnce,
        [Next]_vars
    PROVE  ExecutedOnce'
<1> USE DesktopAssumption DEF DesktopTypeOK, HandlerIsAnAttempt, OneOwner, IdsAreUnique,
                              ExecutedOnce, At, Preparing, Nothing, Desktops
<1>1. ASSUME UNCHANGED <<requests, desktops, running, ran>> PROVE ExecutedOnce'
    BY <1>1
<1>2. CASE Send
    BY <1>2 DEF Send, Go, bridge, native
<1>3. CASE OpenSpawn
    BY <1>3 DEF OpenSpawn, bridge, native
<1>4. ASSUME NEW d \in Desktops, DesktopOpens(d) PROVE ExecutedOnce'
    BY <1>4 DEF DesktopOpens, Locked, bridge, native
<1>5. ASSUME NEW d \in Desktops, DropForeign(d) PROVE ExecutedOnce'
    BY <1>5 DEF DropForeign, bridge, native
<1>6. ASSUME NEW d \in Desktops, TakeUp(d) PROVE ExecutedOnce'
    BY <1>6 DEF TakeUp, Foreign, bridge, native
<1>7. ASSUME NEW d \in Desktops, UserCloses(d) PROVE ExecutedOnce'
    BY <1>7 DEF UserCloses, bridge, native
<1>8. ASSUME NEW d \in Desktops, DesktopEnds(d) PROVE ExecutedOnce'
    BY <1>8 DEF DesktopEnds, bridge, native
<1>9. CASE RunScript
    BY <1>9 DEF RunScript, Then, Save, bridge, native
<1>10. CASE RunSave
    BY <1>10 DEF RunSave, Then, bridge, native
<1>11. CASE RunFails
    BY <1>11 DEF RunFails, Then, bridge, native
<1>12. CASE RunAnswer
    BY <1>12 DEF RunAnswer, Then, bridge, native
<1>13. CASE RunEnds
    BY <1>13 DEF RunEnds, bridge, native
<1> QED BY <1>1, <1>2, <1>3, <1>4, <1>5, <1>6, <1>7, <1>8, <1>9, <1>10, <1>11, <1>12, <1>13
      DEF Next, Calls, HandlerStep, Routing, Requesting, Opening, HeadlessStep, DesktopStep,
         Running, vars, bridge, native, Begin, OpenWindow, Dropped, RouteToWindow, RouteOn,
         RouteToStatus, RouteStatus, RouteClear, RouteToDesktop, RouteToHeadless,
         RouteRefused, SeeAnswer, SeeDesktopLost, GiveUp, OpenAgain, OpenCompile, OpenNote,
         OpenDone, OpenFails, HeadlessStopped, HeadlessOpens, HeadlessSaves, HeadlessEnds,
         Heartbeat, UserSaves, HeartbeatLate, Stop, Forget, Look, Go, Fails, Report,
         SetHeadless

\* A desktop takes up what was made for its own session, and once.
LEMMA ReplaysStay ==
    ASSUME DesktopTypeOK, ExecutedOnce, NoReplay, [Next]_vars
    PROVE  NoReplay'
<1> USE DesktopAssumption DEF DesktopTypeOK, ExecutedOnce, NoReplay, Nothing, Foreign
<1>1. ASSUME UNCHANGED <<ran>> PROVE NoReplay'
    BY <1>1
<1>2. ASSUME NEW d \in Desktops, TakeUp(d) PROVE NoReplay'
    BY <1>2 DEF TakeUp, bridge, native
<1> QED BY <1>1, <1>2
      DEF Next, Calls, HandlerStep, Routing, Requesting, Opening, HeadlessStep, DesktopStep,
         Running, vars, bridge, native, Begin, OpenWindow, Dropped, RouteToWindow, RouteOn,
         RouteToStatus, RouteStatus, RouteClear, RouteToDesktop, RouteToHeadless,
         RouteRefused, Send, SeeAnswer, SeeDesktopLost, GiveUp, OpenAgain, OpenCompile,
         OpenSpawn, OpenNote, OpenDone, OpenFails, HeadlessStopped, HeadlessOpens,
         HeadlessSaves, HeadlessEnds, DesktopOpens, Heartbeat, DropForeign, UserSaves,
         UserCloses, DesktopEnds, HeartbeatLate, RunScript, RunSave, RunFails, RunAnswer,
         RunEnds, Stop, Forget, Look, Go, Fails, Report, SetHeadless, Then

LEMMA InvStarts == Init => Inv
<1> USE DesktopAssumption DEF Init
<1>1. Init => TypedServer
    BY DEF TypedServer, At, Idle, Statuses
<1>2. Init => TypedOutside
  <2>1. NoSession \in [desktop : 0 .. MaxDesktops, ready : BOOLEAN]
      BY DEF NoSession
  <2>2. Init => desktops \in [Desktops -> {"none", "launched", "open", "closed", "gone"}]
      OBVIOUS
  <2>3. 0 \in 0 .. MaxDesktops /\ FALSE \in BOOLEAN
      OBVIOUS
  <2>4. Init => running = Nothing /\ session = NoSession
      OBVIOUS
  <2> QED BY <2>1, <2>2, <2>3, <2>4 DEF TypedOutside
<1>3. Init => HandlerIsAnAttempt /\ LaunchesAreKnown /\ LooksAreTrue
    BY DEF HandlerIsAnAttempt, LaunchesAreKnown, LooksAreTrue, At, Idle, Alive
<1>4. Init => OneOwner /\ IdsAreUnique /\ ProgressIsTrue
    BY DEF OneOwner, IdsAreUnique, ProgressIsTrue, At, Idle, Nothing
<1>5. Init => OutcomesAreTrue /\ ExecutedOnce /\ NoReplay
    BY DEF OutcomesAreTrue, ExecutedOnce, NoReplay, Nothing
<1> QED BY <1>1, <1>2, <1>3, <1>4, <1>5 DEF Inv, DesktopTypeOK, TypedServer, TypedOutside

LEMMA InvStays == Inv /\ [Next]_vars => Inv'
<1> SUFFICES ASSUME Inv, [Next]_vars PROVE Inv'
    OBVIOUS
<1>1. TypedServer /\ TypedOutside /\ late \in BOOLEAN
    BY TypesInParts DEF Inv
<1>2. TypedServer' /\ TypedOutside'
    BY <1>1, ServerStay, OutsideStay DEF Inv
<1>3. DesktopTypeOK'
    BY <1>1, <1>2, LateStays DEF DesktopTypeOK, TypedServer, TypedOutside
<1>4. HandlerIsAnAttempt' /\ LaunchesAreKnown' /\ OneOwner' /\ LooksAreTrue'
    BY AttemptsStay, LaunchesStay, OwnersStay, LooksStay DEF Inv
<1>5. IdsAreUnique' /\ ProgressIsTrue' /\ OutcomesAreTrue'
    BY IdsStay, ProgressStay, OutcomesStay DEF Inv
<1>6. ExecutedOnce' /\ NoReplay'
    BY ExecutionsStay, ReplaysStay DEF Inv
<1> QED BY <1>3, <1>4, <1>5, <1>6 DEF Inv

LEMMA InvHolds == Spec => []Inv
BY InvStarts, InvStays, PTL DEF Spec

\* The types of what the server, the desktops and headless Ghidra keep, and of the files
\* between them (desktop.rs, PistonDesktop.java).
THEOREM DesktopTypes == Spec => []DesktopTypeOK
<1>1. Inv => DesktopTypeOK
    BY DEF Inv
<1> QED BY InvHolds, <1>1, PTL

\* "Saving also persists the operation's reconciliation marker before acknowledging it"
\* (PistonDesktop.java): an operation that is reported done is in the saved project, and
\* nothing writes one that was not begun, whatever desktops and servers end.
THEOREM OutcomesTrue == Spec => []OutcomesAreTrue
<1>1. Inv => OutcomesAreTrue
    BY DEF Inv
<1> QED BY InvHolds, <1>1, PTL

\* "Old requests are never replayed into a different desktop session"
\* (PistonDesktop.java), and never twice into their own.
THEOREM RequestsRunOnce == Spec => []NoReplay
<1>1. Inv => NoReplay
    BY DEF Inv
<1> QED BY InvHolds, <1>1, PTL

\* The server falls back to headless Ghidra only if no desktop runs that it could know of,
\* or a session was written after dispatch had found none.
THEOREM HeadlessYields == Spec => HeadlessStaysAway
<1> DEFINE Away ==
        \A h \in headless' : h.id \notin {g.id : g \in headless} =>
            \A d \in Desktops : Alive(d) => late \/ (d \in forgotten /\ session.desktop # d)
<1>1. ASSUME Inv, [Next]_vars PROVE Away
  <2>1. CASE RouteToHeadless
    <3>1. late \/ (session.desktop = 0 /\ \A d \in Desktops : Alive(d) => d \in forgotten)
        BY <1>1, <2>1 DEF RouteToHeadless, Inv, LooksAreTrue, At
    <3> QED BY <3>1 DEF Desktops
  <2>2. ASSUME NEW h \in headless, HeadlessOpens(h) \/ HeadlessSaves(h) PROVE Away
      BY <1>1, <2>2 DEF HeadlessOpens, HeadlessSaves, SetHeadless, Inv, DesktopTypeOK
  <2>3. ASSUME headless' \subseteq headless PROVE Away
      BY <2>3
  <2> QED BY <1>1, <2>1, <2>2, <2>3
       DEF Next, Calls, HandlerStep, Routing, Requesting, Opening, HeadlessStep,
           DesktopStep, Running, vars, native, Begin, OpenWindow, Dropped, RouteToWindow,
           RouteOn, RouteToStatus, RouteStatus, RouteClear, RouteToDesktop, RouteRefused,
           Send, SeeAnswer, SeeDesktopLost, GiveUp, OpenAgain, OpenCompile, OpenSpawn,
           OpenNote, OpenDone, OpenFails, HeadlessStopped, HeadlessEnds, DesktopOpens,
           Heartbeat, DropForeign, TakeUp, UserSaves, UserCloses, DesktopEnds,
           HeartbeatLate, RunScript, RunSave, RunFails, RunAnswer, RunEnds, Stop
<1> QED BY <1>1, InvHolds, PTL DEF Spec, HeadlessStaysAway
=============================================================================
