------------------------------- MODULE Desktop -------------------------------
(***************************************************************************)
(* The connection to a native Ghidra desktop (desktop.rs, PistonDesktop),  *)
(* and the choice between it and headless Ghidra that every operation on   *)
(* the project of one binary makes (ghidra::headless).                     *)
(*                                                                         *)
(* The server and the desktops share a directory: session.json says which  *)
(* desktop serves, launch.json which one was started last, and a request,  *)
(* its cancellation and its answer are files.  Desktops and headless       *)
(* processes outlive a server that stops, and a headless process outlives  *)
(* a call that is dropped.  The holder of the Ghidra gate is the one       *)
(* handler that runs; each of its steps ends at an await.                  *)
(*                                                                         *)
(* Operations that only read take the same way and save nothing; they are  *)
(* left out, and so is Ghidra opened by hand beside the server.            *)
(***************************************************************************)
EXTENDS Naturals, FiniteSets

CONSTANTS
    Ops,            \* operations that write: change sets, type plans and notes
    None,
    MaxTries,       \* a bound on the attempts at operations and on requests for the window
    MaxDesktops,    \* a bound on the desktops that are started
    MaxStops        \* a bound on the times the server stops

ASSUME DesktopAssumption ==
    /\ IsFiniteSet(Ops) /\ None \notin Ops
    /\ MaxTries \in Nat /\ MaxDesktops \in Nat /\ MaxStops \in Nat

VARIABLES
    gui,            \* config.ghidra_gui
    status,         \* what the database says of each operation
    handler,        \* the holder of ghidra_gate
    tries,          \* attempts so far; the last one identifies its request or process
    desktops,       \* the desktop processes, in the order they were started
    launch,         \* launch.json: a desktop, or 0
    session,        \* session.json: the desktop that serves, and whether it is ready
    fresh,          \* whether its heartbeat is
    requests,       \* request files
    cancels,        \* their cancellations
    answers,        \* response files
    running,        \* what the serving desktop executes
    memory,         \* operations in its open program
    saved,          \* operations in the Ghidra project
    headless,       \* headless Ghidra processes
    forgotten,      \* desktops whose launcher ended before it could write launch.json
    late,           \* whether a session was written since dispatch found none
    ran,            \* executions of requests so far
    stops

bridge == <<launch, session, fresh, requests, cancels, answers>>
native == <<desktops, running, memory, saved, headless, ran>>
vars == <<gui, status, handler, tries, bridge, native, forgotten, late, stops>>

Desktops == 1 .. MaxDesktops

Idle == [at |-> "idle", op |-> None, id |-> 0, desktop |-> 0]

NoSession == [desktop |-> 0, ready |-> FALSE]

Nothing == [id |-> 0, op |-> None, at |-> "nothing"]

Init ==
    /\ gui \in BOOLEAN
    /\ status = [o \in Ops |-> "preview"]
    /\ handler = Idle /\ tries = 0
    /\ desktops = [d \in Desktops |-> "none"]
    /\ launch = 0 /\ session = NoSession /\ fresh = FALSE
    /\ requests = {} /\ cancels = {} /\ answers = {}
    /\ running = Nothing /\ memory = {} /\ saved = {} /\ headless = {}
    /\ forgotten = {} /\ late = FALSE /\ ran = {} /\ stops = 0

-----------------------------------------------------------------------------
\* process_alive.
Alive(d) == d # 0 /\ desktops[d] \in {"launched", "open", "closed"}

\* desktop::session: there is none, or it is not to be relied on, or it serves.
Session ==
    IF ~Alive(session.desktop) THEN "none"
    ELSE IF session.ready /\ fresh THEN "connected" ELSE "disconnected"

\* The file of a process that ended is removed by whoever looks at it.
Look == session' = IF Session = "none" THEN NoSession ELSE session

\* desktop::status without a session: launch.json says whether one is to come.
Starting == Alive(launch)

Go(at) == handler' = [handler EXCEPT !.at = at]

At(at) == handler.at = at

Unresolved == {o \in Ops : status[o] \in {"applying", "uncertain"}}

\* An operation begins: execute_apply, types::apply, research::apply.
Begin(o) ==
    /\ At("idle") /\ tries < MaxTries
    /\ status[o] \in {"preview", "uncertain"} /\ Unresolved \subseteq {o}
    /\ status' = [status EXCEPT ![o] = "applying"]
    /\ tries' = tries + 1
    /\ handler' = [Idle EXCEPT !.at = "route", !.op = o, !.id = tries + 1]
    /\ UNCHANGED <<gui, bridge, native, forgotten, late, stops>>

\* "Open in Ghidra".
OpenWindow ==
    /\ At("idle") /\ tries < MaxTries
    /\ tries' = tries + 1
    /\ handler' = [Idle EXCEPT !.at = "open", !.id = tries + 1]
    /\ UNCHANGED <<gui, status, bridge, native, forgotten, late, stops>>

\* Mutant: the handler keeps its request.
ReportOnly(outcome) ==
    /\ handler' = [handler EXCEPT !.at = "idle"]
    /\ status' = [o \in Ops |-> IF o = handler.op THEN outcome ELSE status[o]]

\* What a handler reports once it is over.
Report(outcome) ==
    /\ handler' = Idle
    /\ status' = [o \in Ops |-> IF o = handler.op THEN outcome ELSE status[o]]

Fails == Report("uncertain")

\* ghidra::headless opens the desktop first if it is to be used.
RouteToWindow ==
    /\ At("route") /\ gui /\ Session # "connected"
    /\ Look /\ Go("open")
    /\ UNCHANGED <<gui, status, tries, launch, fresh, requests, cancels, answers,
                   native, forgotten, late, stops>>

\* With its window, or without the wish for one, the operation is dispatched.
RouteOn ==
    /\ At("route") /\ (gui => Session = "connected")
    /\ Go("dispatch")
    /\ UNCHANGED <<gui, status, tries, bridge, native, forgotten, late, stops>>

\* desktop::dispatch finds a session...
RouteToDesktop ==
    /\ At("dispatch") /\ Session = "connected"
    /\ handler' = [handler EXCEPT !.at = "send", !.desktop = session.desktop]
    /\ UNCHANGED <<gui, status, tries, bridge, native, forgotten, late, stops>>

\* ...or that there is none, and asks for the status...
RouteToStatus ==
    /\ At("dispatch") /\ Session = "none"
    /\ Look /\ Go("status")
    /\ UNCHANGED <<gui, status, tries, launch, fresh, requests, cancels, answers, native,
                   forgotten, late, stops>>

\* ...which reads session.json once more.  One that came meanwhile is not "starting".
RouteStatus ==
    /\ At("status")
    /\ Look /\ Go(IF Session = "none" THEN "launch" ELSE "install")
    /\ UNCHANGED <<gui, status, tries, launch, fresh, requests, cancels, answers, native,
                   forgotten, late, stops>>

\* Mutant: a desktop that is starting does not count.
MayRunBeside == TRUE

MayRunHeadless == ~Starting

RouteClear ==
    /\ At("launch") /\ MayRunHeadless
    /\ Go("install")
    /\ UNCHANGED <<gui, status, tries, bridge, native, forgotten, late, stops>>

\* The scripts are installed and analyzeHeadless runs...
RouteToHeadless ==
    /\ At("install")
    /\ Go("headless") /\ late' = FALSE
    /\ headless' = headless \cup {[id |-> handler.id, op |-> handler.op, at |-> "started"]}
    /\ UNCHANGED <<gui, status, tries, bridge, desktops, running, memory, saved, ran,
                   forgotten, stops>>

\* ...unless neither will do, or it cannot be started.
RouteRefused ==
    /\ \/ At("dispatch") /\ Session = "disconnected"
       \/ At("launch") /\ ~MayRunHeadless
       \/ At("install")
    /\ Fails /\ late' = FALSE
    /\ UNCHANGED <<gui, tries, bridge, native, forgotten, stops>>

\* desktop::request.  The desktop may have ended since it was found.
Send ==
    /\ At("send")
    /\ requests' = requests \cup
            {[id |-> handler.id, op |-> handler.op, desktop |-> handler.desktop]}
    /\ Go("wait")
    /\ UNCHANGED <<gui, status, tries, launch, session, fresh, cancels, answers, native,
                   forgotten, late, stops>>

SeeAnswer ==
    /\ At("wait")
    /\ \E a \in answers :
        /\ a.id = handler.id
        /\ answers' = answers \ {a}
        /\ Report(IF a.ok THEN "done" ELSE "uncertain")
    /\ UNCHANGED <<gui, tries, launch, session, fresh, requests, cancels, native,
                   forgotten, late, stops>>

\* The answer is looked for first, and may have come since.
SeeDesktopLost ==
    /\ At("wait")
    /\ Session # "connected" \/ session.desktop # handler.desktop
    /\ Look /\ Fails
    /\ UNCHANGED <<gui, tries, launch, fresh, requests, cancels, answers, native,
                   forgotten, late, stops>>

\* Mutant: no deadline, the answer is waited for.
WaitForEver == At("wait") /\ UNCHANGED vars

\* The deadline passes, or the caller cancels.
GiveUp ==
    /\ At("wait")
    /\ cancels' = cancels \cup {handler.id}
    /\ Fails
    /\ UNCHANGED <<gui, tries, launch, session, fresh, requests, answers, native,
                   forgotten, late, stops>>

-----------------------------------------------------------------------------
\* desktop::open.  With a session, the window is asked to come forward; on the way of an
\* operation that request changes nothing, and OpenFails stands for its failures.
OpenAgain ==
    /\ At("open") /\ Session = "connected"
    /\ handler' = [handler EXCEPT !.at = IF handler.op = None THEN "send" ELSE "dispatch",
                                  !.desktop = session.desktop]
    /\ UNCHANGED <<gui, status, tries, bridge, native, forgotten, late, stops>>

\* Without one, and if none is starting, the connection is compiled; anything may fail.
OpenCompile ==
    /\ At("open") /\ Session = "none" /\ ~Alive(launch)
    /\ Look /\ Go("compile")
    /\ UNCHANGED <<gui, status, tries, launch, fresh, requests, cancels, answers,
                   native, forgotten, late, stops>>

\* Whoever has just started a desktop stops before it has noted that.
Forget ==
    /\ forgotten' = IF At("note") THEN forgotten \cup {handler.desktop} ELSE forgotten
    /\ late' = FALSE

\* The JVM is started...
OpenSpawn ==
    /\ At("compile")
    /\ \E d \in Desktops :
        /\ desktops[d] = "none" /\ \A e \in 1 .. d - 1 : desktops[e] # "none"
        /\ desktops' = [desktops EXCEPT ![d] = "launched"]
        /\ handler' = [handler EXCEPT !.at = "note", !.desktop = d]
    /\ UNCHANGED <<gui, status, tries, bridge, running, memory, saved, headless, ran,
                   forgotten, late, stops>>

\* ...its process id is written down...
OpenNote ==
    /\ At("note")
    /\ launch' = handler.desktop
    /\ Go("opening")
    /\ UNCHANGED <<gui, status, tries, session, fresh, requests, cancels, answers, native,
                   forgotten, late, stops>>

\* ...and a session is waited for...
OpenDone ==
    /\ At("opening") /\ Session = "connected"
    /\ IF handler.op = None THEN Report("done") ELSE Go("dispatch") /\ UNCHANGED status
    /\ UNCHANGED <<gui, tries, bridge, native, forgotten, late, stops>>

\* ...for two minutes, or until the process ends.
OpenFails ==
    /\ handler.at \in {"open", "compile", "note", "opening"}
    /\ Look /\ Fails /\ Forget
    /\ UNCHANGED <<gui, tries, launch, fresh, requests, cancels, answers, native, stops>>

-----------------------------------------------------------------------------
\* The project is locked by the process that has it open: Ghidra's own rule.
Locked ==
    \/ \E d \in Desktops : desktops[d] = "open"
    \/ \E h \in headless : h.at # "started"

SetHeadless(h, at) == headless' = (headless \ {h}) \cup {[h EXCEPT !.at = at]}

HeadlessOpens(h) ==
    /\ h.at = "started" /\ ~Locked
    /\ SetHeadless(h, "open")
    /\ UNCHANGED <<gui, status, handler, tries, bridge, desktops, running, memory, saved,
                   ran, forgotten, late, stops>>

\* The script's transaction is saved whole.
HeadlessSaves(h) ==
    /\ h.at = "open"
    /\ SetHeadless(h, "saved")
    /\ saved' = saved \cup {h.op}
    /\ UNCHANGED <<gui, status, handler, tries, bridge, desktops, running, memory,
                   ran, forgotten, late, stops>>

Waited(h) == At("headless") /\ handler.id = h.id

\* A process ends; if nobody waits for it, nobody learns of it.
HeadlessEnds(h) ==
    /\ headless' = headless \ {h}
    /\ IF Waited(h) THEN Report(IF h.at = "saved" THEN "done" ELSE "uncertain")
       ELSE UNCHANGED <<handler, status>>
    /\ UNCHANGED <<gui, tries, bridge, desktops, running, memory, saved, ran, forgotten, late,
                   stops>>

\* The deadline passes, or the caller cancels: the process group is killed.
HeadlessStopped ==
    /\ At("headless")
    /\ headless' = {h \in headless : ~Waited(h)}
    /\ Fails
    /\ UNCHANGED <<gui, tries, bridge, desktops, running, memory, saved, ran, forgotten, late,
                   stops>>

-----------------------------------------------------------------------------
\* PistonDesktop: Ghidra opens the project, or keeps its user waiting.
DesktopOpens(d) ==
    /\ desktops[d] = "launched" /\ ~Locked
    /\ desktops' = [desktops EXCEPT ![d] = "open"]
    /\ memory' = saved
    /\ UNCHANGED <<gui, status, handler, tries, bridge, running, saved, headless, ran,
                   forgotten, late, stops>>

\* Each second; the last time when the program has been closed.
Heartbeat(d) ==
    /\ desktops[d] \in {"open", "closed"}
    /\ desktops[d] = "closed" => session = [desktop |-> d, ready |-> TRUE]
    /\ session' = [desktop |-> d, ready |-> desktops[d] = "open"]
    /\ fresh' = TRUE
    /\ late' = (late \/ handler.at \in {"status", "launch", "install"})
    /\ UNCHANGED <<gui, status, handler, tries, launch, requests, cancels, answers, native,
                   forgotten, stops>>

\* Ten seconds without one.
HeartbeatLate ==
    /\ fresh' = FALSE
    /\ UNCHANGED <<gui, status, handler, tries, launch, session, requests, cancels, answers,
                   native, forgotten, late, stops>>

\* Mutant: requests of another session are taken for its own.
AnySession(q, d) == FALSE

Foreign(q, d) == q.desktop # d

\* "Old requests are never replayed into a different desktop session."
DropForeign(d) ==
    /\ desktops[d] = "open" /\ running = Nothing
    /\ \E q \in requests : Foreign(q, d) /\ requests' = requests \ {q}
    /\ UNCHANGED <<gui, status, handler, tries, launch, session, fresh, cancels, answers,
                   native, forgotten, late, stops>>

\* execute: a request is taken up, in the order of names that say nothing.
TakeUp(d) ==
    /\ desktops[d] = "open" /\ running = Nothing
    /\ \E q \in requests :
        /\ ~Foreign(q, d)
        /\ running' = [id |-> q.id, op |-> q.op,
                       at |-> IF q.id \in cancels THEN "failed" ELSE "script"]
        /\ ran' = IF q.id \in cancels THEN ran
                  ELSE ran \cup {[id |-> q.id, made |-> q.desktop, in |-> d]}
    /\ UNCHANGED <<gui, status, handler, tries, bridge, desktops, memory, saved, headless,
                   forgotten, late, stops>>

Then(at) == running' = [running EXCEPT !.at = at]

\* Mutant: only what changed the program is saved.
SaveIfChanged(o) == IF o \in memory THEN "done" ELSE "save"

Save(o) == IF o = None THEN "done" ELSE "save"

\* The transaction of a script.
RunScript ==
    /\ running.at = "script"
    /\ Then(Save(running.op))
    /\ memory' = memory \cup ({running.op} \ {None})
    /\ UNCHANGED <<gui, status, handler, tries, bridge, desktops, saved, headless, ran,
                   forgotten, late, stops>>

\* The whole program is saved, before the operation is answered.
RunSave ==
    /\ running.at = "save"
    /\ Then("done")
    /\ saved' = memory
    /\ UNCHANGED <<gui, status, handler, tries, bridge, desktops, memory, headless, ran,
                   forgotten, late, stops>>

\* An error, or a cancellation: it does not undo a transaction that has ended.
RunFails ==
    /\ running.at \in {"script", "save"}
    /\ Then("failed")
    /\ UNCHANGED <<gui, status, handler, tries, bridge, desktops, memory, saved, headless,
                   ran, forgotten, late, stops>>

\* The answer is written; then the request goes.
RunAnswer ==
    /\ running.at \in {"done", "failed"}
    /\ answers' = answers \cup {[id |-> running.id, ok |-> running.at = "done"]}
    /\ Then("answered")
    /\ UNCHANGED <<gui, status, handler, tries, launch, session, fresh, requests, cancels,
                   desktops, memory, saved, headless, ran, forgotten, late, stops>>

RunEnds ==
    /\ running.at = "answered"
    /\ requests' = {q \in requests : q.id # running.id}
    /\ cancels' = cancels \ {running.id}
    /\ running' = Nothing
    /\ UNCHANGED <<gui, status, handler, tries, launch, session, fresh, answers, desktops,
                   memory, saved, headless, ran, forgotten, late, stops>>

\* Its user saves the program...
UserSaves(d) ==
    /\ desktops[d] = "open"
    /\ saved' = memory
    /\ UNCHANGED <<gui, status, handler, tries, bridge, desktops, running, memory, headless,
                   ran, forgotten, late, stops>>

\* ...or closes it, and perhaps the project, but not Ghidra.
UserCloses(d) ==
    /\ desktops[d] = "open" /\ running = Nothing
    /\ desktops' = [desktops EXCEPT ![d] = "closed"]
    /\ memory' = {}
    /\ UNCHANGED <<gui, status, handler, tries, bridge, running, saved, headless, ran,
                   forgotten, late, stops>>

\* The process ends: its shutdown hook removes session.json, if it gets to it.
DesktopEnds(d) ==
    /\ Alive(d)
    /\ desktops' = [desktops EXCEPT ![d] = "gone"]
    /\ session' \in {session} \cup (IF desktops[d] = "launched" THEN {} ELSE {NoSession})
    /\ IF desktops[d] = "open" THEN running' = Nothing /\ memory' = {}
       ELSE UNCHANGED <<running, memory>>
    /\ UNCHANGED <<gui, status, handler, tries, launch, fresh, requests, cancels, answers,
                   saved, headless, ran, forgotten, late, stops>>

-----------------------------------------------------------------------------
\* The call that applies a change set ends with its connection.
Dropped ==
    /\ handler.op # None
    /\ handler' = Idle /\ Forget
    /\ UNCHANGED <<gui, status, tries, bridge, native, stops>>

\* The server stops anywhere; Db::recover cleans up.
Stop ==
    /\ stops < MaxStops /\ stops' = stops + 1
    /\ handler' = Idle /\ Forget
    /\ status' = [o \in Ops |-> IF status[o] = "applying" THEN "uncertain" ELSE status[o]]
    /\ UNCHANGED <<gui, tries, bridge, native>>

-----------------------------------------------------------------------------
Routing ==
    \/ RouteToWindow \/ RouteOn \/ RouteToDesktop \/ RouteToStatus \/ RouteStatus
    \/ RouteClear \/ RouteToHeadless \/ RouteRefused

Requesting == Send \/ SeeAnswer \/ SeeDesktopLost \/ GiveUp

Opening == OpenAgain \/ OpenCompile \/ OpenSpawn \/ OpenNote \/ OpenDone \/ OpenFails

HandlerStep == Routing \/ Requesting \/ Opening \/ HeadlessStopped

HeadlessStep == \E h \in headless : HeadlessOpens(h) \/ HeadlessSaves(h) \/ HeadlessEnds(h)

Running == RunScript \/ RunSave \/ RunFails \/ RunAnswer \/ RunEnds

DesktopStep ==
    \/ \E d \in Desktops : \/ DesktopOpens(d) \/ Heartbeat(d) \/ DropForeign(d) \/ TakeUp(d)
                           \/ UserSaves(d) \/ UserCloses(d) \/ DesktopEnds(d)
    \/ HeartbeatLate \/ Running

Calls == OpenWindow \/ Dropped \/ \E o \in Ops : Begin(o)

Next == Calls \/ HandlerStep \/ HeadlessStep \/ DesktopStep \/ Stop

\* Every wait for Ghidra has a deadline, and nothing is assumed of Ghidra.  The compiler
\* of OpenCompile has none: javac is taken to end.
Fairness == WF_vars(HandlerStep)

Spec == Init /\ [][Next]_vars /\ Fairness

-----------------------------------------------------------------------------
Statuses == {"preview", "applying", "uncertain", "done"}

DesktopTypeOK ==
    /\ gui \in BOOLEAN /\ status \in [Ops -> Statuses]
    /\ handler \in [at : {"idle", "route", "dispatch", "status", "launch", "install",
                          "send", "wait", "headless", "open", "compile", "note", "opening"},
                    op : Ops \cup {None}, id : 0 .. tries, desktop : 0 .. MaxDesktops]
    /\ At("idle") => handler = Idle
    /\ tries \in 0 .. MaxTries /\ stops \in 0 .. MaxStops
    /\ desktops \in [Desktops -> {"none", "launched", "open", "closed", "gone"}]
    /\ launch \in 0 .. MaxDesktops /\ fresh \in BOOLEAN
    /\ session \in [desktop : 0 .. MaxDesktops, ready : BOOLEAN]
    /\ requests \subseteq [id : 1 .. tries, op : Ops \cup {None}, desktop : Desktops]
    /\ cancels \subseteq 1 .. tries /\ answers \subseteq [id : 1 .. tries, ok : BOOLEAN]
    /\ running = Nothing \/ running \in
            [id : 1 .. tries, op : Ops \cup {None},
             at : {"script", "save", "done", "failed", "answered"}]
    /\ memory \subseteq Ops /\ saved \subseteq Ops
    /\ headless \subseteq [id : 1 .. tries, op : Ops, at : {"started", "open", "saved"}]
    /\ ran \subseteq [id : 1 .. tries, made : Desktops, in : Desktops]
    /\ forgotten \subseteq Desktops /\ late \in BOOLEAN

\* "no headless fallback is allowed while desktop ownership is uncertain" (desktop.rs), as
\* far as the code keeps it: headless Ghidra is started only when no desktop runs, whatever
\* state that is in, with two exceptions.  One whose launcher was cut off before it wrote
\* down its process is unknown until it has a session; and a session that is written after
\* dispatch has found none is not seen, or seen and taken for "not starting".
HeadlessStaysAway ==
    [][\A h \in headless' : h.id \notin {g.id : g \in headless} =>
        \A d \in Desktops : Alive(d) => late \/ (d \in forgotten /\ session.desktop # d)]_vars

\* What the database says of an operation is true of the project: one that is done is
\* saved, and nothing will still write one that is untouched.
OutcomesAreTrue ==
    \A o \in Ops :
        /\ status[o] = "done" => o \in saved
        /\ status[o] = "preview" =>
            /\ o \notin memory \cup saved
            /\ \A p \in requests \cup headless \cup {running} : p.op # o

\* "a new session does not replay old requests": a request runs in the desktop that it was
\* made for, and once.
NoReplay ==
    \A x \in ran : x.in = x.made /\ \A y \in ran : x.id = y.id => x = y

\* Every handler ends, and gives the Ghidra gate back, whatever Ghidra does.
HandlersEnd == handler.at # "idle" ~> handler.at = "idle"
=============================================================================
