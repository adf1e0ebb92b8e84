------------------------------- MODULE Recoco -------------------------------
(***************************************************************************)
(* The cooperative threads of the controller: Scheduler, SelectHub,        *)
(* CallLaterTask, Timer and BlockingTask of pox/lib/recoco/recoco.py,      *)
(* RecocoIOLoop of pox/lib/ioworker/io_worker.py with one worker, and      *)
(* POXCore.quit.  The real threads are the scheduler's, the hub's (which   *)
(* waits in select for all tasks), the threads of blocking calls and any   *)
(* other thread that hands something over.                                 *)
(*                                                                         *)
(* A task runs from one yield to the next; where another thread could get  *)
(* in between, the turn is cut in two.  The two waits that the code limits *)
(* to CYCLE_MAXIMUM seconds are not limited here: nothing below relies on  *)
(* a wait that ends by itself.                                             *)
(***************************************************************************)
EXTENDS Integers, Sequences, FiniteSets, SequencesExt

CONSTANT
    Setups      \* bounds: sets of tasks that are tried together, each with the number
                \* of functions handed to callLater and of messages the peer sends

Tasks == {"later", "timer", "io", "block"}
ASSUME RecocoAssumption == \A s \in Setups : s.tasks \subseteq Tasks /\ s.calls \in Nat /\ s.msgs \in Nat

Start(t) == <<"start", t>>      \* the ScheduleTask that starts t
Turn(t) == <<"run", t>>

VARIABLES
    ready, event, hasQuit, allDone,  \* Scheduler
    spc,        \* its thread: "check", "wait", "clear", "done",
                \* or in the second half of a turn: "calls", "io"
    new,        \* the tasks of this run that have not run yet
    setup,      \* the tasks and bounds of this run
    incoming, pinged, tasks,         \* SelectHub: _incoming, _pinger, tasks
    hpc, chosen,             \* its thread: "collect", "select", "handle", "ended"; whom it resumes
    calls, laterPing, asked, called, \* CallLaterTask; functions asked for and called
    timer,      \* [on, cancelled, due]: due says that its time has come
    blocking,   \* is the thread of CallBlocking at work?
    commands, ioPing,        \* RecocoIOLoop
    worker,     \* [sock, in, buf, inbox, eof]: in says that it is one of _workers
    reg, got,   \* what the loop selects on, and what its select returned
    received,
    ext         \* the pinger another thread has still to ping, or "none"

schedVars == <<ready, event, hasQuit, allDone, spc, new, setup>>
hubVars == <<incoming, pinged, tasks, hpc, chosen>>
laterVars == <<calls, laterPing, asked, called>>
ioVars == <<commands, ioPing, worker, reg, got, received>>
vars == <<schedVars, hubVars, laterVars, timer, blocking, ioVars, ext>>

NoSelect == [p |-> FALSE, r |-> FALSE, w |-> FALSE]

Init ==
    /\ ready = <<>> /\ event = FALSE /\ hasQuit = FALSE /\ allDone = FALSE
    /\ spc = "check" /\ setup \in Setups /\ new = setup.tasks
    /\ incoming = <<>> /\ pinged = FALSE /\ tasks = {} /\ hpc = "collect" /\ chosen = {}
    /\ calls = <<>> /\ laterPing = FALSE /\ asked = 0 /\ called = 0
    /\ timer = [on |-> FALSE, cancelled |-> FALSE, due |-> FALSE]
    /\ blocking = FALSE
    /\ commands = <<>> /\ ioPing = FALSE /\ received = 0
    /\ worker = [sock |-> "none", in |-> FALSE, buf |-> 0, inbox |-> 0, eof |-> FALSE]
    /\ reg = NoSelect /\ got = NoSelect /\ ext = "none"

-----------------------------------------------------------------------------
(* Scheduler and SelectHub.                                                *)

\* fast_schedule
Schedule(es) == ready' = ready \o es /\ event' = TRUE
\* registerSelect and registerTimer: into the queue, then the hub is woken.
RegisterUnnoticed(t) == incoming' = Append(incoming, t) /\ UNCHANGED <<pinged, tasks, hpc, chosen>>
Register(t) == incoming' = Append(incoming, t) /\ pinged' = TRUE /\ UNCHANGED <<tasks, hpc, chosen>>

\* Scheduler.run: the thread waits when nothing is ready, and looks again.
Wait ==
    /\ spc = "check" /\ ~ hasQuit /\ ready = <<>> /\ spc' = "wait"
    /\ UNCHANGED <<ready, event, hasQuit, allDone, new, setup, hubVars, laterVars, timer, blocking, ioVars, ext>>
Wakes ==
    /\ spc = "wait" /\ event /\ spc' = "clear"
    /\ UNCHANGED <<ready, event, hasQuit, allDone, new, setup, hubVars, laterVars, timer, blocking, ioVars, ext>>
Clear ==
    /\ spc = "clear" /\ event' = FALSE /\ spc' = "check"
    /\ UNCHANGED <<ready, hasQuit, allDone, new, setup, hubVars, laterVars, timer, blocking, ioVars, ext>>

\* run ends: the hub is woken so that it sees it.
Final ==
    /\ spc = "check" /\ hasQuit /\ spc' = "done" /\ allDone' = TRUE
    /\ pinged' = TRUE
    /\ UNCHANGED <<ready, event, hasQuit, new, setup, incoming, tasks, hpc, chosen, laterVars, timer, blocking, ioVars, ext>>

\* cycle takes the first task (a task compares greater than 1: priorities have no
\* effect) and runs it.  Only this thread takes tasks away.
First(e) == spc = "check" /\ ~ hasQuit /\ ready # <<>> /\ ready[1] = e
Takes(t) == First(Turn(t)) /\ ready' = Tail(ready) /\ UNCHANGED event

\* A ScheduleTask puts its task in front unless it is there already.
StartRuns(t) ==
    /\ First(Start(t))
    /\ IF Turn(t) \in Range(ready) THEN ready' = Tail(ready) /\ UNCHANGED event
       ELSE ready' = <<Turn(t)>> \o Tail(ready) /\ event' = TRUE
    /\ UNCHANGED <<hasQuit, allDone, spc, new, setup, hubVars, laterVars, timer, blocking, ioVars, ext>>

\* SelectHub._threadProc: tasks whose time has passed are resumed, with I/O or
\* without.
Expired == IF timer.due THEN tasks \cap {"timer"} ELSE {}

\* _return, for all tasks of S; those of in have been taken from the queue.
Wake(S) == IF S = {} THEN UNCHANGED <<ready, event>>
           ELSE Schedule(LET q == SetToSeq(S) IN [i \in DOMAIN q |-> Turn(q[i])])
ResumeAndKeep(S, in) == tasks' = tasks \cup in /\ Wake(S)
Resume(S, in) == tasks' = (tasks \ S) \cup in /\ Wake(S)

HubStopsWhenIdle == hasQuit /\ tasks = {}
HubStops == hasQuit
HubCollects ==
    /\ hpc = "collect"
    /\ IF HubStops THEN hpc' = "ended" /\ UNCHANGED <<tasks, ready, event>>
                  ELSE hpc' = "select" /\ Resume(Expired, {})
    /\ UNCHANGED <<hasQuit, allDone, spc, new, setup, incoming, pinged, chosen, laterVars, timer, blocking, ioVars, ext>>

\* What select finds for the tasks it was called for.
Io == [p |-> reg.p /\ ioPing, r |-> reg.r /\ (worker.inbox > 0 \/ worker.eof), w |-> reg.w]
WithIo == {t \in tasks : (t = "later" /\ laterPing) \/ (t = "io" /\ Io # NoSelect)}

\* Select returns; the pinger is emptied before the queue is.
HubSelects ==
    /\ hpc = "select" /\ (pinged \/ WithIo # {})
    /\ hpc' = "handle"
    /\ chosen' = WithIo \cup (IF pinged THEN {"pinger"} ELSE {})
    /\ got' = IF "io" \in WithIo THEN Io ELSE got
    /\ pinged' = FALSE
    /\ UNCHANGED <<schedVars, incoming, tasks, laterVars, timer, blocking, commands, ioPing, worker, reg, received, ext>>

HubHandles ==
    /\ hpc = "handle" /\ hpc' = "collect" /\ chosen' = {}
    /\ IF "pinger" \in chosen
         THEN Resume(chosen \ {"pinger"}, Range(incoming)) /\ incoming' = <<>>
         ELSE Resume(chosen, {}) /\ UNCHANGED incoming
    /\ UNCHANGED <<hasQuit, allDone, spc, new, setup, pinged, laterVars, timer, blocking, ioVars, ext>>

\* Select times out: the task whose time it is.
HubTimesOut ==
    /\ hpc = "select" /\ ~ pinged /\ WithIo = {} /\ "timer" \in tasks /\ timer.due
    /\ hpc' = "collect" /\ Resume({"timer"}, {})
    /\ UNCHANGED <<hasQuit, allDone, spc, new, setup, incoming, pinged, chosen, laterVars, timer, blocking, ioVars, ext>>

-----------------------------------------------------------------------------
(* Tasks.                                                                  *)

\* The rest of the scheduler's step is the same for all tasks.
Yield(t) == spc' = "check" /\ new' = new \ {t} /\ UNCHANGED <<hasQuit, allDone, setup>>

\* CallLaterTask.run: the pinger is emptied first, then the calls are made.
LaterWakes ==
    /\ Takes("later")
    /\ IF "later" \in new
         THEN Yield("later") /\ Register("later") /\ UNCHANGED laterPing
         ELSE spc' = "calls" /\ laterPing' = FALSE /\ UNCHANGED <<hasQuit, allDone, new, setup, hubVars>>
    /\ UNCHANGED <<calls, asked, called, timer, blocking, ioVars, ext>>

\* A function that is called sends something, quits, or does neither.
LaterCalls ==
    /\ spc = "calls" /\ calls # <<>>
    /\ calls' = Tail(calls) /\ called' = called + 1
    /\ hasQuit' = (hasQuit \/ calls[1] = "quit")
    /\ IF calls[1] = "send"
         THEN worker' = [worker EXCEPT !.buf = @ + 1] /\ ioPing' = TRUE
         ELSE UNCHANGED <<worker, ioPing>>
    /\ UNCHANGED <<ready, event, allDone, spc, new, setup, hubVars, laterPing, asked, timer, blocking, commands, reg, got, received, ext>>

LaterWaits ==
    /\ spc = "calls" /\ calls = <<>> /\ Yield("later") /\ Register("later")
    /\ UNCHANGED <<ready, event, laterVars, timer, blocking, ioVars, ext>>

\* Timer.run, a recurring timer: asleep until its time, which may be over at once.
TimerRuns ==
    /\ First(Turn("timer")) /\ Yield("timer")
    /\ LET again == ~ timer.cancelled /\ "timer" \in new /\ timer.due IN
       /\ ready' = IF again THEN Append(Tail(ready), Turn("timer")) ELSE Tail(ready)
       /\ event' = (event \/ again)
       /\ IF again \/ timer.cancelled THEN UNCHANGED hubVars ELSE Register("timer")
       /\ timer' = IF again THEN timer
                   ELSE [timer EXCEPT !.on = ~ timer.cancelled, !.due = FALSE]
    /\ UNCHANGED <<laterVars, blocking, ioVars, ext>>

\* BlockingTask.run with CallBlocking: a thread makes the call and wakes the task.
BlockRuns ==
    /\ Takes("block") /\ Yield("block") /\ blocking' = ("block" \in new)
    /\ UNCHANGED <<hubVars, laterVars, timer, ioVars, ext>>
BlockReturns ==
    /\ blocking /\ blocking' = FALSE /\ Schedule(<<Turn("block")>>)
    /\ UNCHANGED <<hasQuit, allDone, spc, new, setup, hubVars, laterVars, timer, ioVars, ext>>

\* RecocoIOLoop.run after its select: the pinger is emptied, what has arrived is
\* pushed to the client, which may answer, and what is to be sent is written, all
\* or some.  Both may fail: the worker is taken out, its closing queued.
IoHandles ==
    /\ Takes("io") /\ "io" \notin new /\ spc' = "io"
    /\ LET n == IF got.r THEN worker.inbox ELSE 0 IN
       \E answers \in 0..n, fails \in {FALSE, got.r \/ got.w} :
       \E l \in IF got.w /\ ~ fails /\ worker.buf > 0 THEN 1..worker.buf ELSE {0} :
         /\ worker' = [worker EXCEPT !.inbox = @ - n, !.buf = @ + answers - l, !.in = @ /\ ~ fails]
         /\ received' = received + n
         /\ commands' = IF fails THEN Append(commands, "close") ELSE commands
         /\ ioPing' = ((ioPing /\ ~ got.p) \/ answers > 0 \/ fails)
    /\ got' = NoSelect
    /\ UNCHANGED <<hasQuit, allDone, new, setup, hubVars, laterVars, timer, blocking, reg, ext>>

\* The top of the loop: what other threads have asked for, one command after the
\* other (lambda, close_worker), then the next select.
Carried(w, c) == IF c = "add" THEN [w EXCEPT !.in = TRUE]
                 ELSE [w EXCEPT !.in = FALSE, !.sock = "closed"]
Watch(v) == [p |-> TRUE, r |-> v.in, w |-> v.in /\ v.buf > 0]

IoStarts ==
    /\ Takes("io") /\ "io" \in new /\ spc' = "io" /\ new' = new \ {"io"}
    /\ UNCHANGED <<hasQuit, allDone, setup, hubVars, laterVars, timer, blocking, ioVars, ext>>
IoCommand ==
    /\ spc = "io" /\ commands # <<>>
    /\ worker' = Carried(worker, commands[1]) /\ commands' = Tail(commands)
    /\ UNCHANGED <<schedVars, hubVars, laterVars, timer, blocking, ioPing, reg, got, received, ext>>
IoTop ==
    /\ spc = "io" /\ commands = <<>> /\ reg' = Watch(worker)
    /\ Yield("io") /\ Register("io")
    /\ UNCHANGED <<ready, event, laterVars, timer, blocking, commands, ioPing, worker, got, received, ext>>

SchedulerStep ==
    \/ Wait \/ Wakes \/ Clear \/ Final \/ (\E t \in setup.tasks : StartRuns(t))
    \/ LaterWakes \/ LaterCalls \/ LaterWaits \/ TimerRuns \/ BlockRuns
    \/ IoStarts \/ IoHandles \/ IoCommand \/ IoTop
HubStep == HubCollects \/ HubSelects \/ HubHandles \/ HubTimesOut

-----------------------------------------------------------------------------
(* Other threads.  What they start goes through a ScheduleTask.            *)

Exists(t) == t \in setup.tasks \ new \/ \E k \in {"start", "run"} : <<k, t>> \in Range(ready)
Launch(t) ==
    /\ t \in setup.tasks /\ ~ Exists(t) /\ ext = "none"
    /\ Schedule(<<Start(t)>>)
    /\ timer' = IF t = "timer" THEN [timer EXCEPT !.on = TRUE] ELSE timer
    /\ UNCHANGED <<hasQuit, allDone, spc, new, setup, hubVars, laterVars, blocking, ioVars, ext>>

\* callLater: the call is queued, then the pinger is pinged.
CallLater ==
    /\ ext = "none" /\ Exists("later") /\ asked < setup.calls
    /\ \E f \in {"f", "quit"} \cup (IF worker.sock = "open" THEN {"send"} ELSE {}) :
         calls' = Append(calls, f)
    /\ asked' = asked + 1 /\ ext' = "later"
    /\ UNCHANGED <<schedVars, hubVars, laterPing, called, timer, blocking, ioVars>>

\* create_worker_for_socket and RecocoIOWorker.close: commands for the loop.
CreateWorker ==
    /\ ext = "none" /\ "io" \in setup.tasks /\ worker.sock = "none" /\ ext' = "io"
    /\ worker' = [worker EXCEPT !.sock = "open"]
    /\ commands' = Append(commands, "add")
    /\ UNCHANGED <<schedVars, hubVars, laterVars, timer, blocking, ioPing, reg, got, received>>

CloseAtOnce ==
    /\ worker' = [worker EXCEPT !.sock = "closed", !.in = FALSE] /\ UNCHANGED commands
CloseQueued == commands' = Append(commands, "close") /\ UNCHANGED worker
CloseWorker ==
    /\ ext = "none" /\ worker.sock = "open" /\ "close" \notin Range(commands)
    /\ CloseQueued /\ ext' = "io"
    /\ UNCHANGED <<schedVars, hubVars, laterVars, timer, blocking, ioPing, reg, got, received>>

Pinged ==
    /\ ext # "none" /\ ext' = "none"
    /\ laterPing' = (laterPing \/ ext = "later") /\ ioPing' = (ioPing \/ ext = "io")
    /\ UNCHANGED <<schedVars, hubVars, calls, asked, called, timer, blocking, commands, worker, reg, got, received>>

Cancel ==
    /\ timer.on /\ ~ timer.cancelled /\ timer' = [timer EXCEPT !.cancelled = TRUE]
    /\ UNCHANGED <<schedVars, hubVars, laterVars, blocking, ioVars, ext>>

\* Time passes; the worker's peer sends, or ends the stream, which the loop never
\* notices: recv returns nothing, again and again.
TimePasses ==
    /\ timer.on /\ ~ timer.due /\ timer' = [timer EXCEPT !.due = TRUE]
    /\ UNCHANGED <<schedVars, hubVars, laterVars, blocking, ioVars, ext>>
PeerSends ==
    /\ worker.sock = "open" /\ ~ worker.eof
    /\ \/ received + worker.inbox < setup.msgs /\ worker' = [worker EXCEPT !.inbox = @ + 1]
       \/ worker' = [worker EXCEPT !.eof = TRUE]
    /\ UNCHANGED <<schedVars, hubVars, laterVars, timer, blocking, commands, ioPing, reg, got, received, ext>>

Next ==
    \/ SchedulerStep \/ HubStep \/ BlockReturns
    \/ (\E t \in Tasks : Launch(t)) \/ CallLater \/ CreateWorker \/ CloseWorker \/ Pinged
    \/ Cancel \/ TimePasses \/ PeerSends

\* The threads run; nothing is assumed of time, of the peer or of the callers,
\* except that a call once begun is finished.
Fairness == WF_vars(SchedulerStep) /\ WF_vars(HubStep) /\ WF_vars(BlockReturns) /\ WF_vars(Pinged)
Spec == Init /\ [][Next]_vars /\ Fairness

-----------------------------------------------------------------------------
\* No task is in two places: ready to run, in the hub's queue, waiting in the hub
\* or in a call on its own thread.  The threads that resume tasks never resume one
\* that another has resumed ("race condition where the Task may get scheduled
\* multiple times", ScheduleTask, recoco.py:643-651).
Places(t) ==
    Cardinality({i \in DOMAIN ready : ready[i] = Turn(t)})
      + Cardinality({i \in DOMAIN incoming : incoming[i] = t})
      + Cardinality(tasks \cap {t})
      + (IF t = "block" /\ blocking THEN 1 ELSE 0)
OnePlace == \A t \in Tasks : Places(t) <= 1

\* The hub never waits on a socket that has been closed, which would end its
\* thread: workers are closed only by the loop itself, between two selects
\* (on_close, io_worker.py:113-120).
ClosedNotSelected == ~ (hpc = "select" /\ "io" \in tasks /\ reg.r /\ worker.sock = "closed")

\* Whatever else is going on and unless the scheduler has quit: every function handed
\* to callLater is called, a timer is called when its time has come, and what the
\* client sends is written (callLater, Timer.run, RecocoIOWorker.send).
Served ==
    /\ \A n \in {1, 2} : asked >= n ~> (called >= n \/ hasQuit)
    /\ timer.due ~> (~ timer.due \/ hasQuit)
    /\ worker.in /\ worker.buf > 0 ~> (worker.buf = 0 \/ ~ worker.in \/ hasQuit)

\* After quit, the scheduler and the hub's thread both end (core.quit, Scheduler.run).
QuitEnds == hasQuit ~> (allDone /\ hpc = "ended")
=============================================================================
