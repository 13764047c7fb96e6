------------------------------- MODULE Serve -------------------------------
(***************************************************************************)
(* roos-cli/src/cmd/serve.rs: the process that runs the trigger server and *)
(* the scheduler's ticks until a signal asks it to stop.  Four parties:    *)
(* the main task, the signal task, the tick loop and the requests of the   *)
(* server; a oneshot tells the server to shut down and a watch channel     *)
(* tells the tick loop.                                                    *)
(***************************************************************************)
EXTENDS TriggerServer

VARIABLES
    main,       \* where serve::run is
    listener,   \* the signal task
    shutdown,   \* the oneshot to the server: "unset", "sent" or "dropped"
    ticks,      \* the tick loop
    stop        \* the watch channel to it: "unset", "sent" or "dropped"

serveVars == <<main, listener, shutdown, ticks, stop>>

Mains == {"off", "opened", "spawned", "serving", "draining", "joining",
          "ok", "error", "killed"}
Listeners == {"off", "starting", "listening", "failed", "over"}
Ticks == {"off", "sleeping", "ticking", "over"}

ServeInit ==
    /\ main = "off"
    /\ listener = "off" /\ shutdown = "unset"
    /\ ticks = "off" /\ stop = "unset"

Running == main \notin {"off", "ok", "error", "killed"}

\* CronScheduler::open, which fails if another process has the store.
Open ==
    /\ main = "off"
    /\ main' \in {"opened", "error"}
    /\ UNCHANGED <<triggerVars, listener, shutdown, ticks, stop>>

\* The server is made, without token and secret, and the two tasks are spawned.
Spawn ==
    /\ main = "opened"
    /\ main' = "spawned"
    /\ agents' = agents + 1
    /\ listener' = "starting" /\ ticks' = "sleeping"
    /\ UNCHANGED <<token, secret, head, phase, reply, runs, shutdown, stop>>

\* serve_with_shutdown binds the port, which may be taken: then `?` returns and all
\* that main owns is dropped.
Bind ==
    /\ main = "spawned"
    /\ \/ main' = "serving" /\ UNCHANGED stop
       \/ main' = "error" /\ stop' = "dropped"
    /\ UNCHANGED <<triggerVars, listener, shutdown, ticks>>

\* No more connections are taken; a dropped sender is as good as a message.
Drain ==
    /\ main = "serving"
    /\ shutdown # "unset"
    /\ main' = "draining"
    /\ UNCHANGED <<triggerVars, listener, shutdown, ticks, stop>>

DrainedAtOnce == main = "draining"
Drained == main = "draining" /\ \A q \in Reqs : ~ InFlight(q)

\* stop_tx.send: a watch channel keeps the news for a receiver that is busy.
SendHeardAsleep == IF ticks = "sleeping" THEN stop' = "sent" ELSE UNCHANGED stop
SendStop == stop' = "sent"

ServerEnds ==
    /\ Drained
    /\ SendStop
    /\ main' = "joining"
    /\ UNCHANGED <<triggerVars, listener, shutdown, ticks>>

Join ==
    /\ main = "joining"
    /\ ticks = "over"
    /\ main' = "ok"
    /\ UNCHANGED <<triggerVars, listener, shutdown, ticks, stop>>

MainStep == Spawn \/ Bind \/ Drain \/ ServerEnds \/ Join

-----------------------------------------------------------------------------
(* The tick loop *)

\* due_tasks is called and logged: nothing else comes of a due task here.
Tick ==
    /\ Running
    /\ \/ ticks = "sleeping" /\ ticks' = "ticking"
       \/ ticks = "ticking" /\ ticks' = "sleeping"
    /\ UNCHANGED <<triggerVars, main, listener, shutdown, stop>>

TicksStop ==
    /\ Running
    /\ ticks = "sleeping"
    /\ stop # "unset"
    /\ ticks' = "over"
    /\ UNCHANGED <<triggerVars, main, listener, shutdown, stop>>

-----------------------------------------------------------------------------
(* Signals *)

Killed == main' = "killed" /\ UNCHANGED <<listener, shutdown>>

\* The handlers are installed by the first poll of the signal task, which panics, and
\* drops its sender, if it cannot: the handlers it did install stay, any other signal
\* still ends the process.
Listen ==
    /\ Running
    /\ listener = "starting"
    /\ \/ listener' = "listening" /\ UNCHANGED shutdown
       \/ listener' = "failed" /\ shutdown' = "dropped"
    /\ UNCHANGED <<triggerVars, main, ticks, stop>>

\* SIGINT or SIGTERM.  Without a handler it ends the process; a handler outlives the
\* task that installed it, so a second signal has no effect.
Interrupt ==
    /\ Running
    /\ \/ listener \in {"off", "starting", "failed"} /\ Killed
       \/ /\ listener = "listening"
          /\ listener' = "over" /\ shutdown' = "sent"
          /\ UNCHANGED main
    /\ UNCHANGED <<triggerVars, ticks, stop>>

\* SIGHUP before the handlers are there; afterwards it is only logged.
HangUp ==
    /\ Running
    /\ listener \in {"off", "starting", "failed"}
    /\ Killed
    /\ UNCHANGED <<triggerVars, ticks, stop>>

-----------------------------------------------------------------------------

\* Connections come while the server listens and not beyond.
Connect(q) ==
    /\ main = "serving"
    /\ \E h \in Heads : Arrive(q, h)
    /\ UNCHANGED serveVars

Exchange(q) ==
    /\ Running
    /\ RequestStep(q)
    /\ UNCHANGED serveVars

ServeStep ==
    \/ MainStep
    \/ Tick \/ TicksStop
    \/ Listen \/ Interrupt \/ HangUp
    \/ \E q \in Reqs : Connect(q) \/ Exchange(q)

ServeNext == Open \/ ServeStep

ServeSpec == TriggerInit /\ ServeInit /\ [][ServeNext]_<<triggerVars, serveVars>>

\* The tasks of the process run, and a client sends its body and takes its answer, or
\* leaves.  select! picks the stop of the tick loop sooner or later: the sleep it competes
\* with is over once a second.
ServeFairness ==
    /\ WF_<<triggerVars, serveVars>>(MainStep)
    /\ WF_<<triggerVars, serveVars>>(Tick)
    /\ SF_<<triggerVars, serveVars>>(TicksStop)
    /\ \A q \in Reqs : WF_<<triggerVars, serveVars>>(Exchange(q))

-----------------------------------------------------------------------------
(* Properties *)

\* serve::run returns Ok only after a signal asked for it (or none can be heard), when
\* every request that was taken has its answer or lost its client, and when the tick loop
\* and with it the scheduler's store are closed (serve.rs:69-79, server.rs:184-192).
GracefulExit ==
    main = "ok" =>
        /\ shutdown # "unset"
        /\ \A q \in Reqs : ~ InFlight(q)
        /\ ticks = "over"

\* A shutdown that was asked for comes to its end, wherever the tick loop is when it is
\* told, although main waits for it without a timeout; only a signal that could not be
\* given a handler may cut it short (serve.rs:69-77, 86).
ShutdownCompletes ==
    (main \in {"serving", "draining", "joining"} /\ shutdown # "unset")
        ~> main = "ok" \/ (main = "killed" /\ listener = "failed")

=============================================================================
