------------------------------- MODULE Daemon -------------------------------
(***************************************************************************)
(* The life of the local daemon as its clients see it: internal/cald/daemon *)
(* Serve, the endpoint file that says where it listens, the stop handler of *)
(* internal/httpserver, and calctl's daemon start, daemon stop and any      *)
(* other command, each a process of its own over one CAL home.              *)
(*                                                                         *)
(* Reading, writing and removing endpoint.json are single steps: it is      *)
(* written by the WriteAtomic that RecordDir models.  Every daemon listens  *)
(* on a port of its own, so a record of a dead one leads to nobody.         *)
(***************************************************************************)
EXTENDS DaemonHome

vars == homeVars

TypeOK ==
  /\ endpoint \in Daemons \cup {NoDaemon}
  /\ proc \in [Daemons -> {"absent", "setup", "closing", "returning"} \cup Listening \cup Gone]
  /\ stopping \in [Daemons -> BOOLEAN] /\ overdue \in [Daemons -> BOOLEAN]
  /\ pc \in [Clients -> {"idle", "resolve", "spawn", "tick", "returned"} \cup Calling]
  /\ base \in [Clients -> Daemons \cup {NoDaemon}]
  /\ \A c \in Clients : pc[c] \in Calling => base[c] \in Daemons
  /\ reply \in [Clients -> {"none", "ok", "unavailable", "cut", "error", "unreleased"}]
  /\ child \in [Starters -> Daemons \cup {NoDaemon}]
  /\ deaths \in 0..MaxDeaths

Init ==
  /\ endpoint = NoDaemon
  /\ proc = [d \in Daemons |-> "absent"]
  /\ stopping = [d \in Daemons |-> FALSE]
  /\ overdue = [d \in Daemons |-> FALSE]
  /\ pc = [c \in Clients |-> "idle"]
  /\ base = [c \in Clients |-> NoDaemon]
  /\ reply = [c \in Clients |-> "none"]
  /\ child = [s \in Starters |-> NoDaemon]
  /\ deaths = 0

----------------------------------------------------------------------------
(* The daemon: Serve *)

Process(d, from, to) == proc[d] = from /\ proc' = [proc EXCEPT ![d] = to]

\* Listen, then endpoint.Write: from here a client can find it and connect.
Publish(d) ==
  /\ Process(d, "setup", "published")
  /\ endpoint' = d
  /\ UNCHANGED <<stopping, overdue, clientVars, deaths>>

\* The home, the listener or the write of the endpoint failed.
SetupFails(d) ==
  /\ Process(d, "setup", "exited")
  /\ UNCHANGED <<endpoint, stopping, overdue, clientVars, deaths>>

\* server.Serve accepts what has queued since Listen.
Serve(d) ==
  /\ Process(d, "published", "serving")
  /\ UNCHANGED <<endpoint, stopping, overdue, clientVars, deaths>>

\* server.Shutdown closes the listener; Serve is back with ErrServerClosed.
BeginShutdown(d) ==
  /\ stopping[d] /\ Process(d, "serving", "closing")
  /\ UNCHANGED <<endpoint, stopping, overdue, clientVars, deaths>>

\* Shutdown waits for the connections in use no longer than this.
ShutdownTimeout(d) ==
  /\ proc[d] \in {"closing", "returning"} /\ ~overdue[d]
  /\ overdue' = [overdue EXCEPT ![d] = TRUE]
  /\ UNCHANGED <<endpoint, proc, stopping, clientVars, deaths>>

\* The deferred endpoint.Remove, whosever record is there by now.
RemoveEndpoint(d) ==
  /\ Process(d, "closing", "returning")
  /\ endpoint' = NoDaemon
  /\ UNCHANGED <<stopping, overdue, clientVars, deaths>>

\* main returns and the process is gone, whatever Shutdown still waits for.
Exit(d) ==
  /\ Process(d, "returning", "exited")
  /\ UNCHANGED <<endpoint, stopping, overdue, clientVars, deaths>>

\* No signal is handled: the process is gone as it is.
Die(d) ==
  /\ Alive(d) /\ deaths < MaxDeaths
  /\ proc' = [proc EXCEPT ![d] = "killed"]
  /\ deaths' = deaths + 1
  /\ UNCHANGED <<endpoint, stopping, overdue, clientVars>>

----------------------------------------------------------------------------
(* One call of a client: the endpoint file, the connection, the handler *)

Step(c, from, to) == pc[c] = from /\ pc' = [pc EXCEPT ![c] = to]

Begin(c) ==
  /\ Step(c, "idle", "resolve")
  /\ UNCHANGED <<endpoint, daemonVars, base, reply, child, deaths>>

Spawned(c) == c \in Starters /\ child[c] # NoDaemon

\* The call came to nothing: start goes on to spawn, or to its next poll, and
\* any other command ends with it.
Failed(c, how) ==
  IF c \in Starters
  THEN /\ pc' = [pc EXCEPT ![c] = IF Spawned(c) THEN "tick" ELSE "spawn"]
       /\ UNCHANGED reply
  ELSE /\ pc' = [pc EXCEPT ![c] = "returned"]
       /\ reply' = [reply EXCEPT ![c] = how]

\* client.New reads endpoint.json.
Resolve(c) ==
  /\ endpoint # NoDaemon
  /\ Step(c, "resolve", "call")
  /\ base' = [base EXCEPT ![c] = endpoint]
  /\ UNCHANGED <<endpoint, daemonVars, reply, child, deaths>>

NotRunning(c) ==
  /\ pc[c] = "resolve" /\ endpoint = NoDaemon
  /\ Failed(c, "unavailable")
  /\ UNCHANGED <<endpoint, daemonVars, base, child, deaths>>

Connect(c) ==
  /\ Step(c, "call", "queued")
  /\ proc[base[c]] \in Listening
  /\ UNCHANGED <<endpoint, daemonVars, base, reply, child, deaths>>

Refused(c) ==
  /\ pc[c] = "call" /\ proc[base[c]] \notin Listening
  /\ Failed(c, "unavailable")
  /\ UNCHANGED <<endpoint, daemonVars, base, child, deaths>>

Accept(c) ==
  /\ Step(c, "queued", "running")
  /\ proc[base[c]] = "serving"
  /\ UNCHANGED <<endpoint, daemonVars, base, reply, child, deaths>>

\* The stop handler takes the endpoint file away itself.
Mut_HandleStop(c) ==
  /\ c \in Stoppers /\ Step(c, "running", "flushing")
  /\ Alive(base[c])
  /\ stopping' = [stopping EXCEPT ![base[c]] = TRUE]
  /\ endpoint' = NoDaemon
  /\ UNCHANGED <<proc, overdue, base, reply, child, deaths>>

\* The stop handler answers and stops nothing.
Mut_HandleStopOnly(c) ==
  /\ c \in Stoppers /\ Step(c, "running", "flushing")
  /\ Alive(base[c])
  /\ UNCHANGED <<endpoint, proc, stopping, overdue, base, reply, child, deaths>>

\* handleDaemonStop: the reply is in the buffer, the shutdown in a goroutine.
HandleStop(c) ==
  /\ c \in Stoppers /\ Step(c, "running", "flushing")
  /\ Alive(base[c])
  /\ stopping' = [stopping EXCEPT ![base[c]] = TRUE]
  /\ UNCHANGED <<endpoint, proc, overdue, base, reply, child, deaths>>

\* The handler has returned and its reply is sent; a handler already running
\* goes on while the daemon closes.
Reply(c) ==
  /\ pc[c] = IF c \in Stoppers THEN "flushing" ELSE "running"
  /\ Alive(base[c])
  /\ pc' = [pc EXCEPT ![c] = "returned"]
  /\ reply' = [reply EXCEPT ![c] = "ok"]
  /\ UNCHANGED <<endpoint, daemonVars, base, child, deaths>>

\* Still in the queue when the listener closed, or the process is gone.
Cut(c) ==
  /\ \/ pc[c] = "queued" /\ proc[base[c]] \notin Listening
     \/ pc[c] \in {"running", "flushing"} /\ ~Alive(base[c])
  /\ Failed(c, IF pc[c] = "queued" THEN "unavailable" ELSE "cut")
  /\ UNCHANGED <<endpoint, daemonVars, base, child, deaths>>

----------------------------------------------------------------------------
(* calctl daemon start *)

\* No daemon answered: cald is started in the background.
Spawn(s) ==
  /\ Step(s, "spawn", "resolve")
  /\ \E d \in Daemons :
       /\ Process(d, "absent", "setup")
       /\ child' = [child EXCEPT ![s] = d]
  /\ UNCHANGED <<endpoint, stopping, overdue, base, reply, deaths>>

\* No executable, no log file, or the exec failed.
SpawnFails(s) ==
  /\ Step(s, "spawn", "returned")
  /\ reply' = [reply EXCEPT ![s] = "error"]
  /\ UNCHANGED <<endpoint, daemonVars, base, child, deaths>>

\* waitReady's ticker: the next poll.
Tick(s) ==
  /\ Step(s, "tick", "resolve")
  /\ UNCHANGED <<endpoint, daemonVars, base, reply, child, deaths>>

Waiting(s) == Spawned(s) /\ pc[s] # "returned"

\* The child is left to itself.
Mut_StartTimeout(s) ==
  /\ Waiting(s)
  /\ pc' = [pc EXCEPT ![s] = "returned"]
  /\ reply' = [reply EXCEPT ![s] = "error"]
  /\ UNCHANGED <<endpoint, daemonVars, base, child, deaths>>

\* The timeout ends a poll under way, not the waiting.
Mut_PollTimeout(s) ==
  /\ Waiting(s) /\ pc[s] \in Calling
  /\ pc' = [pc EXCEPT ![s] = "tick"]
  /\ UNCHANGED <<endpoint, daemonVars, base, reply, child, deaths>>

\* waitReady's context ends, in a poll or between two: the child is killed.
StartTimeout(s) ==
  /\ Waiting(s)
  /\ pc' = [pc EXCEPT ![s] = "returned"]
  /\ reply' = [reply EXCEPT ![s] = "error"]
  /\ proc' = [proc EXCEPT ![child[s]] = IF Alive(child[s]) THEN "killed" ELSE @]
  /\ UNCHANGED <<endpoint, stopping, overdue, base, child, deaths>>

\* The daemon answered, and Release of the child's handle fails: start reports an
\* error with its daemon running.  On Unix Release has nothing that can fail.
ReleaseFails(s) ==
  /\ Spawned(s) /\ Step(s, "running", "returned")
  /\ Alive(base[s])
  /\ reply' = [reply EXCEPT ![s] = "unreleased"]
  /\ UNCHANGED <<endpoint, daemonVars, base, child, deaths>>

----------------------------------------------------------------------------

DaemonStep(d) ==
  \/ Publish(d) \/ SetupFails(d) \/ Serve(d)
  \/ BeginShutdown(d) \/ RemoveEndpoint(d) \/ Exit(d)

CallStep(c) ==
  \/ Resolve(c) \/ NotRunning(c) \/ Connect(c) \/ Refused(c)
  \/ Accept(c) \/ HandleStop(c) \/ Reply(c) \/ Cut(c)

StartStep(s) == Spawn(s) \/ SpawnFails(s) \/ Tick(s) \/ ReleaseFails(s)

Next ==
  \/ \E d \in Daemons : DaemonStep(d) \/ ShutdownTimeout(d) \/ Die(d)
  \/ \E c \in Clients : Begin(c) \/ CallStep(c)
  \/ \E s \in Starters : StartStep(s) \/ StartTimeout(s)

Spec == Init /\ [][Next]_vars

\* Processes are scheduled, handlers end, and the start timeout is a timer.
FairSpec ==
  /\ Spec
  /\ \A d \in Daemons : WF_vars(DaemonStep(d))
  /\ \A c \in Clients : WF_vars(CallStep(c))
  /\ \A s \in Starters : WF_vars(StartStep(s)) /\ WF_vars(StartTimeout(s))

----------------------------------------------------------------------------
(* Properties *)

\* Every calctl daemon start returns, even where the endpoint file never leads
\* to a daemon again because another one's exit removed it: by its timeout.
StartsReturn == \A s \in Starters : (pc[s] = "resolve") ~> (pc[s] = "returned")

\* A daemon whose stop was acknowledged is gone in the end, whatever requests
\* it has in hand.
StopTakesEffect ==
  \A c \in Stoppers : \A d \in Daemons :
    (reply[c] = "ok" /\ base[c] = d) ~> (proc[d] \in Gone)

\* docs/cal-release-v1/cal-module-cald.md:450 "Use `http.Server.Shutdown` with
\* `ShutdownTimeout`.": a request in hand is given that time to finish.  Serve
\* returns as soon as Shutdown has closed the listener, and the process exits
\* under the request.
DrainedOnStop ==
  \A c \in Requests : \A d \in Daemons :
    reply[c] = "cut" /\ base[c] = d => proc[d] = "killed" \/ overdue[d]
=============================================================================
