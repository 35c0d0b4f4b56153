------------------------------ MODULE DaemonHome ------------------------------
(***************************************************************************)
(* What the daemons and the commands over one CAL home share, and what must *)
(* hold of it at any time.  Daemon says what they do.                       *)
(***************************************************************************)
EXTENDS Naturals

CONSTANTS
  Daemons,    \* cald processes, each started once at most
  Starters,   \* calctl daemon start, one Start each
  Stoppers,   \* calctl daemon stop
  Requests,   \* any other command: one call, however long
  NoDaemon,   \* no endpoint file, no child
  MaxDeaths   \* bound: daemons killed from outside

ASSUME DaemonAssumption ==
  /\ NoDaemon \notin Daemons
  /\ MaxDeaths \in Nat
  /\ Starters \cap Stoppers = {} /\ (Starters \cup Stoppers) \cap Requests = {}

VARIABLES
  endpoint,  \* the daemon endpoint.json leads to
  proc,      \* [Daemons -> where its process is]
  stopping,  \* [Daemons -> the stop handler has started the shutdown goroutine]
  overdue,   \* [Daemons -> ShutdownTimeout has passed since Shutdown began]
  pc,        \* [Clients -> the step it is at]
  base,      \* [Clients -> the daemon its client.New found]
  reply,     \* [Clients -> what the command ends with]
  child,     \* [Starters -> the daemon it spawned]
  deaths     \* daemons killed from outside so far

daemonVars == <<proc, stopping, overdue>>
clientVars == <<pc, base, reply, child>>
homeVars == <<endpoint, daemonVars, clientVars, deaths>>

Clients == Starters \cup Stoppers \cup Requests
Calling == {"call", "queued", "running", "flushing"}
Listening == {"published", "serving"}
Gone == {"exited", "killed"}
Alive(d) == proc[d] \notin Gone \cup {"absent"}

----------------------------------------------------------------------------
\* A daemon that left by itself is not in the endpoint file, whoever else has
\* written or removed it meanwhile (Serve's deferred Remove; a failed setup).
CleanExit == \A d \in Daemons : proc[d] = "exited" => endpoint # d

\* A daemon that serves loses its endpoint record only to another daemon: to
\* one that publishes its own, or to one that exits and removes what is there.
RecordLostOnlyToAnother ==
  [][\A d \in Daemons :
       proc[d] \in Listening /\ endpoint = d /\ endpoint' # d =>
         \E e \in Daemons \ {d} :
           proc'[e] # proc[e] /\ proc'[e] \in {"published", "returning"}]_homeVars

\* A start that reports an error has left no daemon of its own behind, however
\* far that one had come when the timeout fell (Start).  The error of Release,
\* which the code returns without a kill, is "unreleased" and not meant.
NoLeakedChild ==
  \A s \in Starters :
    reply[s] = "error" /\ child[s] # NoDaemon => ~Alive(child[s])
=============================================================================
