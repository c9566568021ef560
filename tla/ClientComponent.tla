-------------------------- MODULE ClientComponent --------------------------
(***************************************************************************)
(* The life of ClientComponent (client_component.cpp and .hpp): its        *)
(* constructor reads the configuration, registers a writer of metrics_     *)
(* with the statistics storage and makes the client; other components get  *)
(* a reference from GetClient and call it; its members are destroyed in    *)
(* the reverse of their order: client_, metrics_holder_, metrics_.  When   *)
(* the constructor throws, those that exist are destroyed the same way.    *)
(*                                                                         *)
(* The framework is external: it checks configurations against the schema  *)
(* before it constructs a component, destroys a component after those that *)
(* found it, and dumps the registered writers in a task of its own at any  *)
(* moment, under a lock that registering and unregistering take alone.     *)
(***************************************************************************)
EXTENDS Integers

CONSTANTS
  Components,  \* instances of ClientComponent in a service
  Users,       \* components that call GetClient
  ClientOf,    \* the instance each of them finds
  Configs,     \* static configurations
  MaxDumps     \* bound: dumps in a behaviour

\* A port that is not configured.
Absent == -1

ASSUME ComponentAssumption ==
  /\ ClientOf \in [Users -> Components]
  /\ Configs \subseteq [transport : STRING, slaveId : Int, host : STRING,
                        port : Int, timeout : STRING]
  /\ MaxDumps \in Nat

VARIABLES
  config,   \* configuration of each instance
  stage,    \* how far its constructor or destructor is
  metrics,  \* its members: metrics_,
  entry,    \*   whether metrics_holder_ holds a registered writer,
  client,   \*   and what client_ points to
  user,     \* what each user does
  down,     \* whether the service is stopping, or failed to start
  dumping,  \* whether a dump holds the lock
  left,     \* writers it has yet to call
  reading,  \* writers it is calling (one at most)
  dumps     \* dumps begun

lifeVars == <<stage, metrics, entry, client>>
dumpVars == <<dumping, left, reading, dumps>>
vars == <<config, lifeVars, user, down, dumpVars>>

\* "unwinding" is common to a constructor that threw and a destructor.
Stages == {"new", "configured", "registered", "ready", "unwinding", "gone"}
Lifetimes == {"none", "alive", "over"}

TypeOK ==
  /\ config \in [Components -> Configs]
  /\ stage \in [Components -> Stages]
  /\ metrics \in [Components -> Lifetimes]
  /\ entry \in [Components -> BOOLEAN]
  /\ client \in [Components -> Lifetimes]
  /\ user \in [Users -> {"new", "holding", "calling", "gone"}]
  /\ down \in BOOLEAN /\ dumping \in BOOLEAN
  /\ left \subseteq Components /\ reading \subseteq Components
  /\ dumps \in 0 .. MaxDumps

Init ==
  /\ config \in [Components -> Configs]
  /\ stage = [c \in Components |-> "new"]
  /\ metrics = [c \in Components |-> "none"]
  /\ entry = [c \in Components |-> FALSE]
  /\ client = [c \in Components |-> "none"]
  /\ user = [u \in Users |-> "new"]
  /\ down = FALSE /\ dumping = FALSE
  /\ left = {} /\ reading = {}
  /\ dumps = 0

----------------------------------------------------------------------------
(***************************************************************************)
(* The configuration.                                                      *)
(***************************************************************************)

\* GetStaticConfigSchema; an empty string stands for a value that is missing.
NumbersAllowed(c) ==
  /\ c.slaveId \in 1 .. 247
  /\ c.port = Absent \/ c.port \in 1 .. 65535

\* Variant: transport is any string.
SchemaAllowsTransports(c) ==
  c.transport # "" /\ c.host # "" /\ c.timeout # "" /\ NumbersAllowed(c)

SchemaAllows(c) ==
  c.transport = "udp" /\ c.host # "" /\ c.timeout # "" /\ NumbersAllowed(c)

\* The conversions of the constructor: As<uint8_t>, As<uint16_t> with a default
\* and As<milliseconds> throw when the value is not one of the type.
Converts(c) ==
  /\ c.slaveId \in 0 .. 255
  /\ c.port = Absent \/ c.port \in 0 .. 65535
  /\ c.timeout = "duration"

----------------------------------------------------------------------------
(***************************************************************************)
(* Construction.                                                           *)
(***************************************************************************)

Enter(c, s) == stage' = [stage EXCEPT ![c] = s]

\* The constructor ends with an exception: what exists is destroyed, and the
\* service stops.
Throw(c) == Enter(c, "unwinding") /\ down' = TRUE

\* The framework refuses the configuration.
Reject(c) ==
  /\ stage[c] = "new" /\ ~ down
  /\ ~ SchemaAllows(config[c])
  /\ down' = TRUE
  /\ UNCHANGED <<config, lifeVars, user, dumpVars>>

\* The members are constructed and the configuration is read.
ReadConfig(c) ==
  /\ stage[c] = "new" /\ ~ down
  /\ SchemaAllows(config[c])
  /\ metrics' = [metrics EXCEPT ![c] = "alive"]
  /\ IF Converts(config[c]) THEN Enter(c, "configured") /\ UNCHANGED down
     ELSE Throw(c)
  /\ UNCHANGED <<config, entry, client, user, dumpVars>>

\* FindComponent throws when the service is already stopping.
Cancelled(c) ==
  /\ stage[c] = "configured" /\ down
  /\ Throw(c)
  /\ UNCHANGED <<config, metrics, entry, client, user, dumpVars>>

RegisterWriter(c) ==
  /\ stage[c] = "configured" /\ ~ dumping
  /\ entry' = [entry EXCEPT ![c] = TRUE]
  /\ Enter(c, "registered")
  /\ UNCHANGED <<config, metrics, client, user, down, dumpVars>>

\* MakeUdpClient, when the transport is "udp".
MakeClient(c) ==
  /\ stage[c] = "registered"
  /\ IF config[c].transport = "udp"
       THEN config[c].host = "address" /\ client' = [client EXCEPT ![c] = "alive"]
       ELSE UNCHANGED client
  /\ Enter(c, "ready")
  /\ UNCHANGED <<config, metrics, entry, user, down, dumpVars>>

\* MakeIPSocketAddress throws when host is a name; the constructor of the socket
\* may always throw.
MakeFails(c) ==
  /\ stage[c] = "registered"
  /\ config[c].transport = "udp"
  /\ Throw(c)
  /\ UNCHANGED <<config, metrics, entry, client, user, dumpVars>>

----------------------------------------------------------------------------
(***************************************************************************)
(* Use by other components.                                                *)
(***************************************************************************)

\* *client_ is dereferenced whatever client_ is.
GetClient(u) ==
  /\ user[u] = "new" /\ ~ down
  /\ stage[ClientOf[u]] = "ready"
  /\ user' = [user EXCEPT ![u] = "holding"]
  /\ UNCHANGED <<config, lifeVars, down, dumpVars>>

\* A request is counted in metrics_ when it begins and when it ends.
Call(u) ==
  /\ user[u] = "holding"
  /\ user' = [user EXCEPT ![u] = "calling"]
  /\ UNCHANGED <<config, lifeVars, down, dumpVars>>

Return(u) ==
  /\ user[u] = "calling"
  /\ user' = [user EXCEPT ![u] = "holding"]
  /\ UNCHANGED <<config, lifeVars, down, dumpVars>>

\* A user is destroyed when its tasks have ended.
DestroyUser(u) ==
  /\ down /\ user[u] = "holding"
  /\ user' = [user EXCEPT ![u] = "gone"]
  /\ UNCHANGED <<config, lifeVars, down, dumpVars>>

----------------------------------------------------------------------------
(***************************************************************************)
(* Destruction.                                                            *)
(***************************************************************************)

Shutdown ==
  /\ ~ down
  /\ down' = TRUE
  /\ UNCHANGED <<config, lifeVars, user, dumpVars>>

\* client_ is the last member, the first to go.
DestroyClient(c) ==
  /\ down /\ stage[c] = "ready"
  /\ \A u \in Users : ClientOf[u] = c => user[u] \in {"new", "gone"}
  /\ client' = [client EXCEPT ![c] = IF @ = "alive" THEN "over" ELSE @]
  /\ Enter(c, "unwinding")
  /\ UNCHANGED <<config, metrics, entry, user, down, dumpVars>>

\* Variant: only a destructor unregisters, not a constructor that throws.
UnregisterIfMade(c) ==
  /\ stage[c] = "unwinding" /\ entry[c] /\ ~ dumping
  /\ client[c] = "over"
  /\ entry' = [entry EXCEPT ![c] = FALSE]
  /\ UNCHANGED <<config, stage, metrics, client, user, down, dumpVars>>

\* The destructor of metrics_holder_ waits for a dump in progress.
Unregister(c) ==
  /\ stage[c] = "unwinding" /\ entry[c] /\ ~ dumping
  /\ entry' = [entry EXCEPT ![c] = FALSE]
  /\ UNCHANGED <<config, stage, metrics, client, user, down, dumpVars>>

\* Variant: metrics_ declared after metrics_holder_.
MetricsBeforeEntry(c) ==
  /\ stage[c] = "unwinding" /\ metrics[c] = "alive"
  /\ metrics' = [metrics EXCEPT ![c] = "over"]
  /\ IF entry[c] THEN UNCHANGED stage ELSE Enter(c, "gone")
  /\ UNCHANGED <<config, entry, client, user, down, dumpVars>>

\* Variant: the entry is a raw handle that nothing destroys.
MetricsWithoutEntry(c) ==
  /\ stage[c] = "unwinding"
  /\ metrics' = [metrics EXCEPT ![c] = "over"]
  /\ Enter(c, "gone")
  /\ UNCHANGED <<config, entry, client, user, down, dumpVars>>

\* metrics_ is the first member, the last to go.
DestroyMetrics(c) ==
  /\ stage[c] = "unwinding" /\ ~ entry[c]
  /\ metrics' = [metrics EXCEPT ![c] = "over"]
  /\ Enter(c, "gone")
  /\ UNCHANGED <<config, entry, client, user, down, dumpVars>>

----------------------------------------------------------------------------
(***************************************************************************)
(* Dumps (external).                                                       *)
(***************************************************************************)

StartDump ==
  /\ ~ dumping /\ dumps < MaxDumps
  /\ dumping' = TRUE
  /\ dumps' = dumps + 1
  /\ left' = {c \in Components : entry[c]}
  /\ UNCHANGED <<config, lifeVars, user, down, reading>>

\* The writer, which reads metrics_ from begin to end.
StartWriter(c) ==
  /\ c \in left /\ reading = {}
  /\ left' = left \ {c}
  /\ reading' = {c}
  /\ UNCHANGED <<config, lifeVars, user, down, dumping, dumps>>

EndWriter ==
  /\ reading # {}
  /\ reading' = {}
  /\ UNCHANGED <<config, lifeVars, user, down, dumping, left, dumps>>

EndDump ==
  /\ dumping /\ left = {} /\ reading = {}
  /\ dumping' = FALSE
  /\ UNCHANGED <<config, lifeVars, user, down, left, reading, dumps>>

Settled == \A c \in Components : stage[c] \in {"new", "gone"}

Finished ==
  /\ down /\ Settled /\ ~ dumping
  /\ UNCHANGED vars

Construct(c) ==
  ReadConfig(c) \/ Cancelled(c) \/ RegisterWriter(c) \/ MakeClient(c) \/ MakeFails(c)

Destroy(c) == DestroyClient(c) \/ Unregister(c) \/ DestroyMetrics(c)

Dump == (\E c \in Components : StartWriter(c)) \/ EndWriter \/ EndDump

Next ==
  \/ \E c \in Components : Reject(c) \/ Construct(c) \/ Destroy(c)
  \/ \E u \in Users : GetClient(u) \/ Call(u) \/ Return(u) \/ DestroyUser(u)
  \/ Shutdown \/ StartDump \/ Dump \/ Finished

Spec == Init /\ [][Next]_vars

\* Constructors, destructors and dumps run on.  Calls return, whatever the
\* network does, and a user that waits to be destroyed makes no more of them.
Fairness ==
  /\ \A c \in Components : WF_vars(Construct(c)) /\ WF_vars(Destroy(c))
  /\ \A u \in Users : WF_vars(Return(u)) /\ SF_vars(DestroyUser(u))
  /\ WF_vars(Dump)

FairSpec == Spec /\ Fairness

----------------------------------------------------------------------------
(***************************************************************************)
(* Properties.                                                             *)
(***************************************************************************)

\* A dump never reads the metrics of an instance that does not exist: not before
\* its constructor, not while or after it is destroyed, not after its constructor
\* threw behind RegisterWriter.
DumpReadsMetrics == \A c \in left \cup reading : metrics[c] = "alive"

\* Whoever holds the reference GetClient returned holds one to a client that
\* exists, and whose metrics do.
ReferenceIsValid ==
  \A u \in Users : user[u] \in {"holding", "calling"} =>
    client[ClientOf[u]] = "alive" /\ metrics[ClientOf[u]] = "alive"

\* An instance that is gone, or never came to be, has left no writer and no
\* client behind.
NothingLeftBehind ==
  \A c \in Components : stage[c] \in {"new", "gone"} =>
    ~ entry[c] /\ client[c] # "alive" /\ metrics[c] # "alive"

\* A service that stops, or fails to start halfway, gets rid of every instance,
\* although unregistering waits for dumps.
ShutdownEnds == down ~> Settled

(***************************************************************************)
(* What keeps the properties true between the steps that could break them: *)
(* the parts of the inductive invariant of ClientComponentProofs.          *)
(***************************************************************************)

\* Which members exist is decided by how far an instance has come.
MembersFollowStage ==
  \A c \in Components :
    /\ (metrics[c] = "alive") <=> (stage[c] \notin {"new", "gone"})
    /\ stage[c] \in {"new", "configured", "gone"} => ~ entry[c]
    /\ stage[c] \in {"registered", "ready"} => entry[c]
    /\ (client[c] = "alive") <=> (stage[c] = "ready")

OnlyAllowedConfigs ==
  \A c \in Components : stage[c] # "new" => SchemaAllows(config[c])

\* A dump calls writers that are registered, and only while it holds the lock.
DumpHoldsEntries ==
  /\ \A c \in left \cup reading : entry[c]
  /\ ~ dumping => left = {} /\ reading = {}

UsersFindReady ==
  \A u \in Users : user[u] \in {"holding", "calling"} => stage[ClientOf[u]] = "ready"
=============================================================================
