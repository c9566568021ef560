------------------------- MODULE MCClientComponent -------------------------
(***************************************************************************)
(* A service with two clients for model checking ClientComponent.          *)
(***************************************************************************)
EXTENDS ClientComponent

Config(transport, slaveId, host, port, timeout) ==
  [transport |-> transport, slaveId |-> slaveId, host |-> host,
   port |-> port, timeout |-> timeout]

\* One that works, and one for each way the schema, the constructor or the
\* making of the client refuses it.
MCConfigs ==
  {Config("udp", 17, "address", Absent, "duration"),
   Config("tcp", 17, "address", 502, "duration"),
   Config("udp", 248, "address", 502, "duration"),
   Config("udp", 1, "name", 502, "duration"),
   Config("udp", 1, "address", 502, "word")}

\* Two users of one client, none of the other.
MCClientOf == [u \in Users |-> CHOOSE c \in Components : TRUE]
=============================================================================
