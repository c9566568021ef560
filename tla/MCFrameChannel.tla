--------------------------- MODULE MCFrameChannel ---------------------------
(***************************************************************************)
(* PDUs for model checking FrameChannel: none, the one of the tests, some  *)
(* others and one that is too long.                                        *)
(***************************************************************************)
EXTENDS FrameChannel

MCPdus ==
  {<<>>, <<3, 0, 107, 0, 3>>, <<0, 0, 255>>, <<129, 2>>,
   [i \in 1 .. kMaxPduSize |-> (5 * i) % 256],
   [i \in 1 .. kMaxPduSize + 1 |-> 0]}
=============================================================================
