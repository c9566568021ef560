----------------------------- MODULE Constants -----------------------------
(***************************************************************************)
(* constants.hpp: the limit messages, frames and clients share.            *)
(***************************************************************************)
EXTENDS Naturals

kMaxPduSize == 253
=============================================================================
