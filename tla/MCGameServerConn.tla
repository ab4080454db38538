-------------------------- MODULE MCGameServerConn --------------------------
(***************************************************************************)
(* Three frames at most, of four kinds: a Verification (answered), an     *)
(* UpdateCount-sized frame (not answered), a frame shorter than the       *)
(* fields its handler reads, and a length header of 0.  Lengths are       *)
(* scaled: MaxFrameLen 2 stands for 8192, and two frames per tick for 25. *)
(***************************************************************************)
EXTENDS GameServerConn

MCFrameKinds ==
  {[len |-> 2, need |-> 2, reply |-> TRUE],
   [len |-> 1, need |-> 1, reply |-> FALSE],
   [len |-> 1, need |-> 2, reply |-> FALSE],
   [len |-> 0, need |-> 0, reply |-> FALSE]}
=============================================================================
