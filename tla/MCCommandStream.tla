-------------------------- MODULE MCCommandStream --------------------------
(* A small instance of CommandStream for TLC.  A header has two bytes.  A    *)
(* layer's packet fits the encoder's buffer, one with a longer name makes it *)
(* grow, and then a layer and a query leave in one flush.  The read buffer   *)
(* starts with two bytes and has to double twice.                            *)
EXTENDS CommandStream

MCPacketSize == [layer |-> 3, longLayer |-> 5, query |-> 2]
=============================================================================
