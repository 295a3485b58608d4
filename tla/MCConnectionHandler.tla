-------------------------- MODULE MCConnectionHandler --------------------------
(* ConnectionHandler for TLC.  A chunk is small (it lowers the buffer size),  *)
(* about a buffer (it raises it), or, with the rest of an earlier packet, a   *)
(* little more than one.                                                      *)
EXTENDS ConnectionHandler

SmallAndLarge == {1, 5, 6}
===============================================================================
