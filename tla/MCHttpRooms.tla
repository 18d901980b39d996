---------------------------- MODULE MCHttpRooms ----------------------------
(* The instances of HttpRooms for TLC, whose constants its .cfg gives. *)
EXTENDS HttpRooms
=============================================================================
