--------------------------- MODULE MCSessionsStore ---------------------------
(* Two tracked sessions that alternate between two states, five accessor    *)
(* calls, one failed write and one crash.                                    *)
EXTENDS SessionsStore

MCState == {"working", "completed"}
=============================================================================
