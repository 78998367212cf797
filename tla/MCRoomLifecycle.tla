--------------------------- MODULE MCRoomLifecycle ---------------------------
(***************************************************************************)
(* RoomLifecycle for TLC.  Two room objects let a number be created again  *)
(* while the first object still has users.  One session that joins twice,  *)
(* with four threads at work on it, fills the room and overlaps itself: a  *)
(* second join may meet the row, the reap or the leave of the first.       *)
(***************************************************************************)
EXTENDS RoomLifecycle
=============================================================================
