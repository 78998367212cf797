------------------------------- MODULE PlainJoin -------------------------------
(***************************************************************************)
(* What the handler promises of a join when no capability is involved: a   *)
(* join is answered with success and makes its handle a member, or with    *)
(* one of the errors the mixer had before capabilities existed, and then   *)
(* changes nothing.  A strict mixer has one error more.                    *)
(***************************************************************************)
EXTENDS Integers, FiniteSets

CONSTANTS Handles, Rooms, NoRoom, RoomSize

VARIABLES
  strict,   \* may a join be refused for its capability? fixed when the mixer starts
  member,   \* the room each handle is in, or NoRoom
  code      \* the error code of the last reply, "ok" for none

Members(r) == {h \in Handles : member[h] = r}

Errors ==
  {"already_joined", "no_such_room", "invalid_sdp", "room_full", "other"}
    \union (IF strict THEN {"join_cap"} ELSE {})

PlainInit == strict \in BOOLEAN /\ member = [h \in Handles |-> NoRoom] /\ code = "ok"

Admitted(h, r) ==
  /\ member[h] = NoRoom
  /\ member' = [member EXCEPT ![h] = r]
  /\ code' = "ok"

Answered(c) ==
  /\ c = "room_full" => \E r \in Rooms : Cardinality(Members(r)) >= RoomSize
  /\ c = "already_joined" => \E h \in Handles : member[h] # NoRoom
  /\ code' = c
  /\ UNCHANGED member

Left(h) ==
  /\ member[h] # NoRoom
  /\ member' = [member EXCEPT ![h] = NoRoom]
  /\ UNCHANGED code

PlainNext ==
  /\ UNCHANGED strict
  /\ \/ \E h \in Handles, r \in Rooms : Admitted(h, r)
     \/ \E c \in Errors \union {"ok"} : Answered(c)
     \/ \E h \in Handles : Left(h)

PlainSpec == PlainInit /\ [][PlainNext]_<<strict, member, code>>
=============================================================================
