---------------------------- MODULE DeferredStore ----------------------------
(***************************************************************************)
(* The per-room store of visibility columns that arrived before their      *)
(* listener joined (src/src/deferred.c).  A store is a sequence of records *)
(* in the order of their added_seq stamps, oldest first: the array order   *)
(* of the C code is irrelevant there, eviction looks at the stamp.  A      *)
(* column is a set of source displays; a record keeps one for each of the  *)
(* two channels, "excl" and "mute".  The cumulative counters of the store  *)
(* are diagnostics and are left out.                                       *)
(***************************************************************************)
EXTENDS Naturals, Sequences, SequencesExt

CONSTANTS
  MaxDeferred   \* SLV_VIS_MAX_DEFERRED: listeners a room's store can hold

ASSUME MaxDeferredAssumption == MaxDeferred \in Nat \ {0}

Channels == {"excl", "mute"}

Ops == {"add", "remove", "replace"}

NoCols == [excl |-> {}, mute |-> {}]

\* One channel after one entry: replace sets it exactly, add is a union,
\* remove a difference.
ApplyOp(op, col, src) ==
  CASE op = "replace" -> src
    [] op = "add"     -> col \union src
    [] op = "remove"  -> col \ src

Has(st, listener) == \E i \in DOMAIN st : st[i].listener = listener

FindIdx(st, listener) == CHOOSE i \in DOMAIN st : st[i].listener = listener

\* The columns deferred for a listener; no record reads as empty columns.
Get(st, listener) ==
  IF Has(st, listener)
  THEN LET e == st[FindIdx(st, listener)] IN [excl |-> e.excl, mute |-> e.mute]
  ELSE NoCols

\* (mutant) the newest record is evicted instead of the oldest
MakeRoom_newest(st) ==
  IF Len(st) >= MaxDeferred THEN SubSeq(st, 1, Len(st) - 1) ELSE st

\* A full store makes room for a new record by dropping its oldest one.
MakeRoom(st) == IF Len(st) >= MaxDeferred THEN Tail(st) ELSE st

\* The store with a record for the listener, a new one being the youngest.
WithRecord(st, listener) ==
  IF Has(st, listener) THEN st
  ELSE Append(MakeRoom(st), [listener |-> listener, excl |-> {}, mute |-> {}])

\* A record both of whose channels became empty is dropped.
DropIfEmpty(st, i) ==
  IF st[i].excl = {} /\ st[i].mute = {} THEN RemoveAt(st, i) ELSE st

\* (mutant) an update rewrites both channels of the record
Put_bothChannels(st, listener, op, src, ch) ==
  LET base == WithRecord(st, listener)
      i == FindIdx(base, listener)
  IN  IF ~Has(st, listener) /\ (op = "remove" \/ src = {}) THEN st
      ELSE DropIfEmpty([base EXCEPT ![i].excl = ApplyOp(op, @, src),
                                    ![i].mute = ApplyOp(op, @, src)], i)

\* Deposit one channel entry for a listener that is not in the room.  Nothing
\* is created for a remove or an empty column.
Put(st, listener, op, src, ch) ==
  LET base == WithRecord(st, listener)
      i == FindIdx(base, listener)
  IN  IF ~Has(st, listener) /\ (op = "remove" \/ src = {}) THEN st
      ELSE DropIfEmpty([base EXCEPT ![i][ch] = ApplyOp(op, @, src)], i)

\* A joining listener takes its record out of the store.
ReplayDone(st, listener) ==
  IF Has(st, listener) THEN RemoveAt(st, FindIdx(st, listener)) ELSE st
=============================================================================
