------------------------------ MODULE RoomTrail ------------------------------
(***************************************************************************)
(* The diagnostics trail of the interview room: a ring of stamped entries  *)
(* in the browser (apps/web/lib/room-diagnostics.ts), carried as deltas by *)
(* the heartbeats of components/SessionRoom.tsx, appended to the session's *)
(* row by the worker (services/scorer, api/routers/sessions.py and db.py)  *)
(* with a read and a write.  Beats overlap: the last one of a room does    *)
(* not wait for the one before it.                                         *)
(***************************************************************************)
EXTENDS Integers, Sequences

CONSTANTS
  DIAG_CAPACITY,  \* entries the ring keeps
  Beats,          \* the beats that can be sent
  MaxEntries,     \* bound: entries recorded
  MaxNow          \* bound: milliseconds that pass

VARIABLES
  now,        \* performance.now()
  recorded,   \* entries so far; an entry is numbered
  ring,       \* diagRef
  cursor,     \* diagSentMsRef
  live,       \* the row is "planned": beats are taken
  ended,      \* the room has begun to end: its last beat is sent
  beat,       \* what each beat carries and where it stands
  column,     \* the row's diagnostics, as a set of entries: their numbers tell the order
  trimmed,    \* entries the ring let go
  carriedTo,  \* stamps that a delivered beat ended at
  overwritten \* entries that a write took out of the column again

vars ==
  <<now, recorded, ring, cursor, live, ended, beat, column, trimmed, carriedTo, overwritten>>

Idle == [at |-> "unsent", delta |-> {}, through |-> 0, base |-> {}]

Init ==
  /\ now = 1 /\ recorded = 0 /\ ring = <<>> /\ cursor = 0
  /\ live = TRUE /\ ended = FALSE
  /\ beat = [b \in Beats |-> Idle]
  /\ column = {} /\ trimmed = {} /\ carriedTo = {} /\ overwritten = {}

\* recordDiag.
recordDiag ==
  LET pushed == Append(ring, [id |-> recorded + 1, atMs |-> now])
      excess == IF Len(pushed) > DIAG_CAPACITY THEN Len(pushed) - DIAG_CAPACITY ELSE 0
  IN /\ recorded < MaxEntries
     /\ recorded' = recorded + 1
     /\ ring' = SubSeq(pushed, excess + 1, Len(pushed))
     /\ trimmed' = trimmed \cup {pushed[i].id : i \in 1 .. excess}

Record ==
  /\ recordDiag
  /\ UNCHANGED <<now, cursor, live, ended, beat, column, carriedTo, overwritten>>

Clock ==
  /\ now < MaxNow /\ now' = now + 1
  /\ UNCHANGED <<recorded, ring, cursor, live, ended, beat, column, trimmed, carriedTo, overwritten>>

takeDiagDelta(sinceMs) == {ring[i] : i \in {j \in DOMAIN ring : ring[j].atMs > sinceMs}}

\* The entry recorded last.
LastOf(delta) == CHOOSE entry \in delta : \A other \in delta : other.id <= entry.id

\* A beat takes what is later than the last delivered one.
Send(b) ==
  LET delta == takeDiagDelta(cursor)
  IN /\ beat[b].at = "unsent"
     /\ beat' = [beat EXCEPT ![b] =
          [Idle EXCEPT !.at = "sent", !.delta = delta,
                       !.through = IF delta = {} THEN cursor ELSE LastOf(delta).atMs]]
     /\ UNCHANGED <<now, recorded, ring, cursor, live, column, trimmed, carriedTo, overwritten>>

\* The interval's beat, and the one that ends the room.
Beat(b) == ~ended /\ Send(b) /\ UNCHANGED ended
Flush(b) == ~ended /\ Send(b) /\ ended' = TRUE

Step(b, fields) == beat' = [beat EXCEPT ![b] = fields]

\* append_session_diagnostics: read, then write what was read and the delta.
Read(b) ==
  /\ beat[b].at = "sent"
  /\ Step(b, [beat[b] EXCEPT !.at = IF ~live THEN "refused" ELSE IF @ = "sent" /\ beat[b].delta = {}
                                    THEN "alive" ELSE "read",
                             !.base = column])
  /\ UNCHANGED <<now, recorded, ring, cursor, live, ended, column, trimmed, carriedTo, overwritten>>

Stored(entries) == {entry.id : entry \in entries}

\* The append writes the whole column.
AppendsDelta(b) ==
  /\ column' = beat[b].base \cup beat[b].delta
  /\ overwritten' = overwritten \cup (Stored(column) \ Stored(column'))

Write(b) ==
  /\ beat[b].at = "read"
  /\ AppendsDelta(b)
  /\ Step(b, [beat[b] EXCEPT !.at = "alive"])
  /\ UNCHANGED <<now, recorded, ring, cursor, live, ended, trimmed, carriedTo>>

\* Complete ends the row, once the room has begun to end.
Complete ==
  /\ ended /\ live /\ live' = FALSE
  /\ UNCHANGED <<now, recorded, ring, cursor, ended, beat, column, trimmed, carriedTo, overwritten>>

\* Wrong variant: the cursor is moved to the moment the answer comes.
DeliveredUpToNow(b) ==
  /\ beat[b].at = "alive"
  /\ cursor' = now
  /\ carriedTo' = carriedTo \cup {beat[b].through}
  /\ Step(b, [beat[b] EXCEPT !.at = "done"])
  /\ UNCHANGED <<now, recorded, ring, live, ended, column, trimmed, overwritten>>

\* Only a delivered beat moves the cursor.
Delivered(b) ==
  /\ beat[b].at = "alive"
  /\ cursor' = beat[b].through
  /\ carriedTo' = carriedTo \cup {beat[b].through}
  /\ Step(b, [beat[b] EXCEPT !.at = "done"])
  /\ UNCHANGED <<now, recorded, ring, live, ended, column, trimmed, overwritten>>

\* Refused, or unreachable: the trail records it.
Undelivered(b) ==
  /\ beat[b].at \in {"sent", "read", "alive", "refused"}
  /\ recordDiag
  /\ Step(b, [beat[b] EXCEPT !.at = IF @ = "read" THEN "orphan" ELSE "done"])
  /\ UNCHANGED <<now, cursor, live, ended, column, carriedTo, overwritten>>

\* The worker goes on with a request that the browser gave up.
Orphaned(b) ==
  /\ beat[b].at = "orphan"
  /\ AppendsDelta(b)
  /\ Step(b, [beat[b] EXCEPT !.at = "done"])
  /\ UNCHANGED <<now, recorded, ring, cursor, live, ended, trimmed, carriedTo>>

Next ==
  \/ Record \/ Clock \/ Complete
  \/ \E b \in Beats :
       Beat(b) \/ Flush(b) \/ Read(b) \/ Write(b) \/ Delivered(b) \/ Undelivered(b) \/ Orphaned(b)

Spec == Init /\ [][Next]_vars

-----------------------------------------------------------------------------
(* Properties. *)

\* "Delivery is at least once", with three kinds of holes that SessionRoom.tsx:275-282
\* names: an entry that the ring trimmed, the last beat of a room that loses its race
\* with complete, and an entry that shares its millisecond with the last one
\* delivered.  A fourth it does not name: an entry that an overlapping beat, which had
\* read the column before, wrote away.  Every other entry is in the row, or in the ring
\* and later than what was delivered, for a beat to come.
HolesAreKnown ==
  \A id \in 1 .. recorded :
    \/ id \in Stored(column) \cup trimmed \cup overwritten
    \/ \E i \in DOMAIN ring : ring[i].id = id /\ (ring[i].atMs > cursor \/ ring[i].atMs \in carriedTo)
=============================================================================
