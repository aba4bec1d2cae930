----------------------------- MODULE RingBuffer -----------------------------
(***************************************************************************)
(* The ring buffer unit (utils/ringbuffer.c) as operators on a RING_BUFFER *)
(* record.  ReadIndex = WriteIndex both when the ring is empty and when it *)
(* is full; Empty tells which.                                             *)
(***************************************************************************)
EXTENDS Integers, Sequences

CONSTANT NoByte      \* what a cell of a new buffer holds

RingBufferInit(size) ==
  [Size |-> size, ReadIndex |-> 0, WriteIndex |-> 0, Empty |-> TRUE,
   Buffer |-> [i \in 0..size - 1 |-> NoByte]]

RingBufferIsEmpty(ring) == ring.Empty

RingBufferIsFull(ring) == ~ ring.Empty /\ ring.WriteIndex = ring.ReadIndex

(* Where a run of cells stops that may not go past limit.                  *)
NoFurther(end, limit) == IF end <= limit THEN end ELSE limit

(* The index after end, when a run of cells stops there.                   *)
Wrapped(end, ring) == IF end >= ring.Size THEN 0 ELSE end

(* As much as can be read without a jump from the end of the buffer to its *)
(* start.                                                                  *)
RingBufferReadSmall(size, ring) ==
  LET cur == ring.ReadIndex
      end == NoFurther(cur + size, IF cur < ring.WriteIndex THEN ring.WriteIndex ELSE ring.Size)
  IN  [bytes |-> [i \in 1..end - cur |-> ring.Buffer[cur + i - 1]],
       ring  |-> [ring EXCEPT !.ReadIndex = Wrapped(end, ring)]]

(* Bug: the reader's place is not looked at.                               *)
BugRingBufferWriteSmall(buff, ring) ==
  LET cur == ring.WriteIndex
      end == NoFurther(cur + Len(buff), ring.Size)
  IN  [count |-> end - cur,
       ring  |-> [ring EXCEPT !.WriteIndex = Wrapped(end, ring),
                              !.Buffer = [i \in DOMAIN @ |-> IF i \in cur..end - 1
                                                             THEN buff[i - cur + 1] ELSE @[i]]]]

RingBufferWriteSmall(buff, ring) ==
  LET cur == ring.WriteIndex
      end == NoFurther(cur + Len(buff), IF cur < ring.ReadIndex THEN ring.ReadIndex ELSE ring.Size)
  IN  [count |-> end - cur,
       ring  |-> [ring EXCEPT !.WriteIndex = Wrapped(end, ring),
                              !.Buffer = [i \in DOMAIN @ |-> IF i \in cur..end - 1
                                                             THEN buff[i - cur + 1] ELSE @[i]]]]

(* A turn of the loop of RingBufferRead: [bytes, ring] after it, which is  *)
(* as before when the loop has ended.                                      *)
ReadTurn(size, so) ==
  IF Len(so.bytes) >= size \/ RingBufferIsEmpty(so.ring) THEN so
  ELSE LET small == RingBufferReadSmall(size - Len(so.bytes), so.ring)
       IN  [bytes |-> so.bytes \o small.bytes,
            ring  |-> [small.ring EXCEPT !.Empty = small.ring.ReadIndex = small.ring.WriteIndex]]

(* Up to size bytes.  The loop has ended after two turns: the second one   *)
(* begins at the start of the buffer.                                      *)
RingBufferRead(size, ring) == ReadTurn(size, ReadTurn(size, [bytes |-> <<>>, ring |-> ring]))

(* A turn of the loop of RingBufferWrite: [count, ring] after it.          *)
WriteTurn(buff, so) ==
  IF so.count >= Len(buff) \/ RingBufferIsFull(so.ring) THEN so
  ELSE LET small == RingBufferWriteSmall(SubSeq(buff, so.count + 1, Len(buff)), so.ring)
       IN  [count |-> so.count + small.count, ring |-> [small.ring EXCEPT !.Empty = FALSE]]

(* As much of buff as there is room for, in two turns again.               *)
RingBufferWrite(buff, ring) == WriteTurn(buff, WriteTurn(buff, [count |-> 0, ring |-> ring]))

(* What the ring holds, oldest first, seen without the unit's code.        *)
Content(ring) ==
  LET n == IF ring.Empty THEN 0
           ELSE IF ring.WriteIndex > ring.ReadIndex THEN ring.WriteIndex - ring.ReadIndex
           ELSE ring.Size - ring.ReadIndex + ring.WriteIndex
  IN  [i \in 1..n |-> ring.Buffer[(ring.ReadIndex + i - 1) % ring.Size]]
=============================================================================
