------------------------------- MODULE Serial -------------------------------
(***************************************************************************)
(* The serial unit (kernel/serial.c) between the hardware and the threads  *)
(* that read and write, as the echo of test/test10.c uses it: two rings,   *)
(* the interrupts that fill and drain them, and the generation on which    *)
(* readers wait, which the read interrupt moves on through a deferred CRIT *)
(* handler.                                                                *)
(*                                                                         *)
(* There is one CPU, and an interrupt that is not masked is taken before   *)
(* the next instruction of a thread.  A section that masks the interrupt   *)
(* it races with, or a critical section, is therefore one step.  The CRIT  *)
(* handler may be held up by the critical section of some other thread;    *)
(* then no reader runs, but serial interrupts are taken.                   *)
(***************************************************************************)
EXTENDS Generation, RingBuffer, Functions

CONSTANTS
  Readers,         \* the threads that read, and write what they have read
  BufferSize,      \* BUFFER_SIZE, and the length that readers ask for
  MaxBytes         \* bound on the bytes that arrive

ASSUME SerialAssumption ==
  /\ Readers \subseteq Contexts
  /\ BufferSize \in Nat \ {0}
  /\ MaxBytes \in Nat

VARIABLES
  wire,                   \* bytes that have arrived and HalSerialGetChar has not returned
  readRaised,             \* the read signal is raised and not delivered
  writeRaised,            \* the write signal is raised and not delivered
  SerialInputRing,
  SerialOutputRing,
  ReadGenerationCount,
  critState,              \* ReadGenerationCritObject.State
  NewValue,               \* ReadGenerationContext.NewValue
  place,                  \* where a reader is
  readGeneration,         \* its local
  text,                   \* what it has read and not yet written
  wasFull,                \* its local
  arrived, got, put, sent,    \* all the bytes that arrived, were read, were
                              \* accepted by SerialWrite, were sent
  leftOver                \* whether a thread was ever started with the handler in the
                          \* list, and whether it still is there

serialVars == <<lockState, generationVars, wire, readRaised, writeRaised, SerialInputRing,
                SerialOutputRing, ReadGenerationCount, critState, NewValue, place,
                readGeneration, text, wasFull, arrived, got, put, sent, leftOver>>

inputVars == <<generationVars, lockState, critState, NewValue, ReadGenerationCount>>
logVars == <<arrived, got, put, sent>>
threadVars == <<place, readGeneration, text, wasFull>>

SerialStartup ==
  /\ LockingInit /\ GenerationInit
  /\ wire = <<>> /\ readRaised = FALSE /\ writeRaised = FALSE
  /\ SerialInputRing = RingBufferInit(BufferSize)
  /\ SerialOutputRing = RingBufferInit(BufferSize)
  /\ ReadGenerationCount = 0 /\ critState = "READY" /\ NewValue = 0
  /\ place = [r \in Readers |-> "new"]
  /\ readGeneration = [r \in Readers |-> 0]
  /\ text = [r \in Readers |-> <<>>]
  /\ wasFull = [r \in Readers |-> FALSE]
  /\ arrived = <<>> /\ got = <<>> /\ put = <<>> /\ sent = <<>>
  /\ leftOver = "never"

-----------------------------------------------------------------------------
(* The hardware and the interrupts.                                        *)

Arrive ==
  /\ Len(arrived) < MaxBytes
  /\ arrived' = Append(arrived, Len(arrived) + 1)
  /\ wire' = Append(wire, Len(arrived) + 1)
  /\ readRaised' = TRUE
  /\ UNCHANGED <<inputVars, threadVars, writeRaised, SerialInputRing, SerialOutputRing, got,
                 put, sent, leftOver>>

(* GenerationUpdateSafe, when the handler is finished with the last one.   *)
NextGeneration ==
  \/ /\ critState = "READY"
     /\ ReadGenerationCount' = ReadGenerationCount + 1
     /\ NewValue' = ReadGenerationCount'
     /\ critState' = "QUEUED"
  \/ critState # "READY" /\ UNCHANGED <<ReadGenerationCount, NewValue, critState>>

(* The loop ends when the ring is full or nothing more has arrived.        *)
GetBytesInterrupt ==
  LET w == RingBufferWrite(wire, SerialInputRing)
  IN  /\ readRaised /\ readRaised' = FALSE
      /\ SerialInputRing' = w.ring
      /\ wire' = SubSeq(wire, w.count + 1, Len(wire))
      /\ NextGeneration
      /\ UNCHANGED <<generationVars, lockState, threadVars, logVars, writeRaised,
                     SerialOutputRing, leftOver>>

SendBytesInterrupt ==
  LET r == RingBufferRead(BufferSize, SerialOutputRing)
  IN  /\ writeRaised /\ writeRaised' = FALSE
      /\ SerialOutputRing' = r.ring
      /\ sent' = sent \o r.bytes
      /\ UNCHANGED <<inputVars, threadVars, wire, readRaised, SerialInputRing, arrived, got,
                     put, leftOver>>

(* CritInterrupt() runs the handler.                                       *)
GenerationUpdateHandler ==
  /\ critState = "QUEUED" /\ critState' = "RUNNING"
  /\ GenerationUpdate(NewValue)
  /\ leftOver' = IF leftOver = "now" THEN "once" ELSE leftOver
  /\ UNCHANGED <<ReadGenerationCount, NewValue, threadVars, logVars, wire, readRaised,
                 writeRaised, SerialInputRing, SerialOutputRing>>

HandlerFinish ==
  /\ critState = "RUNNING" /\ critState' = "READY"
  /\ UNCHANGED <<lockState, generationVars, ReadGenerationCount, NewValue, threadVars,
                 logVars, wire, readRaised, writeRaised, SerialInputRing, SerialOutputRing,
                 leftOver>>

-----------------------------------------------------------------------------
(* The threads.                                                            *)

(* A thread executes when it is not blocked, no interrupt is due and no    *)
(* CRIT handler is: except that a thread that runs for the first time      *)
(* leaves CritInterrupt() with what is still in the list.                  *)
Runs(r, where) ==
  /\ LockingIsFree(r) /\ place[r] = where
  /\ ~ readRaised /\ ~ writeRaised
  /\ critState = "READY" \/ (leftOver = "now" /\ critState = "QUEUED")

GoTo(r, where) == place' = [place EXCEPT ![r] = where]

(* The thread is switched to for the first time.                           *)
ThreadStart(r) ==
  /\ place[r] = "new" /\ critState # "RUNNING"
  /\ GoTo(r, "read")
  /\ leftOver' = IF critState = "QUEUED" THEN "now" ELSE leftOver
  /\ UNCHANGED <<inputVars, logVars, readGeneration, text, wasFull, wire, readRaised,
                 writeRaised, SerialInputRing, SerialOutputRing>>

(* The section of SerialRead that masks the read interrupt.                *)
ReadSection(r) ==
  LET in == RingBufferRead(BufferSize, SerialInputRing)
  IN  /\ Runs(r, "read")
      /\ wasFull' = [wasFull EXCEPT ![r] = @ \/ RingBufferIsFull(SerialInputRing)]
      /\ SerialInputRing' = in.ring
      /\ text' = [text EXCEPT ![r] = in.bytes]
      /\ got' = got \o in.bytes
      /\ readGeneration' = [readGeneration EXCEPT ![r] = ReadGenerationCount]
      /\ GoTo(r, IF in.bytes = <<>> THEN "wait" ELSE "raise")
      /\ UNCHANGED <<inputVars, wire, readRaised, writeRaised, SerialOutputRing, arrived, put,
                     sent, leftOver>>

(* Nothing was there.                                                      *)
ReadWait(r) ==
  /\ Runs(r, "wait")
  /\ GenerationWait(readGeneration[r], r)
  /\ GoTo(r, "read")
  /\ UNCHANGED <<critState, NewValue, ReadGenerationCount, readGeneration, text, wasFull,
                 logVars, wire, readRaised, writeRaised, SerialInputRing, SerialOutputRing,
                 leftOver>>

(* Bug: the interrupt is not raised again.                                 *)
BugReadRaise(r) ==
  /\ Runs(r, "raise")
  /\ wasFull' = [wasFull EXCEPT ![r] = FALSE]
  /\ GoTo(r, "write")
  /\ UNCHANGED <<inputVars, logVars, readGeneration, text, wire, readRaised, writeRaised,
                 SerialInputRing, SerialOutputRing, leftOver>>

(* "We were full, so lets make sure there wasn't any data buffered in the  *)
(* hal."                                                                   *)
ReadRaise(r) ==
  /\ Runs(r, "raise")
  /\ readRaised' = wasFull[r]
  /\ wasFull' = [wasFull EXCEPT ![r] = FALSE]
  /\ GoTo(r, "write")
  /\ UNCHANGED <<inputVars, logVars, readGeneration, text, wire, writeRaised,
                 SerialInputRing, SerialOutputRing, leftOver>>

(* What does not fit into the ring is for the caller to write again.       *)
SerialWrite(r) ==
  LET out == RingBufferWrite(text[r], SerialOutputRing)
  IN  /\ Runs(r, "write")
      /\ SerialOutputRing' = out.ring
      /\ put' = put \o SubSeq(text[r], 1, out.count)
      /\ text' = [text EXCEPT ![r] = SubSeq(@, out.count + 1, Len(@))]
      /\ writeRaised' = TRUE
      /\ GoTo(r, IF text'[r] = <<>> THEN "read" ELSE "write")
      /\ UNCHANGED <<inputVars, readGeneration, wasFull, wire, readRaised, SerialInputRing,
                     arrived, got, sent, leftOver>>

SerialRead(r) == ReadSection(r) \/ ReadWait(r) \/ ReadRaise(r)

SerialNext ==
  \/ Arrive \/ GetBytesInterrupt \/ SendBytesInterrupt
  \/ GenerationUpdateHandler \/ HandlerFinish
  \/ \E r \in Readers : ThreadStart(r) \/ SerialRead(r) \/ SerialWrite(r)

SerialSpec == SerialStartup /\ [][SerialNext]_serialVars

(* Raised signals are delivered, and handlers run.  Nobody has to type.    *)
SerialDelivery == []<>(~ readRaised) /\ []<>(~ writeRaised) /\ []<>(critState = "READY")

(* The scheduler runs every thread that is not blocked, which then can go  *)
(* on.                                                                     *)
SerialBlocked(r) == lockState[r] = "BLOCKING"

SerialMoves(r) == place'[r] # place[r] \/ text'[r] # text[r]

-----------------------------------------------------------------------------

(* Nothing that arrives or is written is lost, doubled or reordered, with  *)
(* any number of readers: what was read, what is in the ring and what is   *)
(* on the wire are all that arrived; what was sent and what is in the ring *)
(* are all that SerialWrite accepted.                                      *)
SerialOrder ==
  /\ got \o Content(SerialInputRing) \o wire = arrived
  /\ sent \o Content(SerialOutputRing) = put

(* Readers are not left waiting: all that arrives is read and echoed,      *)
(* though bytes come between the reader's look at the ring and its wait,   *)
(* while the handler of the last ones is still at work, and while the ring *)
(* is full.  (Not so when a reader is started with the handler left in the *)
(* list: the handler then may tell of bytes that have been read already.)  *)
SerialDelivers ==
  <>[](leftOver = "never" => wire = <<>> /\ Range(sent) = Range(arrived))
=============================================================================
