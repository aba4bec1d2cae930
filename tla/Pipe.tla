-------------------------------- MODULE Pipe --------------------------------
(***************************************************************************)
(* The pipe unit (kernel/pipe.c) and the sockets made of two pipes         *)
(* (kernel/socket.c), over the ring buffers and the semaphores.  A thread  *)
(* runs the calls of its program over and over.  Each step is one          *)
(* semaphore operation, or what is done to the ring while Mutex is held.   *)
(***************************************************************************)
EXTENDS Semaphore, RingBuffer

CONSTANTS
  Pipes,
  RingSize,        \* the size of a pipe's buffer
  PipePrograms     \* for each program: the calls each thread makes

PipeLocks == {"Mutex", "EmptyLock", "FullLock", "ReadLock", "WriteLock"}

(* The semaphores of PipeInit.                                             *)
PipeSemaphores == Pipes \X PipeLocks

PipeCount == [s \in PipeSemaphores |-> IF s[2] = "EmptyLock" THEN 0 ELSE 1]

(* A call: all says that it is one of the Struct calls, which go on until  *)
(* size bytes are through and may be asked for none; of a plain call with  *)
(* no bytes to move the assertions of the code say that it is not made.    *)
Call ==
  {k \in [dir : {"read", "write"}, pipe : Pipes, size : Nat, all : BOOLEAN] :
     k.all \/ k.size > 0}

ASSUME PipeAssumption ==
  /\ RingSize \in Nat \ {0}
  /\ Semaphores = PipeSemaphores
  /\ InitialCount = PipeCount
  /\ \A program \in PipePrograms, c \in Contexts : program[c] \in Seq(Call)

(* The handles of SocketInit: what one side writes, the other reads.       *)
SocketInit(pipe1, pipe2) ==
  [h1 |-> [Read |-> pipe1, Write |-> pipe2], h2 |-> [Read |-> pipe2, Write |-> pipe1]]

SocketReadStruct(size, h) == [dir |-> "read", pipe |-> h.Read, size |-> size, all |-> TRUE]

SocketWriteStruct(size, h) == [dir |-> "write", pipe |-> h.Write, size |-> size, all |-> TRUE]

SocketReadChars(size, h) == [dir |-> "read", pipe |-> h.Read, size |-> size, all |-> FALSE]

SocketWriteChars(size, h) == [dir |-> "write", pipe |-> h.Write, size |-> size, all |-> FALSE]

VARIABLES
  program,       \* the program that runs
  Ring,          \* pipe->Ring
  call,          \* which call of its program a thread is in
  at,            \* and where in it
  buff,          \* the bytes that this call has put through
  was,           \* its wasFull or wasEmpty
  left,          \* its dataLeft or spaceLeft
  flow,          \* what was written to each pipe and not read yet
  failed         \* an assertion failed

pipeVars == <<semaphoreVars, program, Ring, call, at, buff, was, left, flow, failed>>

PipeInit ==
  /\ SemaphoreInit
  /\ program \in PipePrograms
  /\ Ring = [p \in Pipes |-> RingBufferInit(RingSize)]
  /\ call = [c \in Contexts |-> 1]
  /\ at = [c \in Contexts |-> "start"]
  /\ buff = [c \in Contexts |-> <<>>]
  /\ was = [c \in Contexts |-> FALSE]
  /\ left = [c \in Contexts |-> FALSE]
  /\ flow = [p \in Pipes |-> <<>>]
  /\ failed = FALSE

-----------------------------------------------------------------------------

Calls(c) == program[c]

Now(c) == Calls(c)[call[c]]

At(c, dir, place) ==
  /\ LockingIsFree(c) /\ Calls(c) # <<>>
  /\ Now(c).dir = dir /\ at[c] = place

GoOn(c, place) == at' = [at EXCEPT ![c] = place]

Down(c, lock, next) ==
  /\ SemaphoreDown(<<Now(c).pipe, lock>>, c)
  /\ GoOn(c, next)
  /\ UNCHANGED <<program, Ring, call, buff, was, left, flow, failed>>

Up(c, lock, next) ==
  /\ SemaphoreUp(<<Now(c).pipe, lock>>)
  /\ GoOn(c, next)
  /\ UNCHANGED <<program, Ring, call, buff, was, left, flow, failed>>

CountOf(c, lock) == Count[<<Now(c).pipe, lock>>]

(* The loop of the Struct calls.                                           *)
Loop(c) == IF Now(c).all /\ Len(buff[c]) < Now(c).size THEN "gate" ELSE "unlock"

(* The first round, which a plain call makes whatever was asked for.       *)
Enter(c) == IF Now(c).all THEN Loop(c) ELSE "gate"

(* Where the ups that this round owes, if any, leave the thread.           *)
AfterMutex(c) == IF was[c] THEN "other" ELSE IF left[c] THEN "same" ELSE Loop(c)

AfterOther(c) == IF left[c] THEN "same" ELSE Loop(c)

(* Bug: whether the ring was full is not looked at.                        *)
BugReadRing(c) ==
  LET p == Now(c).pipe
      r == RingBufferRead(Now(c).size - Len(buff[c]), Ring[p])
  IN  /\ failed' = (failed \/ r.bytes = <<>>)
      /\ Ring' = [Ring EXCEPT ![p] = r.ring]
      /\ buff' = [buff EXCEPT ![c] = @ \o r.bytes]
      /\ was' = [was EXCEPT ![c] = FALSE]
      /\ left' = [left EXCEPT ![c] = ~ RingBufferIsEmpty(r.ring)]
      /\ flow' = [flow EXCEPT ![p] = SubSeq(@, Len(r.bytes) + 1, Len(@))]
      /\ GoOn(c, "leave")
      /\ UNCHANGED <<semaphoreVars, program, call>>

(* The read, with the two assertions around it.                            *)
ReadRing(c) ==
  LET p == Now(c).pipe
      r == RingBufferRead(Now(c).size - Len(buff[c]), Ring[p])
      wasFull == RingBufferIsFull(Ring[p])
  IN  /\ failed' = (failed \/ (wasFull /\ CountOf(c, "FullLock") # 0) \/ r.bytes = <<>>)
      /\ Ring' = [Ring EXCEPT ![p] = r.ring]
      /\ buff' = [buff EXCEPT ![c] = @ \o r.bytes]
      /\ was' = [was EXCEPT ![c] = wasFull]
      /\ left' = [left EXCEPT ![c] = ~ RingBufferIsEmpty(r.ring)]
      /\ flow' = [flow EXCEPT ![p] = SubSeq(@, Len(r.bytes) + 1, Len(@))]
      /\ GoOn(c, "leave")
      /\ UNCHANGED <<semaphoreVars, program, call>>

PipeReadInner(c) ==
  \/ At(c, "read", "gate") /\ Down(c, "EmptyLock", "mutex")
  \/ At(c, "read", "mutex") /\ Down(c, "Mutex", "ring")
  \/ At(c, "read", "ring") /\ ReadRing(c)
  \/ At(c, "read", "leave") /\ Up(c, "Mutex", AfterMutex(c))
  \/ At(c, "read", "other") /\ Up(c, "FullLock", AfterOther(c))
  \/ At(c, "read", "same") /\ Up(c, "EmptyLock", Loop(c))

(* The bytes of a call that are still to be written.  Each says who wrote  *)
(* it and which byte of the message it is.                                 *)
Message(c) == [i \in 1..Now(c).size - Len(buff[c]) |-> <<c, Len(buff[c]) + i>>]

WriteRing(c) ==
  LET p == Now(c).pipe
      w == RingBufferWrite(Message(c), Ring[p])
      written == SubSeq(Message(c), 1, w.count)
      wasEmpty == RingBufferIsEmpty(Ring[p])
  IN  /\ failed' = (failed \/ (wasEmpty /\ CountOf(c, "EmptyLock") # 0) \/ w.count = 0)
      /\ Ring' = [Ring EXCEPT ![p] = w.ring]
      /\ buff' = [buff EXCEPT ![c] = @ \o written]
      /\ was' = [was EXCEPT ![c] = wasEmpty]
      /\ left' = [left EXCEPT ![c] = ~ RingBufferIsFull(w.ring)]
      /\ flow' = [flow EXCEPT ![p] = @ \o written]
      /\ GoOn(c, "leave")
      /\ UNCHANGED <<semaphoreVars, program, call>>

PipeWriteInner(c) ==
  \/ At(c, "write", "gate") /\ Down(c, "FullLock", "mutex")
  \/ At(c, "write", "mutex") /\ Down(c, "Mutex", "ring")
  \/ At(c, "write", "ring") /\ WriteRing(c)
  \/ At(c, "write", "leave") /\ Up(c, "Mutex", AfterMutex(c))
  \/ At(c, "write", "other") /\ Up(c, "EmptyLock", AfterOther(c))
  \/ At(c, "write", "same") /\ Up(c, "FullLock", Loop(c))

(* The last up of a call, after which the thread makes its next one.       *)
Unlock(c, lock) ==
  /\ SemaphoreUp(<<Now(c).pipe, lock>>)
  /\ GoOn(c, "start")
  /\ buff' = [buff EXCEPT ![c] = <<>>]
  /\ call' = [call EXCEPT ![c] = (@ % Len(Calls(c))) + 1]
  /\ UNCHANGED <<program, Ring, was, left, flow, failed>>

(* PipeRead, and PipeReadStruct, whose loop Loop is.                       *)
PipeRead(c) ==
  \/ At(c, "read", "start") /\ Down(c, "ReadLock", Enter(c))
  \/ PipeReadInner(c)
  \/ At(c, "read", "unlock") /\ Unlock(c, "ReadLock")

(* Bug: the writers' lock is not taken, nor given back.                    *)
BugPipeWrite(c) ==
  \/ /\ At(c, "write", "start") /\ GoOn(c, Enter(c))
     /\ UNCHANGED <<semaphoreVars, program, Ring, call, buff, was, left, flow, failed>>
  \/ PipeWriteInner(c)
  \/ /\ At(c, "write", "unlock") /\ GoOn(c, "start")
     /\ buff' = [buff EXCEPT ![c] = <<>>]
     /\ call' = [call EXCEPT ![c] = (@ % Len(Calls(c))) + 1]
     /\ UNCHANGED <<semaphoreVars, program, Ring, was, left, flow, failed>>

PipeWrite(c) ==
  \/ At(c, "write", "start") /\ Down(c, "WriteLock", Enter(c))
  \/ PipeWriteInner(c)
  \/ At(c, "write", "unlock") /\ Unlock(c, "WriteLock")

PipeNext == \E c \in Contexts : PipeRead(c) \/ PipeWrite(c)

PipeSpec == PipeInit /\ [][PipeNext]_pipeVars

(* A thread that is not blocked can always go on, so that weak fairness of *)
(* its steps, which is what the scheduler gives it, says: again and again  *)
(* it is blocked, or it goes on.                                           *)
PipeBlocked(c) == Calls(c) = <<>> \/ ~ LockingIsFree(c)

PipeMoves(c) == at'[c] # at[c]

-----------------------------------------------------------------------------

(* No assertion fails: the full ring's FullLock and the empty ring's       *)
(* EmptyLock are "leaked", and nobody gets to the ring to find nothing to  *)
(* do there.                                                               *)
(* Every byte comes out of its pipe once and in order, whatever the ring's *)
(* indices do.                                                             *)
(* "ReadLock" and "WriteLock" keep messages in one piece: when every call  *)
(* on a pipe is a Struct call of the same size, a reader ends with the     *)
(* bytes of one message, in order.                                         *)
PipeSound ==
  /\ ~ failed
  /\ \A p \in Pipes : Content(Ring[p]) = flow[p]
  /\ \A c \in Contexts :
        at[c] = "unlock" /\ Now(c).all =>
           \E d \in Contexts : buff[c] = [i \in 1..Now(c).size |-> <<d, i>>]

(* Nobody is stuck on the five locks: a call that was begun ends, as long  *)
(* as others keep reading what is written and writing what is read.        *)
PipeProgress ==
  \A c \in Contexts : Calls(c) # <<>> ~> at[c] = "unlock"
=============================================================================
