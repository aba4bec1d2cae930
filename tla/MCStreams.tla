----------------------------- MODULE MCStreams -----------------------------
(***************************************************************************)
(* Programs that move bytes: two writers and two readers of structures     *)
(* larger than the ring of their pipe, some of which have no bytes, as in  *)
(* test11; calls of several lengths on one pipe; the question and answer   *)
(* of test14 over a socket; and two threads that echo what comes over the  *)
(* serial line, as test10 does.                                            *)
(***************************************************************************)
EXTENDS Pipe, Serial

CONSTANTS t1, t2, t3, t4, pipe1, pipe2

VARIABLE serial      \* whether the program is the echo

streamVars == <<pipeVars, serialVars, serial>>

MCKind == [c \in Contexts |-> "THREAD"]

Socket == SocketInit(pipe1, pipe2)

Structs ==
  [c \in Contexts |-> CASE c = t1 -> <<SocketWriteStruct(3, Socket.h2)>>
                        [] c = t2 -> <<SocketWriteStruct(3, Socket.h2),
                                       SocketWriteStruct(0, Socket.h2)>>
                        [] c = t3 -> <<SocketReadStruct(3, Socket.h1)>>
                        [] c = t4 -> <<SocketReadStruct(0, Socket.h1),
                                       SocketReadStruct(3, Socket.h1)>>]

Chars ==
  [c \in Contexts |-> CASE c = t1 -> <<SocketWriteChars(3, Socket.h2)>>
                        [] c = t2 -> <<SocketWriteChars(1, Socket.h2)>>
                        [] c = t3 -> <<SocketReadChars(2, Socket.h1)>>
                        [] c = t4 -> <<>>]

PingPong ==
  [c \in Contexts |->
     CASE c = t1 -> <<SocketWriteStruct(3, Socket.h1), SocketReadStruct(3, Socket.h1)>>
       [] c = t2 -> <<SocketReadStruct(3, Socket.h2), SocketWriteStruct(3, Socket.h2)>>
       [] c \in {t3, t4} -> <<>>]

(* The echo makes no calls on pipes.                                       *)
Echo == [c \in Contexts |-> <<>>]

MCPipePrograms == {Structs, Chars, PingPong, Echo}

StreamsInit ==
  /\ PipeInit /\ SerialStartup
  /\ serial \in BOOLEAN
  /\ serial <=> program = Echo

StreamsNext ==
  \/ /\ ~ serial /\ PipeNext
     /\ UNCHANGED <<generationVars, wire, readRaised, writeRaised, SerialInputRing,
                    SerialOutputRing, ReadGenerationCount, critState, NewValue, threadVars,
                    logVars, leftOver, serial>>
  \/ /\ serial /\ SerialNext
     /\ UNCHANGED <<Count, WaitingThreads, program, Ring, call, at, buff, was, left, flow,
                    failed, serial>>

Blocked(c) == IF serial THEN c \notin Readers \/ SerialBlocked(c) ELSE PipeBlocked(c)

Moves(c) == PipeMoves(c) \/ (c \in Readers /\ SerialMoves(c))

StreamsSpec ==
  /\ StreamsInit /\ [][StreamsNext]_streamVars
  /\ SerialDelivery
  /\ \A c \in Contexts : []<>Blocked(c) \/ []<><<Moves(c)>>_streamVars
=============================================================================
