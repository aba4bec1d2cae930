CONSTANTS
  t1 = t1
  t2 = t2
  t3 = t3
  t4 = t4
  pipe1 = pipe1
  pipe2 = pipe2
  Contexts = {t1, t2, t3, t4}
  Pipes = {pipe1, pipe2}
  RingSize = 2
  NoByte = NoByte
  Kind <- MCKind
  Semaphores <- PipeSemaphores
  InitialCount <- PipeCount
  PipePrograms <- MCPipePrograms
  Readers = {t1, t2}
  BufferSize = 2
  MaxBytes = 4
SPECIFICATION StreamsSpec
INVARIANTS
  PipeSound
  SerialOrder
PROPERTIES
  PipeProgress
  SerialDelivers
CHECK_DEADLOCK FALSE
