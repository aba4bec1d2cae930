-------------------------------- MODULE Isr --------------------------------
(***************************************************************************)
(* The interrupt levels (kernel/isr.c) and the context switch              *)
(* (kernel/context.c): the counters that nest IsrDisable and IsrEnable,    *)
(* the signal mask they keep up to date, and the interrupts that arrive    *)
(* between any two of their steps.                                         *)
(*                                                                         *)
(* The mask is a level: HalSetIrq(l) blocks the signals of levels 1..l.    *)
(* Each thread has a stack of frames, its own code below and the handlers  *)
(* that interrupted it above; the last frame is the running one.  The      *)
(* counters are global: the threads share them.                            *)
(***************************************************************************)
EXTENDS Integers, Sequences, FiniteSets

LOCAL INSTANCE FiniteSetsExt

CONSTANTS
  Threads,     \* the contexts
  Boot,        \* the one the machine starts with
  MAX,         \* IRQ_LEVEL_MAX; 1 is IRQ_LEVEL_CRIT
  MaxDepth,    \* bound on the frames of a stack
  MaxHold      \* bound on the sections a frame is inside

CRIT == 1
NONE == 0
Level == CRIT..MAX

ASSUME IsrAssumption ==
  /\ MAX \in Nat /\ MAX >= CRIT
  /\ Boot \in Threads
  /\ MaxDepth \in Nat \ {0} /\ MaxHold \in Nat \ {0}

VARIABLES
  IsrDisabledCount,
  mask,        \* the signal mask of the process
  stack,       \* the frames of each thread
  active       \* the thread whose stack the CPU is on

isrVars == <<IsrDisabledCount, mask, stack, active>>

(* A frame: the level it handles (NONE for the thread's own code), the     *)
(* mask its return restores, the sections it is inside, and where it is.   *)
Frame == [irq : Level \cup {NONE}, saved : Level \cup {NONE}, holds : [Level -> Nat],
          at : {"run", "test", "disable", "raise", "count", "enable", "lower", "leave"},
          level : Level, target : Level \cup {NONE}]

IsrTypeOK ==
  /\ IsrDisabledCount \in [Level -> Nat]
  /\ mask \in Level \cup {NONE}
  /\ stack \in [Threads -> Seq(Frame)]
  /\ active \in Threads

NoHolds == [l \in Level |-> 0]

(* The sections of a context switch: the CRIT handler and, in it,          *)
(* IsrDisable(IRQ_LEVEL_MAX).                                              *)
SwitchHolds == [l \in Level |-> (IF l = CRIT THEN 1 ELSE 0) + (IF l = MAX THEN 1 ELSE 0)]

(* The first frame of a context.  KernelInit left the boot context inside  *)
(* IsrDisable(IRQ_LEVEL_MAX); ContextBootstrap is entered where            *)
(* HalContextSwitch returns, inside the sections of the switch.            *)
FirstFrame(t) ==
  [irq |-> NONE, saved |-> NONE, at |-> "run", level |-> CRIT, target |-> NONE,
   holds |-> IF t = Boot THEN [NoHolds EXCEPT ![MAX] = 1] ELSE SwitchHolds]

IsrStartup ==
  /\ IsrDisabledCount = [NoHolds EXCEPT ![MAX] = 1]
  /\ mask = MAX
  /\ active = Boot
  /\ stack = [t \in Threads |-> <<FirstFrame(t)>>]

-----------------------------------------------------------------------------

Depth == Len(stack[active])

Top == stack[active][Depth]

At(where) == Top.at = where

(* The running frame becomes f.                                            *)
Become(f) == stack' = [stack EXCEPT ![active][Depth] = f]

(* How many sections a frame is inside.                                    *)
Sections(f) == MapThenSumSet(LAMBDA l : f.holds[l], Level)

(* The end of IsrDisable and IsrEnable, whose locals are forgotten.  A     *)
(* handler that has given its own level back returns.                      *)
Resume(f) ==
  [f EXCEPT !.at = IF f.irq # NONE /\ f.holds = NoHolds THEN "leave" ELSE "run",
            !.level = CRIT, !.target = NONE]

(* Bug: only the level that changes is looked at.                          *)
BugIsrDefer(level, enable) == IF enable THEN NONE ELSE level

(* The mask for the highest level that is disabled, or is being disabled.  *)
IsrDefer(level, enable) ==
  LET Candidate(l) == IsrDisabledCount[l] > 0 \/ (l = level /\ ~ enable) IN
  IF \E l \in Level : Candidate(l)
  THEN CHOOSE l \in Level : Candidate(l) /\ \A k \in Level : Candidate(k) => k <= l
  ELSE NONE

(* IsrDisable: the test, the choice of the mask, the mask, the counter.    *)
IsrDisable(l) ==
  /\ At("run") /\ Sections(Top) < MaxHold
  /\ Become([Top EXCEPT !.at = "test", !.level = l])
  /\ UNCHANGED <<IsrDisabledCount, mask, active>>

DisableTest ==
  /\ At("test")
  /\ Become([Top EXCEPT !.at = IF IsrDisabledCount[Top.level] = 0 THEN "disable" ELSE "count"])
  /\ UNCHANGED <<IsrDisabledCount, mask, active>>

DisableDefer ==
  /\ At("disable")
  /\ Become([Top EXCEPT !.at = "raise", !.target = IsrDefer(Top.level, FALSE)])
  /\ UNCHANGED <<IsrDisabledCount, mask, active>>

DisableSetIrq ==
  /\ At("raise")
  /\ mask' = Top.target
  /\ Become([Top EXCEPT !.at = "count", !.target = NONE])
  /\ UNCHANGED <<IsrDisabledCount, active>>

DisableCount ==
  /\ At("count")
  /\ IsrDisabledCount' = [IsrDisabledCount EXCEPT ![Top.level] = @ + 1]
  /\ Become(Resume([Top EXCEPT !.holds[Top.level] = @ + 1]))
  /\ UNCHANGED <<mask, active>>

(* IsrEnable: the counter and its test, the choice of the mask, the mask.  *)
(* Sections end in any order, except that a handler gives its own level    *)
(* back last.                                                              *)
IsrEnable(l) ==
  LET left == [Top EXCEPT !.level = l, !.holds[l] = @ - 1] IN
  /\ At("run") /\ Top.holds[l] > 0
  /\ l = Top.irq /\ Top.holds[l] = 1 => Top.holds = [NoHolds EXCEPT ![l] = 1]
  /\ IsrDisabledCount' = [IsrDisabledCount EXCEPT ![l] = @ - 1]
  /\ Become(IF IsrDisabledCount'[l] = 0 THEN [left EXCEPT !.at = "enable"] ELSE Resume(left))
  /\ UNCHANGED <<mask, active>>

EnableDefer ==
  /\ At("enable")
  /\ Become([Top EXCEPT !.at = "lower", !.target = IsrDefer(Top.level, TRUE)])
  /\ UNCHANGED <<IsrDisabledCount, mask, active>>

(* Bug: the mask is left to the return from the handler.                   *)
BugEnableSetIrq ==
  /\ At("lower")
  /\ Become(Resume(Top))
  /\ UNCHANGED <<IsrDisabledCount, mask, active>>

EnableSetIrq ==
  /\ At("lower")
  /\ mask' = Top.target
  /\ Become(Resume(Top))
  /\ UNCHANGED <<IsrDisabledCount, active>>

(* HalIsrHandler and IsrHandlerWrapper: a signal that is not blocked       *)
(* arrives, in front of the next step of whatever runs, and adds           *)
(* HalIrqToSigaction[l] to the mask.                                       *)
IsrHandlerWrapper(l) ==
  /\ l > mask
  /\ Depth < MaxDepth
  /\ mask' = l
  /\ stack' = [stack EXCEPT ![active] =
                 Append(@, [irq |-> l, saved |-> mask, holds |-> NoHolds,
                            at |-> "test", level |-> l, target |-> NONE])]
  /\ UNCHANGED <<IsrDisabledCount, active>>

(* The return from the handler restores the mask it interrupted.           *)
IsrReturn ==
  /\ At("leave")
  /\ mask' = Top.saved
  /\ stack' = [stack EXCEPT ![active] = SubSeq(@, 1, Depth - 1)]
  /\ UNCHANGED <<IsrDisabledCount, active>>

(* A frame that is inside ContextSwitch.                                   *)
InSwitch(f) == f.at = "run" /\ f.irq = CRIT /\ f.holds = SwitchHolds

(* HalContextSwitch enters another context where that one called it, or in *)
(* ContextBootstrap; the mask and the counters stay.                       *)
ContextSwitch(t) ==
  /\ t # active
  /\ InSwitch(Top)
  /\ active' = t
  /\ UNCHANGED <<IsrDisabledCount, mask, stack>>

IsrNext ==
  \/ \E l \in Level : IsrDisable(l) \/ IsrEnable(l) \/ IsrHandlerWrapper(l)
  \/ DisableTest \/ DisableDefer \/ DisableSetIrq \/ DisableCount
  \/ EnableDefer \/ EnableSetIrq
  \/ IsrReturn
  \/ \E t \in Threads : ContextSwitch(t)

IsrSpec == IsrStartup /\ [][IsrNext]_isrVars

-----------------------------------------------------------------------------

(* Between the end of IsrDisable(l) and the start of the matching          *)
(* IsrEnable(l) no interrupt of level l or below is delivered, whatever    *)
(* other sections are nested in it, overlap it or belong to the handlers   *)
(* that may interrupt it.                                                  *)
SectionsAtomic ==
  \A t \in Threads : \A i, j \in 1..Len(stack[t]), l \in Level :
     i < j /\ stack[t][i].holds[l] > 0 => stack[t][j].irq > l

(* The sections of level l that the frames of a stack are inside.          *)
Inside(frames, l) == UNION {{i} \X (1..frames[i].holds[l]) : i \in 1..Len(frames)}

(* The global counters are those of the active stack, although threads     *)
(* leave and enter in the middle of handlers: "the number of disabled      *)
(* counts is equal on both threads".  And code that is not inside          *)
(* IsrDisable or IsrEnable runs exactly at the level of the counters: no   *)
(* section finds the mask too low, as IsrEnable and HalContextSwitch       *)
(* assert, and none leaves interrupts blocked.                             *)
MaskIsExact ==
  /\ IsrTypeOK
  /\ \A l \in Level : IsrDisabledCount[l] = Cardinality(Inside(stack[active], l))
  /\ At("run") \/ At("leave") => mask = IsrDefer(CRIT, TRUE)
=============================================================================
