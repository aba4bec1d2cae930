----------------------------- MODULE IsrProofs -----------------------------
(***************************************************************************)
(* The interrupt levels, for any number of levels, any threads and any     *)
(* depth of interrupts: SectionsAtomic and MaskIsExact are invariants of   *)
(* IsrSpec.                                                                *)
(***************************************************************************)
EXTENDS Isr, FiniteSetTheorems, WellFoundedInduction, SequenceTheorems, TLAPS

(* Whether one of the first i frames is inside a section of level l.       *)
HeldBy(frames, i, l) == \E j \in 1..i : frames[j].holds[l] > 0

(* A mask that lets no section of these frames be interrupted, the mask    *)
(* that is no higher than that, the one in IsrDisable(l) and IsrEnable(l), *)
(* and the one a handler of level l starts with.                           *)
Covers(frames, i, m) ==
  m \in Level \cup {NONE} /\ \A l \in Level : HeldBy(frames, i, l) => l <= m

IsHighest(frames, i, m) == Covers(frames, i, m) /\ (m = NONE \/ HeldBy(frames, i, m))

IsRaised(frames, i, l, m) ==
  Covers(frames, i, m) /\ l <= m /\ (m = l \/ HeldBy(frames, i, m))

IsEntered(frames, i, l, m) == m = l /\ \A k \in Level : HeldBy(frames, i, k) => k < m

(* Frame i and the mask it runs with, or will run with again.              *)
FrameSound(frames, i, m) ==
  /\ frames[i].at \in {"run", "leave"} => IsHighest(frames, i, m)
  /\ frames[i].at \in {"test", "disable", "raise"} =>
       IsHighest(frames, i, m) \/ IsEntered(frames, i, frames[i].level, m)
  /\ frames[i].at = "raise" => IsRaised(frames, i, frames[i].level, frames[i].target)
  /\ frames[i].at \in {"count", "enable", "lower"} => IsRaised(frames, i, frames[i].level, m)
  /\ frames[i].at = "lower" => IsHighest(frames, i, frames[i].target)
  /\ frames[i].at = "leave" => frames[i].irq # NONE /\ frames[i].holds = NoHolds

(* A stack: the thread's own code is at the bottom, and each frame finds   *)
(* its mask again when the handler above it returns.                       *)
StackSound(frames) ==
  /\ Len(frames) >= 1
  /\ frames[1].irq = NONE
  /\ \A i \in 1..Len(frames) - 1 : FrameSound(frames, i, frames[i + 1].saved)

(* A stack that the CPU is not on is in ContextSwitch or ContextBootstrap. *)
IdleSound(frames) ==
  /\ frames[Len(frames)].at = "run"
  /\ frames[Len(frames)].holds = SwitchHolds
  /\ Len(frames) = 1 \/ frames[Len(frames)].irq = CRIT

(* A frame interrupts no section of its own level or above.                *)
AtomicSound(frames) ==
  \A i, j \in 1..Len(frames), l \in Level :
     i < j /\ frames[i].holds[l] > 0 => frames[j].irq > l

(* A counter is the number of sections of its level.                       *)
Counted(frames, l, n) == IsFiniteSet(Inside(frames, l)) /\ n = Cardinality(Inside(frames, l))

AllCounted(frames, c) == \A l \in Level : Counted(frames, l, c[l])

(* The inductive invariant.                                                *)
IsrInv ==
  /\ IsrTypeOK
  /\ \A t \in Threads : StackSound(stack[t]) /\ AtomicSound(stack[t])
  /\ \A t \in Threads \ {active} : IdleSound(stack[t])
  /\ FrameSound(stack[active], Depth, mask)
  /\ AllCounted(stack[active], IsrDisabledCount)

-----------------------------------------------------------------------------

(* A set of levels that is not empty has a highest one.                    *)
LEMMA HighestExists ==
  ASSUME NEW n \in Nat, NEW S \in SUBSET (1..n), S # {}
  PROVE  \E m \in S : \A k \in S : k <= m
<1> DEFINE T == {n - k : k \in S}
           R == OpToRel(<, Nat)
<1>1. \A k \in S : k \in 1..n /\ n - k \in Nat
  OBVIOUS
<1>2. T \subseteq Nat
  BY <1>1
<1>3. T # {}
  OBVIOUS
<1>4. IsWellFoundedOn(R, Nat)
  BY NatLessThanWellFounded, Zenon
<1>5. PICK x \in T : \A y \in T : ~ (<<y, x>> \in R)
  <2> HIDE DEF R, T
  <2> QED
    BY <1>2, <1>3, <1>4, WFMin
<1>6. \A y \in T : ~ (y < x)
  BY <1>2, <1>5, Zenon DEF OpToRel
<1>7. PICK m \in S : x = n - m
  OBVIOUS
<1>8. ASSUME NEW k \in S PROVE k <= m
  <2>1. n - k \in T
    OBVIOUS
  <2>2. ~ (n - k < n - m)
    BY <1>6, <1>7, <2>1
  <2>3. k \in Int /\ m \in Int /\ n \in Int
    BY <1>1
  <2> QED
    BY <2>2, <2>3
<1> QED
  BY <1>8

(* The pairs that make up Inside.                                          *)
LEMMA InsidePairs ==
  ASSUME NEW frames, NEW l, NEW x
  PROVE  x \in Inside(frames, l) <=>
           \E i \in 1..Len(frames) : \E k \in 1..frames[i].holds[l] : x = <<i, k>>
<1>1. \A i : x \in {i} \X (1..frames[i].holds[l]) <=> \E k \in 1..frames[i].holds[l] : x = <<i, k>>
  OBVIOUS
<1> QED
  BY <1>1 DEF Inside

(* What depends on the first i frames only.                                *)
LEMMA SameFrames ==
  ASSUME NEW f, NEW g, NEW i \in Nat, i >= 1, \A j \in 1..i : f[j] = g[j], NEW m
  PROVE  FrameSound(f, i, m) => FrameSound(g, i, m)
<1>1. f[i] = g[i]
  OBVIOUS
<1>2. \A l : HeldBy(f, i, l) <=> HeldBy(g, i, l)
  BY DEF HeldBy
<1>3. \A k : (Covers(f, i, k) <=> Covers(g, i, k)) /\ (IsHighest(f, i, k) <=> IsHighest(g, i, k))
  BY <1>2 DEF Covers, IsHighest
<1>4. \A l, k : (IsRaised(f, i, l, k) <=> IsRaised(g, i, l, k))
                /\ (IsEntered(f, i, l, k) <=> IsEntered(g, i, l, k))
  BY <1>2, <1>3 DEF IsRaised, IsEntered
<1> QED
  BY <1>1, <1>3, <1>4 DEF FrameSound

(* Whatever a frame does, its mask covers its sections and those below.    *)
LEMMA FrameCovers ==
  ASSUME NEW frames, NEW i, NEW m \in Level \cup {NONE}, frames[i] \in Frame,
         FrameSound(frames, i, m)
  PROVE  Covers(frames, i, m)
<1>1. frames[i].at \in {"run", "test", "disable", "raise", "count", "enable", "lower", "leave"}
  BY DEF Frame
<1>2. CASE IsEntered(frames, i, frames[i].level, m)
  <2>1. Level \subseteq Int
    BY DEF Level, CRIT
  <2>2. m \in Int
    BY <2>1 DEF NONE
  <2> QED
    BY <1>2, <2>1, <2>2 DEF IsEntered, Covers
<1> QED
  BY <1>1, <1>2 DEF FrameSound, IsHighest, IsRaised

(* The counter of a level is positive exactly when a frame holds it.       *)
LEMMA CountHeld ==
  ASSUME NEW frames \in Seq(Frame), NEW l \in Level, NEW n, Counted(frames, l, n)
  PROVE  n \in Nat /\ (n > 0 <=> HeldBy(frames, Len(frames), l))
<1>1. n \in Nat /\ (n = 0 <=> Inside(frames, l) = {})
  BY FS_CardinalityType, FS_EmptySet DEF Counted
<1>2. \A i \in 1..Len(frames) : frames[i].holds[l] \in Nat
  <2>1. \A i \in 1..Len(frames) : frames[i] \in Frame
    BY ElementOfSeq
  <2>2. \A f \in Frame : f.holds \in [Level -> Nat]
    BY DEF Frame
  <2> QED
    BY <2>1, <2>2
<1>3. ASSUME HeldBy(frames, Len(frames), l) PROVE Inside(frames, l) # {}
  <2>1. PICK i \in 1..Len(frames) : frames[i].holds[l] > 0
    BY <1>3 DEF HeldBy
  <2>2. 1 \in 1..frames[i].holds[l]
    BY <1>2, <2>1
  <2>3. <<i, 1>> \in Inside(frames, l)
    BY <2>2, InsidePairs
  <2> QED
    BY <2>3
<1>4. ASSUME Inside(frames, l) # {} PROVE HeldBy(frames, Len(frames), l)
  <2>1. PICK x : x \in Inside(frames, l)
    BY <1>4
  <2>2. PICK i \in 1..Len(frames) : \E k \in 1..frames[i].holds[l] : x = <<i, k>>
    BY <2>1, InsidePairs
  <2>3. frames[i].holds[l] > 0
    BY <1>2, <2>2
  <2> QED
    BY <2>3 DEF HeldBy
<1> QED
  BY <1>1, <1>3, <1>4

(* IsrDefer finds the highest level that is disabled, or is about to be.   *)
LEMMA DeferHighest ==
  ASSUME NEW frames \in Seq(Frame), NEW l \in Level,
         AllCounted(frames, IsrDisabledCount)
  PROVE  /\ IsHighest(frames, Len(frames), IsrDefer(l, TRUE))
         /\ IsRaised(frames, Len(frames), l, IsrDefer(l, FALSE))
<1> DEFINE n == Len(frames)
           Candidates(enable) == {k \in Level : IsrDisabledCount[k] > 0 \/ (k = l /\ ~ enable)}
<1>1. \A k \in Level : IsrDisabledCount[k] > 0 <=> HeldBy(frames, n, k)
  BY CountHeld DEF AllCounted
<1>2. Level \subseteq Int /\ Level = 1..MAX /\ MAX \in Nat
  BY IsrAssumption DEF Level, CRIT
<1>3. ASSUME NEW enable \in BOOLEAN, Candidates(enable) # {}
      PROVE  /\ IsrDefer(l, enable) \in Candidates(enable)
             /\ \A k \in Candidates(enable) : k <= IsrDefer(l, enable)
  <2>1. \E m \in Candidates(enable) : \A k \in Candidates(enable) : k <= m
    <3>1. Candidates(enable) \in SUBSET (1..MAX)
      BY <1>2
    <3> HIDE DEF Candidates
    <3> QED
      BY <1>2, <1>3, <3>1, HighestExists
  <2> QED
    BY <1>3, <2>1 DEF IsrDefer
<1>4. ASSUME NEW enable \in BOOLEAN, Candidates(enable) = {}
      PROVE  IsrDefer(l, enable) = NONE
  BY <1>4 DEF IsrDefer
<1>5. IsHighest(frames, n, IsrDefer(l, TRUE))
  <2>1. CASE Candidates(TRUE) = {}
    BY <1>1, <1>4, <2>1 DEF IsHighest, Covers
  <2>2. CASE Candidates(TRUE) # {}
    BY <1>1, <1>3, <2>2 DEF IsHighest, Covers
  <2> QED
    BY <2>1, <2>2
<1>6. IsRaised(frames, n, l, IsrDefer(l, FALSE))
  <2>1. l \in Candidates(FALSE)
    OBVIOUS
  <2>2. /\ IsrDefer(l, FALSE) \in Candidates(FALSE)
        /\ \A k \in Candidates(FALSE) : k <= IsrDefer(l, FALSE)
    BY <1>3, <2>1
  <2> QED
    BY <1>1, <2>1, <2>2 DEF IsRaised, Covers
<1> QED
  BY <1>5, <1>6

(* Two highest levels of the same sections are equal.                      *)
LEMMA HighestUnique ==
  ASSUME NEW frames, NEW i, NEW m, NEW k, IsHighest(frames, i, m), IsHighest(frames, i, k)
  PROVE  m = k
<1>1. m \in Level \cup {NONE} /\ k \in Level \cup {NONE}
  BY DEF IsHighest, Covers
<1>2. \A l \in Level : l \in Int /\ l >= 1
  BY DEF Level, CRIT
<1>3. CASE m = NONE /\ k # NONE
  BY <1>1, <1>2, <1>3 DEF IsHighest, Covers, NONE
<1>4. CASE k = NONE /\ m # NONE
  BY <1>1, <1>2, <1>4 DEF IsHighest, Covers, NONE
<1>5. CASE k # NONE /\ m # NONE
  BY <1>1, <1>2, <1>5 DEF IsHighest, Covers
<1> QED
  BY <1>3, <1>4, <1>5

-----------------------------------------------------------------------------

(* The type and the soundness of the active stack, for the steps on it.    *)
LEMMA ActiveStack ==
  ASSUME IsrInv
  PROVE  /\ active \in Threads /\ stack[active] \in Seq(Frame)
         /\ Depth \in Nat /\ Depth >= 1
         /\ \A i \in 1..Depth : stack[active][i] \in Frame
         /\ Top \in Frame
         /\ mask \in Level \cup {NONE}
         /\ StackSound(stack[active]) /\ AtomicSound(stack[active])
<1>1. active \in Threads /\ stack[active] \in Seq(Frame) /\ mask \in Level \cup {NONE}
  BY DEF IsrInv, IsrTypeOK
<1>2. StackSound(stack[active]) /\ AtomicSound(stack[active])
  BY <1>1 DEF IsrInv
<1>3. Depth \in Nat /\ Depth >= 1
  BY <1>1, <1>2, LenProperties DEF StackSound, Depth
<1>4. \A i \in 1..Depth : stack[active][i] \in Frame
  BY <1>1, ElementOfSeq DEF Depth
<1> QED
  BY <1>1, <1>2, <1>3, <1>4 DEF Top

(* The fields of a frame have their types.                                 *)
LEMMA FrameFields ==
  ASSUME NEW f \in Frame
  PROVE  /\ f.irq \in Level \cup {NONE} /\ f.saved \in Level \cup {NONE}
         /\ f.holds \in [Level -> Nat]
         /\ f.level \in Level /\ f.target \in Level \cup {NONE}
  BY DEF Frame

(* A step that changes the running frame leaves the rest of every stack.   *)
LEMMA BecomeTop ==
  ASSUME IsrInv, NEW f \in Frame, Become(f)
  PROVE  /\ stack' \in [Threads -> Seq(Frame)]
         /\ \A t \in Threads \ {active} : stack'[t] = stack[t]
         /\ Len(stack'[active]) = Depth /\ stack'[active][Depth] = f
         /\ \A j \in 1..Depth - 1 : stack'[active][j] = stack[active][j]
<1>1. stack \in [Threads -> Seq(Frame)] /\ active \in Threads
  BY DEF IsrInv, IsrTypeOK
<1> DEFINE q == stack[active]
           r == [q EXCEPT ![Depth] = f]
<1>2. q \in Seq(Frame) /\ Depth \in 1..Len(q) /\ Depth = Len(q)
  BY ActiveStack DEF Depth
<1>3. r \in Seq(Frame) /\ Len(r) = Len(q)
     /\ (\A i \in 1..Len(q) : r[i] = IF i = Depth THEN f ELSE q[i])
  <2> HIDE DEF q
  <2> QED
    BY <1>2, ExceptSeq
<1>4. stack' = [stack EXCEPT ![active] = r]
  BY DEF Become
<1> HIDE DEF r
<1>5. stack'[active] = r /\ (\A t \in Threads \ {active} : stack'[t] = stack[t])
      /\ stack' \in [Threads -> Seq(Frame)]
  BY <1>1, <1>3, <1>4
<1> QED
  BY <1>2, <1>3, <1>5

(* Such a step keeps the stacks sound when the running frame is left sound *)
(* with the mask, for what the frame handles and returns to never changes. *)
LEMMA BecomeKeeps ==
  ASSUME IsrInv, NEW f \in Frame, Become(f), active' = active,
         f.irq = Top.irq, f.saved = Top.saved,
         IsrDisabledCount' \in [Level -> Nat], mask' \in Level \cup {NONE},
         FrameSound(stack'[active], Depth, mask'),
         AllCounted(stack'[active], IsrDisabledCount')
  PROVE  IsrInv'
<1> DEFINE q == stack[active]
           r == stack'[active]
           n == Depth
<1>1. /\ stack' \in [Threads -> Seq(Frame)]
      /\ \A t \in Threads \ {active} : stack'[t] = stack[t]
      /\ Len(r) = n /\ r[n] = f
      /\ \A j \in 1..n - 1 : r[j] = q[j]
  BY BecomeTop
<1>2. n \in Nat /\ n >= 1 /\ Len(q) = n /\ active \in Threads /\ q[n] = Top
      /\ StackSound(q) /\ AtomicSound(q)
  BY ActiveStack DEF Depth, Top
<1> HIDE DEF q, r, n
<1>3. \A j \in 1..n : r[j].irq = q[j].irq /\ r[j].saved = q[j].saved
  <2> TAKE j \in 1..n
  <2>1. CASE j = n
    BY <1>1, <1>2, <2>1
  <2>2. CASE j # n
    <3>1. j \in 1..n - 1
      BY <1>2, <2>2
    <3> QED
      BY <1>1, <3>1
  <2> QED
    BY <2>1, <2>2
<1>4. StackSound(r)
  <2>1. Len(r) >= 1 /\ r[1].irq = NONE
    BY <1>1, <1>2, <1>3 DEF StackSound
  <2>2. ASSUME NEW i \in 1..Len(r) - 1 PROVE FrameSound(r, i, r[i + 1].saved)
    <3>1. i \in Nat /\ i >= 1 /\ i \in 1..n - 1 /\ i + 1 \in 1..n
      BY <1>1, <1>2
    <3>2. FrameSound(q, i, q[i + 1].saved)
      BY <1>2, <3>1 DEF StackSound
    <3>3. \A j \in 1..i : j \in 1..n - 1
      BY <1>2, <3>1
    <3>4. \A j \in 1..i : q[j] = r[j]
      BY <1>1, <3>3
    <3> QED
      BY <1>3, <3>1, <3>2, <3>4, SameFrames
  <2> QED
    BY <2>1, <2>2 DEF StackSound
<1>5. AtomicSound(r)
  <2> SUFFICES ASSUME NEW i \in 1..n, NEW j \in 1..n, NEW l \in Level,
                      i < j, r[i].holds[l] > 0
               PROVE  r[j].irq > l
    BY <1>1 DEF AtomicSound
  <2>1. r[i] = q[i]
    BY <1>1, <1>2
  <2> QED
    BY <1>2, <1>3, <2>1 DEF AtomicSound
<1>6. \A t \in Threads : StackSound(stack'[t]) /\ AtomicSound(stack'[t])
  BY <1>1, <1>4, <1>5 DEF IsrInv, r
<1>7. \A t \in Threads \ {active} : IdleSound(stack'[t])
  BY <1>1 DEF IsrInv
<1>8. IsrTypeOK'
  BY <1>1, <1>2 DEF IsrTypeOK
<1>9. Depth' = Depth
  BY <1>1, <1>2 DEF Depth, r, n
<1> QED
  BY <1>6, <1>7, <1>8, <1>9 DEF IsrInv

(* What only the sections of the frames decide.                            *)
LEMMA SameSections ==
  ASSUME NEW q, NEW r, NEW n, Len(q) = n, Len(r) = n,
         \A j \in 1..n : r[j].holds = q[j].holds
  PROVE  /\ \A l : HeldBy(r, n, l) <=> HeldBy(q, n, l)
         /\ \A m : IsHighest(q, n, m) => IsHighest(r, n, m)
         /\ \A l, m : IsRaised(q, n, l, m) => IsRaised(r, n, l, m)
         /\ \A l, m : IsEntered(q, n, l, m) => IsEntered(r, n, l, m)
         /\ \A l, c : Counted(q, l, c) => Counted(r, l, c)
<1>1. \A l : HeldBy(r, n, l) <=> HeldBy(q, n, l)
  BY DEF HeldBy
<1>2. \A m : Covers(q, n, m) => Covers(r, n, m)
  BY <1>1 DEF Covers
<1>3. \A l : Inside(q, l) = Inside(r, l)
  BY DEF Inside
<1>4. \A l, c : Counted(q, l, c) => Counted(r, l, c)
  BY <1>3 DEF Counted
<1> QED
  BY <1>1, <1>2, <1>4 DEF IsHighest, IsRaised, IsEntered

(* A step of IsrDisable or IsrEnable that enters or leaves no section.     *)
LEMMA BecomeSame ==
  ASSUME IsrInv, NEW f \in Frame, Become(f), f.holds = Top.holds
  PROVE  /\ stack'[active][Depth] = f
         /\ \A l : HeldBy(stack'[active], Depth, l) <=> HeldBy(stack[active], Depth, l)
         /\ \A m : IsHighest(stack[active], Depth, m) => IsHighest(stack'[active], Depth, m)
         /\ \A l, m : IsRaised(stack[active], Depth, l, m) => IsRaised(stack'[active], Depth, l, m)
         /\ \A l, m : IsEntered(stack[active], Depth, l, m) => IsEntered(stack'[active], Depth, l, m)
         /\ AllCounted(stack'[active], IsrDisabledCount)
<1> DEFINE q == stack[active]
           r == stack'[active]
           n == Depth
<1>1. Len(r) = n /\ r[n] = f /\ (\A j \in 1..n - 1 : r[j] = q[j])
  BY BecomeTop
<1>2. n \in Nat /\ n >= 1 /\ Len(q) = n /\ q[n] = Top
  BY ActiveStack DEF Depth, Top
<1>3. AllCounted(q, IsrDisabledCount)
  BY DEF IsrInv
<1> HIDE DEF q, r, n
<1>4. \A j \in 1..n : r[j].holds = q[j].holds
  <2> TAKE j \in 1..n
  <2>1. CASE j = n
    BY <1>1, <1>2, <2>1
  <2>2. CASE j # n
    BY <1>1, <1>2, <2>2
  <2> QED
    BY <2>1, <2>2
<1>5. /\ \A l : HeldBy(r, n, l) <=> HeldBy(q, n, l)
      /\ \A m : IsHighest(q, n, m) => IsHighest(r, n, m)
      /\ \A l, m : IsRaised(q, n, l, m) => IsRaised(r, n, l, m)
      /\ \A l, m : IsEntered(q, n, l, m) => IsEntered(r, n, l, m)
      /\ \A l, c : Counted(q, l, c) => Counted(r, l, c)
  BY <1>1, <1>2, <1>4, SameSections
<1>6. AllCounted(r, IsrDisabledCount)
  BY <1>3, <1>5 DEF AllCounted
<1> QED
  BY <1>1, <1>5, <1>6 DEF q, r, n

-----------------------------------------------------------------------------

(* IsrDisable begins: the frame runs with the same mask.                   *)
LEMMA DisableKeeps ==
  ASSUME IsrInv, NEW l \in Level, IsrDisable(l)
  PROVE  IsrInv'
<1> DEFINE f == [Top EXCEPT !.at = "test", !.level = l]
<1>1. Top \in Frame
  BY ActiveStack
<1>2. f \in Frame /\ f.irq = Top.irq /\ f.saved = Top.saved /\ f.holds = Top.holds
      /\ f.at = "test"
  BY <1>1 DEF Frame
<1> HIDE DEF f
<1>3. Become(f) /\ Top.at = "run" /\ UNCHANGED <<IsrDisabledCount, mask, active>>
  BY DEF IsrDisable, At, f
<1>4. IsHighest(stack[active], Depth, mask)
  BY <1>3 DEF IsrInv, FrameSound, Top
<1>5. FrameSound(stack'[active], Depth, mask')
  BY <1>2, <1>3, <1>4, BecomeSame DEF FrameSound
<1>6. IsrDisabledCount' \in [Level -> Nat] /\ mask' \in Level \cup {NONE}
  BY <1>3 DEF IsrInv, IsrTypeOK
<1>7. AllCounted(stack'[active], IsrDisabledCount')
  BY <1>2, <1>3, BecomeSame
<1> QED
  BY <1>2, <1>3, <1>5, <1>6, <1>7, BecomeKeeps

(* The test of the counter: if it is positive, the mask is high enough     *)
(* already.                                                                *)
LEMMA DisableTestKeeps ==
  ASSUME IsrInv, DisableTest
  PROVE  IsrInv'
<1> DEFINE f == [Top EXCEPT !.at = IF IsrDisabledCount[Top.level] = 0 THEN "disable" ELSE "count"]
           q == stack[active]
           n == Depth
<1>1. Top \in Frame /\ Top.level \in Level /\ q \in Seq(Frame) /\ n = Len(q) /\ q[n] = Top
      /\ mask \in Level \cup {NONE}
  BY ActiveStack, FrameFields DEF Depth, Top
<1>2. f \in Frame /\ f.irq = Top.irq /\ f.saved = Top.saved /\ f.holds = Top.holds
      /\ f.level = Top.level
      /\ f.at = IF IsrDisabledCount[Top.level] = 0 THEN "disable" ELSE "count"
  BY <1>1 DEF Frame
<1> HIDE DEF f
<1>3. Become(f) /\ Top.at = "test" /\ UNCHANGED <<IsrDisabledCount, mask, active>>
  BY DEF DisableTest, At, f
<1>4. IsHighest(q, n, mask) \/ IsEntered(q, n, Top.level, mask)
  BY <1>3 DEF IsrInv, FrameSound, Top
<1>5. ASSUME IsrDisabledCount[Top.level] # 0
      PROVE  IsRaised(q, n, Top.level, mask)
  <2>1. Counted(q, Top.level, IsrDisabledCount[Top.level])
    BY <1>1 DEF IsrInv, AllCounted
  <2>2. HeldBy(q, n, Top.level)
    BY <1>1, <1>5, <2>1, CountHeld
  <2>3. Top.level \in Int /\ Top.level >= 1
    BY <1>1, IsrAssumption DEF Level, CRIT
  <2>4. CASE IsHighest(q, n, mask)
    <3>1. Top.level <= mask
      BY <1>1, <2>2, <2>4 DEF IsHighest, Covers
    <3>2. mask # NONE
      BY <2>3, <3>1 DEF NONE
    <3> QED
      BY <2>4, <3>1, <3>2 DEF IsHighest, IsRaised
  <2>5. CASE IsEntered(q, n, Top.level, mask)
    <3>1. Top.level < Top.level
      BY <1>1, <2>2, <2>5 DEF IsEntered
    <3> QED
      BY <2>3, <3>1
  <2> QED
    BY <1>4, <2>4, <2>5
<1>6. FrameSound(stack'[active], Depth, mask')
  BY <1>2, <1>3, <1>4, <1>5, BecomeSame DEF FrameSound
<1>7. IsrDisabledCount' \in [Level -> Nat] /\ mask' \in Level \cup {NONE}
  BY <1>3 DEF IsrInv, IsrTypeOK
<1>8. AllCounted(stack'[active], IsrDisabledCount')
  BY <1>2, <1>3, BecomeSame
<1> QED
  BY <1>2, <1>3, <1>6, <1>7, <1>8, BecomeKeeps

(* The mask that IsrDisable will set is chosen.  Handlers that come before *)
(* it is set leave no section behind, so it stays the right one.           *)
LEMMA DisableDeferKeeps ==
  ASSUME IsrInv, DisableDefer
  PROVE  IsrInv'
<1> DEFINE m == IsrDefer(Top.level, FALSE)
           f == [Top EXCEPT !.at = "raise", !.target = m]
           q == stack[active]
<1>1. Top \in Frame /\ Top.level \in Level /\ q \in Seq(Frame) /\ Depth = Len(q)
  BY ActiveStack, FrameFields DEF Depth
<1>2. IsRaised(q, Depth, Top.level, m)
  BY <1>1, DeferHighest DEF IsrInv
<1>3. m \in Level \cup {NONE}
  BY <1>2 DEF IsRaised, Covers
<1> HIDE DEF m
<1>4. f \in Frame /\ f.irq = Top.irq /\ f.saved = Top.saved /\ f.holds = Top.holds
      /\ f.level = Top.level /\ f.at = "raise" /\ f.target = m
  BY <1>1, <1>3 DEF Frame
<1> HIDE DEF f
<1>5. Become(f) /\ Top.at = "disable" /\ UNCHANGED <<IsrDisabledCount, mask, active>>
  BY DEF DisableDefer, At, f, m
<1>6. IsHighest(q, Depth, mask) \/ IsEntered(q, Depth, Top.level, mask)
  BY <1>5 DEF IsrInv, FrameSound, Top
<1>7. FrameSound(stack'[active], Depth, mask')
  BY <1>2, <1>4, <1>5, <1>6, BecomeSame DEF FrameSound
<1>8. IsrDisabledCount' \in [Level -> Nat] /\ mask' \in Level \cup {NONE}
  BY <1>5 DEF IsrInv, IsrTypeOK
<1>9. AllCounted(stack'[active], IsrDisabledCount')
  BY <1>4, <1>5, BecomeSame
<1> QED
  BY <1>4, <1>5, <1>7, <1>8, <1>9, BecomeKeeps

(* IsrDisable sets the mask it has chosen.                                 *)
LEMMA DisableSetIrqKeeps ==
  ASSUME IsrInv, DisableSetIrq
  PROVE  IsrInv'
<1> DEFINE f == [Top EXCEPT !.at = "count", !.target = NONE]
<1>1. Top \in Frame /\ Top.target \in Level \cup {NONE}
  BY ActiveStack, FrameFields
<1>2. f \in Frame /\ f.irq = Top.irq /\ f.saved = Top.saved /\ f.holds = Top.holds
      /\ f.level = Top.level /\ f.at = "count"
  BY <1>1 DEF Frame
<1> HIDE DEF f
<1>3. Become(f) /\ Top.at = "raise" /\ mask' = Top.target
      /\ UNCHANGED <<IsrDisabledCount, active>>
  BY DEF DisableSetIrq, At, f
<1>4. IsRaised(stack[active], Depth, Top.level, Top.target)
  BY <1>3 DEF IsrInv, FrameSound, Top
<1>5. FrameSound(stack'[active], Depth, mask')
  BY <1>2, <1>3, <1>4, BecomeSame DEF FrameSound
<1>6. IsrDisabledCount' \in [Level -> Nat] /\ mask' \in Level \cup {NONE}
  BY <1>1, <1>3 DEF IsrInv, IsrTypeOK
<1>7. AllCounted(stack'[active], IsrDisabledCount')
  BY <1>2, <1>3, BecomeSame
<1> QED
  BY <1>2, <1>3, <1>5, <1>6, <1>7, BecomeKeeps

(* The mask that IsrEnable will set is chosen, after the counter is        *)
(* lowered.                                                                *)
LEMMA EnableDeferKeeps ==
  ASSUME IsrInv, EnableDefer
  PROVE  IsrInv'
<1> DEFINE m == IsrDefer(Top.level, TRUE)
           f == [Top EXCEPT !.at = "lower", !.target = m]
           q == stack[active]
<1>1. Top \in Frame /\ Top.level \in Level /\ q \in Seq(Frame) /\ Depth = Len(q)
  BY ActiveStack, FrameFields DEF Depth
<1>2. IsHighest(q, Depth, m)
  BY <1>1, DeferHighest DEF IsrInv
<1>3. m \in Level \cup {NONE}
  BY <1>2 DEF IsHighest, Covers
<1> HIDE DEF m
<1>4. f \in Frame /\ f.irq = Top.irq /\ f.saved = Top.saved /\ f.holds = Top.holds
      /\ f.level = Top.level /\ f.at = "lower" /\ f.target = m
  BY <1>1, <1>3 DEF Frame
<1> HIDE DEF f
<1>5. Become(f) /\ Top.at = "enable" /\ UNCHANGED <<IsrDisabledCount, mask, active>>
  BY DEF EnableDefer, At, f, m
<1>6. IsRaised(q, Depth, Top.level, mask)
  BY <1>5 DEF IsrInv, FrameSound, Top
<1>7. FrameSound(stack'[active], Depth, mask')
  BY <1>2, <1>4, <1>5, <1>6, BecomeSame DEF FrameSound
<1>8. IsrDisabledCount' \in [Level -> Nat] /\ mask' \in Level \cup {NONE}
  BY <1>5 DEF IsrInv, IsrTypeOK
<1>9. AllCounted(stack'[active], IsrDisabledCount')
  BY <1>4, <1>5, BecomeSame
<1> QED
  BY <1>4, <1>5, <1>7, <1>8, <1>9, BecomeKeeps

(* The frame at the end of IsrDisable or IsrEnable.                        *)
LEMMA ResumeFrame ==
  ASSUME NEW g \in Frame
  PROVE  /\ Resume(g) \in Frame
         /\ Resume(g).irq = g.irq /\ Resume(g).saved = g.saved /\ Resume(g).holds = g.holds
         /\ Resume(g).at \in {"run", "leave"}
         /\ Resume(g).at = "leave" => g.irq # NONE /\ g.holds = NoHolds
<1>1. CRIT \in Level
  BY IsrAssumption DEF Level, CRIT
<1>2. CASE g.irq # NONE /\ g.holds = NoHolds
  <2>1. Resume(g) = [g EXCEPT !.at = "leave", !.level = CRIT, !.target = NONE]
    BY <1>2 DEF Resume
  <2> QED
    BY <1>1, <1>2, <2>1 DEF Frame
<1>3. CASE ~ (g.irq # NONE /\ g.holds = NoHolds)
  <2>1. Resume(g) = [g EXCEPT !.at = "run", !.level = CRIT, !.target = NONE]
    BY <1>3 DEF Resume
  <2> QED
    BY <1>1, <2>1 DEF Frame
<1> QED
  BY <1>2, <1>3

(* IsrEnable sets the mask it has chosen; a handler that has left its last *)
(* section returns.                                                        *)
LEMMA EnableSetIrqKeeps ==
  ASSUME IsrInv, EnableSetIrq
  PROVE  IsrInv'
<1> DEFINE f == Resume(Top)
<1>1. Top \in Frame /\ Top.target \in Level \cup {NONE}
  BY ActiveStack, FrameFields
<1>2. f \in Frame /\ f.irq = Top.irq /\ f.saved = Top.saved /\ f.holds = Top.holds
      /\ f.at \in {"run", "leave"}
      /\ (f.at = "leave" => f.irq # NONE /\ f.holds = NoHolds)
  BY <1>1, ResumeFrame
<1> HIDE DEF f
<1>3. Become(f) /\ Top.at = "lower" /\ mask' = Top.target
      /\ UNCHANGED <<IsrDisabledCount, active>>
  BY DEF EnableSetIrq, At, f
<1>4. IsHighest(stack[active], Depth, Top.target)
  BY <1>3 DEF IsrInv, FrameSound, Top
<1>5. FrameSound(stack'[active], Depth, mask')
  BY <1>2, <1>3, <1>4, BecomeSame DEF FrameSound
<1>6. IsrDisabledCount' \in [Level -> Nat] /\ mask' \in Level \cup {NONE}
  BY <1>1, <1>3 DEF IsrInv, IsrTypeOK
<1>7. AllCounted(stack'[active], IsrDisabledCount')
  BY <1>2, <1>3, BecomeSame
<1> QED
  BY <1>2, <1>3, <1>5, <1>6, <1>7, BecomeKeeps

-----------------------------------------------------------------------------

(* One section more of level l in the last frame.                          *)
OneMore(q, r, n, l) ==
  /\ q \in Seq(Frame) /\ r \in Seq(Frame)
  /\ n \in Nat /\ n >= 1 /\ Len(q) = n /\ Len(r) = n
  /\ \A j \in 1..n - 1 : r[j] = q[j]
  /\ r[n].holds[l] = q[n].holds[l] + 1
  /\ \A k \in Level : k # l => r[n].holds[k] = q[n].holds[k]

(* The levels that are held, and the pairs of Inside, with one more.       *)
LEMMA SectionAdded ==
  ASSUME NEW q, NEW r, NEW n, NEW l \in Level, OneMore(q, r, n, l)
  PROVE  /\ \A k \in Level : HeldBy(r, n, k) <=> k = l \/ HeldBy(q, n, k)
         /\ \A k \in Level : k # l => Inside(r, k) = Inside(q, k)
         /\ \E x : x \notin Inside(q, l) /\ Inside(r, l) = Inside(q, l) \cup {x}
<1> USE DEF OneMore
<1>1. q[n].holds \in [Level -> Nat]
  BY ElementOfSeq, FrameFields
<1>2. \A i \in 1..n : i # n => r[i] = q[i]
  OBVIOUS
<1>3. ASSUME NEW k \in Level PROVE HeldBy(r, n, k) <=> k = l \/ HeldBy(q, n, k)
  <2>1. n \in 1..n
    OBVIOUS
  <2>2. HeldBy(r, n, k) <=> r[n].holds[k] > 0 \/ \E j \in 1..n : j # n /\ q[j].holds[k] > 0
    BY <1>2, <2>1 DEF HeldBy
  <2>3. HeldBy(q, n, k) <=> q[n].holds[k] > 0 \/ \E j \in 1..n : j # n /\ q[j].holds[k] > 0
    BY <2>1 DEF HeldBy
  <2>4. r[n].holds[k] > 0 <=> k = l \/ q[n].holds[k] > 0
    BY <1>1
  <2> QED
    BY <2>2, <2>3, <2>4
<1>4. ASSUME NEW k \in Level, k # l PROVE Inside(r, k) = Inside(q, k)
  <2>1. \A i \in 1..n : r[i].holds[k] = q[i].holds[k]
    BY <1>2, <1>4
  <2> QED
    BY <2>1 DEF Inside
<1>5. Inside(r, l) = Inside(q, l) \cup {<<n, q[n].holds[l] + 1>>}
  <2> DEFINE h == q[n].holds[l]
  <2>1. h \in Nat /\ r[n].holds[l] = h + 1
    BY <1>1
  <2>2. n \in 1..n
    OBVIOUS
  <2> HIDE DEF h
  <2>3. ASSUME NEW x \in Inside(r, l) PROVE x \in Inside(q, l) \cup {<<n, h + 1>>}
    <3>1. PICK i \in 1..n : \E k \in 1..r[i].holds[l] : x = <<i, k>>
      BY <2>3, InsidePairs
    <3>2. CASE i # n
      BY <1>2, <3>1, <3>2, InsidePairs
    <3>3. CASE i = n
      <4>1. PICK k \in 1..h + 1 : x = <<n, k>>
        BY <2>1, <3>1, <3>3
      <4>2. CASE k = h + 1
        BY <4>1, <4>2
      <4>3. CASE k # h + 1
        <5>1. k \in 1..h
          <6> HIDE DEF OneMore
          <6> QED
            BY <2>1, <4>3
        <5> QED
          BY <2>2, <4>1, <5>1, InsidePairs DEF h
      <4> QED
        BY <4>2, <4>3
    <3> QED
      BY <3>2, <3>3
  <2>4. ASSUME NEW x \in Inside(q, l) PROVE x \in Inside(r, l)
    <3>1. PICK i \in 1..n : \E k \in 1..q[i].holds[l] : x = <<i, k>>
      BY <2>4, InsidePairs
    <3>2. CASE i # n
      BY <1>2, <3>1, <3>2, InsidePairs
    <3>3. CASE i = n
      <4>1. PICK k \in 1..h : x = <<n, k>>
        BY <3>1, <3>3 DEF h
      <4>2. k \in 1..r[n].holds[l]
        BY <2>1, <4>1
      <4> QED
        BY <2>2, <4>1, <4>2, InsidePairs
    <3> QED
      BY <3>2, <3>3
  <2>5. <<n, h + 1>> \in Inside(r, l)
    <3>1. h + 1 \in 1..r[n].holds[l] /\ n \in 1..Len(r)
      BY <2>1
    <3> QED
      BY <3>1, InsidePairs
  <2> QED
    BY <2>3, <2>4, <2>5 DEF h
<1>6. <<n, q[n].holds[l] + 1>> \notin Inside(q, l)
  <2> DEFINE h == q[n].holds[l]
  <2>1. h \in Nat
    BY <1>1
  <2>2. \A k \in 1..h : k # h + 1
    BY <2>1
  <2> SUFFICES ASSUME <<n, h + 1>> \in Inside(q, l) PROVE FALSE
    OBVIOUS
  <2>3. PICK i \in 1..n : \E k \in 1..q[i].holds[l] : <<n, h + 1>> = <<i, k>>
    BY InsidePairs
  <2>4. i = n
    BY <2>3
  <2> QED
    BY <2>2, <2>3, <2>4
<1> QED
  BY <1>3, <1>4, <1>5, <1>6

(* The running frame enters a section: the counter stays exact.            *)
LEMMA SectionEntered ==
  ASSUME NEW q, NEW r, NEW n, NEW l \in Level, OneMore(q, r, n, l),
         NEW c \in [Level -> Nat], AllCounted(q, c)
  PROVE  /\ \A k \in Level : HeldBy(r, n, k) <=> k = l \/ HeldBy(q, n, k)
         /\ Counted(r, l, c[l] + 1)
         /\ \A k \in Level : k # l => Counted(r, k, c[k])
<1>1. /\ \A k \in Level : HeldBy(r, n, k) <=> k = l \/ HeldBy(q, n, k)
      /\ \A k \in Level : k # l => Inside(r, k) = Inside(q, k)
      /\ \E x : x \notin Inside(q, l) /\ Inside(r, l) = Inside(q, l) \cup {x}
  BY SectionAdded
<1>2. PICK x : x \notin Inside(q, l) /\ Inside(r, l) = Inside(q, l) \cup {x}
  BY <1>1
<1>3. Counted(r, l, c[l] + 1)
  <2>1. IsFiniteSet(Inside(q, l)) /\ c[l] = Cardinality(Inside(q, l))
    BY DEF Counted, AllCounted
  <2>2. /\ IsFiniteSet(Inside(q, l) \cup {x})
        /\ Cardinality(Inside(q, l) \cup {x}) = Cardinality(Inside(q, l)) + 1
    BY <1>2, <2>1, FS_AddElement
  <2> QED
    BY <1>2, <2>1, <2>2 DEF Counted
<1>4. \A k \in Level : k # l => Counted(r, k, c[k])
  BY <1>1 DEF Counted, AllCounted
<1> QED
  BY <1>1, <1>3, <1>4

(* The running frame leaves a section: the counter stays exact, and the    *)
(* other levels stay held.                                                 *)
LEMMA SectionLeft ==
  ASSUME NEW q, NEW r, NEW n, NEW l \in Level, OneMore(r, q, n, l),
         NEW c \in [Level -> Nat], AllCounted(q, c)
  PROVE  /\ \A k \in Level : HeldBy(q, n, k) <=> k = l \/ HeldBy(r, n, k)
         /\ c[l] - 1 \in Nat
         /\ Counted(r, l, c[l] - 1)
         /\ \A k \in Level : k # l => Counted(r, k, c[k])
<1>1. /\ \A k \in Level : HeldBy(q, n, k) <=> k = l \/ HeldBy(r, n, k)
      /\ \A k \in Level : k # l => Inside(q, k) = Inside(r, k)
      /\ \E x : x \notin Inside(r, l) /\ Inside(q, l) = Inside(r, l) \cup {x}
  BY SectionAdded
<1>2. PICK x : x \notin Inside(r, l) /\ Inside(q, l) = Inside(r, l) \cup {x}
  BY <1>1
<1>3. Counted(r, l, c[l] - 1) /\ c[l] - 1 \in Nat
  <2>1. IsFiniteSet(Inside(q, l)) /\ c[l] = Cardinality(Inside(q, l))
    BY DEF Counted, AllCounted
  <2>2. IsFiniteSet(Inside(r, l))
    BY <1>2, <2>1, FS_Subset
  <2>3. Cardinality(Inside(q, l)) = Cardinality(Inside(r, l)) + 1
    BY <1>2, <2>2, FS_AddElement
  <2>4. Cardinality(Inside(r, l)) \in Nat
    BY <2>2, FS_CardinalityType
  <2>5. Cardinality(Inside(r, l)) = c[l] - 1
    BY <2>1, <2>3, <2>4
  <2> QED
    BY <2>2, <2>4, <2>5 DEF Counted
<1>4. \A k \in Level : k # l => Counted(r, k, c[k])
  BY <1>1 DEF Counted, AllCounted
<1> QED
  BY <1>1, <1>3, <1>4

(* IsrDisable raises the counter: the section begins.                      *)
LEMMA DisableCountKeeps ==
  ASSUME IsrInv, DisableCount
  PROVE  IsrInv'
<1> DEFINE g == [Top EXCEPT !.holds[Top.level] = @ + 1]
           f == Resume(g)
           q == stack[active]
           r == stack'[active]
           n == Depth
           l == Top.level
<1>1. Top \in Frame /\ l \in Level /\ q \in Seq(Frame) /\ n = Len(q) /\ q[n] = Top
      /\ n \in Nat /\ n >= 1 /\ active \in Threads /\ Top.holds \in [Level -> Nat]
  BY ActiveStack, FrameFields DEF Depth, Top
<1>2. g \in Frame /\ g.irq = Top.irq /\ g.saved = Top.saved
      /\ g.holds = [Top.holds EXCEPT ![l] = @ + 1]
  <2>1. [Top.holds EXCEPT ![l] = @ + 1] \in [Level -> Nat]
    BY <1>1
  <2> DEFINE h == [Top.holds EXCEPT ![l] = @ + 1]
  <2>2. g = [Top EXCEPT !.holds = h]
    BY <1>1 DEF Frame
  <2> HIDE DEF h, g
  <2>3. g \in Frame /\ g.irq = Top.irq /\ g.saved = Top.saved /\ g.holds = h
    BY <1>1, <2>1, <2>2 DEF Frame, h
  <2> QED
    BY <2>3 DEF h
<1> HIDE DEF g
<1>3. f \in Frame /\ f.irq = Top.irq /\ f.saved = Top.saved /\ f.holds = g.holds
      /\ f.at \in {"run", "leave"}
      /\ (f.at = "leave" => f.irq # NONE /\ f.holds = NoHolds)
  BY <1>2, ResumeFrame
<1> HIDE DEF f
<1>4. Become(f) /\ Top.at = "count" /\ UNCHANGED <<mask, active>>
      /\ IsrDisabledCount' = [IsrDisabledCount EXCEPT ![l] = @ + 1]
  BY DEF DisableCount, At, f, g
<1>5. r \in Seq(Frame) /\ Len(r) = n /\ r[n] = f /\ (\A j \in 1..n - 1 : r[j] = q[j])
  BY <1>1, <1>3, <1>4, BecomeTop
<1>6. IsrDisabledCount \in [Level -> Nat] /\ mask \in Level \cup {NONE}
      /\ AllCounted(q, IsrDisabledCount)
  BY DEF IsrInv, IsrTypeOK
<1>7. IsRaised(q, n, l, mask)
  BY <1>4 DEF IsrInv, FrameSound, Top
<1> HIDE DEF q, r, n, l
<1>8. /\ \A k \in Level : HeldBy(r, n, k) <=> k = l \/ HeldBy(q, n, k)
      /\ AllCounted(r, IsrDisabledCount')
  <2>1. r[n].holds[l] = q[n].holds[l] + 1
        /\ (\A k \in Level : k # l => r[n].holds[k] = q[n].holds[k])
    BY <1>1, <1>2, <1>3, <1>5
  <2>2. OneMore(q, r, n, l)
    BY <1>1, <1>5, <2>1 DEF OneMore
  <2>3. /\ \A k \in Level : HeldBy(r, n, k) <=> k = l \/ HeldBy(q, n, k)
        /\ Counted(r, l, IsrDisabledCount[l] + 1)
        /\ \A k \in Level : k # l => Counted(r, k, IsrDisabledCount[k])
    BY <1>1, <1>6, <2>2, SectionEntered
  <2>4. IsrDisabledCount'[l] = IsrDisabledCount[l] + 1
        /\ (\A k \in Level : k # l => IsrDisabledCount'[k] = IsrDisabledCount[k])
    BY <1>1, <1>4, <1>6
  <2> QED
    BY <2>3, <2>4 DEF AllCounted
<1>9. IsHighest(r, n, mask)
  BY <1>1, <1>7, <1>8 DEF IsHighest, IsRaised, Covers
<1>10. FrameSound(r, n, mask')
  BY <1>3, <1>4, <1>5, <1>9 DEF FrameSound
<1>11. IsrDisabledCount' \in [Level -> Nat] /\ mask' \in Level \cup {NONE}
  BY <1>1, <1>4, <1>6
<1> QED
  BY <1>3, <1>4, <1>8, <1>10, <1>11, BecomeKeeps DEF r, n

(* IsrEnable lowers the counter: the section ends, and only the last one   *)
(* of its level goes on to lower the mask.                                 *)
LEMMA EnableKeeps ==
  ASSUME IsrInv, NEW l \in Level, IsrEnable(l)
  PROVE  IsrInv'
<1> DEFINE g == [Top EXCEPT !.level = l, !.holds[l] = @ - 1]
           h == [Top.holds EXCEPT ![l] = @ - 1]
           f == IF IsrDisabledCount'[l] = 0 THEN [g EXCEPT !.at = "enable"] ELSE Resume(g)
           q == stack[active]
           r == stack'[active]
           n == Depth
<1>1. Top \in Frame /\ q \in Seq(Frame) /\ n = Len(q) /\ q[n] = Top
      /\ n \in Nat /\ n >= 1 /\ active \in Threads /\ Top.holds \in [Level -> Nat]
  BY ActiveStack, FrameFields DEF Depth, Top
<1>2. Become(f) /\ Top.at = "run" /\ Top.holds[l] > 0 /\ UNCHANGED <<mask, active>>
      /\ IsrDisabledCount' = [IsrDisabledCount EXCEPT ![l] = @ - 1]
  BY DEF IsrEnable, At
<1>3. g \in Frame /\ g.irq = Top.irq /\ g.saved = Top.saved /\ g.holds = h /\ g.level = l
  <2>1. h \in [Level -> Nat]
    BY <1>1, <1>2
  <2>2. g = [Top EXCEPT !.level = l, !.holds = h]
    BY <1>1 DEF Frame
  <2> HIDE DEF h, g
  <2> QED
    BY <1>1, <2>1, <2>2 DEF Frame
<1> HIDE DEF g
<1>4. f \in Frame /\ f.irq = Top.irq /\ f.saved = Top.saved /\ f.holds = h
      /\ (IsrDisabledCount'[l] = 0 => f.at = "enable" /\ f.level = l)
      /\ (IsrDisabledCount'[l] # 0 => f.at \in {"run", "leave"})
      /\ (f.at = "leave" => f.irq # NONE /\ f.holds = NoHolds)
  <2> DEFINE e == [g EXCEPT !.at = "enable"]
  <2>1. e \in Frame /\ e.irq = g.irq /\ e.saved = g.saved /\ e.holds = g.holds
        /\ e.level = g.level /\ e.at = "enable"
    BY <1>3 DEF Frame
  <2>2. CASE IsrDisabledCount'[l] = 0
    <3>1. f = e
      BY <2>2
    <3> HIDE DEF e, f, h
    <3> QED
      BY <1>3, <2>1, <2>2, <3>1
  <2>3. CASE IsrDisabledCount'[l] # 0
    <3>1. f = Resume(g)
      BY <2>3
    <3> HIDE DEF e, f, h
    <3> QED
      BY <1>3, <2>3, <3>1, ResumeFrame
  <2> HIDE DEF e, f, h
  <2> QED
    BY <2>2, <2>3
<1> HIDE DEF f
<1>5. r \in Seq(Frame) /\ Len(r) = n /\ r[n] = f /\ (\A j \in 1..n - 1 : r[j] = q[j])
  BY <1>1, <1>2, <1>4, BecomeTop
<1>6. IsrDisabledCount \in [Level -> Nat] /\ mask \in Level \cup {NONE}
      /\ AllCounted(q, IsrDisabledCount)
  BY DEF IsrInv, IsrTypeOK
<1>7. IsHighest(q, n, mask)
  BY <1>2 DEF IsrInv, FrameSound, Top
<1>8. r[n].holds[l] = q[n].holds[l] - 1
      /\ (\A k \in Level : k # l => r[n].holds[k] = q[n].holds[k])
  BY <1>1, <1>2, <1>4, <1>5
<1> HIDE DEF q, r, n, h
<1>9. OneMore(r, q, n, l)
  <2>1. q[n].holds[l] \in Nat /\ q[n].holds[l] = r[n].holds[l] + 1
    BY <1>1, <1>8
  <2> QED
    BY <1>1, <1>5, <1>8, <2>1 DEF OneMore
<1>10. /\ \A k \in Level : HeldBy(q, n, k) <=> k = l \/ HeldBy(r, n, k)
      /\ IsrDisabledCount' \in [Level -> Nat]
      /\ AllCounted(r, IsrDisabledCount')
  <2>1. /\ \A k \in Level : HeldBy(q, n, k) <=> k = l \/ HeldBy(r, n, k)
        /\ IsrDisabledCount[l] - 1 \in Nat
        /\ Counted(r, l, IsrDisabledCount[l] - 1)
        /\ \A k \in Level : k # l => Counted(r, k, IsrDisabledCount[k])
    BY <1>6, <1>9, SectionLeft
  <2>2. IsrDisabledCount'[l] = IsrDisabledCount[l] - 1
        /\ (\A k \in Level : k # l => IsrDisabledCount'[k] = IsrDisabledCount[k])
    BY <1>2, <1>6
  <2>3. IsrDisabledCount' \in [Level -> Nat]
    BY <1>2, <1>6, <2>1
  <2> QED
    BY <2>1, <2>2, <2>3 DEF AllCounted
<1>11. l <= mask /\ mask # NONE /\ HeldBy(q, n, mask) /\ Covers(r, n, mask)
  <2>1. l <= mask /\ Covers(r, n, mask)
    BY <1>7, <1>10 DEF IsHighest, Covers
  <2>2. l \in Int /\ l >= 1
    BY DEF Level, CRIT
  <2>3. mask # NONE
    BY <2>1, <2>2 DEF NONE
  <2> QED
    BY <1>7, <2>1, <2>3 DEF IsHighest
<1>12. mask = l \/ HeldBy(r, n, mask)
  BY <1>6, <1>10, <1>11
<1>13. FrameSound(r, n, mask)
  <2>1. CASE IsrDisabledCount'[l] = 0
    <3>1. IsRaised(r, n, l, mask)
      BY <1>11, <1>12 DEF IsRaised
    <3> QED
      BY <1>4, <1>5, <2>1, <3>1 DEF FrameSound
  <2>2. CASE IsrDisabledCount'[l] # 0
    <3>1. HeldBy(r, n, l)
      BY <1>5, <1>10, <2>2, CountHeld DEF AllCounted
    <3>2. IsHighest(r, n, mask)
      BY <1>11, <1>12, <3>1 DEF IsHighest
    <3> QED
      BY <1>4, <1>5, <2>2, <3>2 DEF FrameSound
  <2> QED
    BY <2>1, <2>2
<1> QED
  BY <1>2, <1>4, <1>6, <1>10, <1>13, BecomeKeeps DEF r, n

-----------------------------------------------------------------------------

(* A signal is delivered: the handler's frame is above every section whose *)
(* level is not below its own.                                             *)
LEMMA HandlerKeeps ==
  ASSUME IsrInv, NEW l \in Level, IsrHandlerWrapper(l)
  PROVE  IsrInv'
<1> DEFINE f == [irq |-> l, saved |-> mask, holds |-> NoHolds,
                 at |-> "test", level |-> l, target |-> NONE]
           q == stack[active]
           r == stack'[active]
           n == Depth
<1>1. q \in Seq(Frame) /\ n = Len(q) /\ n \in Nat /\ n >= 1 /\ active \in Threads
      /\ mask \in Level \cup {NONE} /\ StackSound(q) /\ AtomicSound(q)
      /\ stack \in [Threads -> Seq(Frame)] /\ q[n] \in Frame
  BY ActiveStack DEF Depth, Top, IsrInv, IsrTypeOK
<1>2. NoHolds \in [Level -> Nat] /\ (\A k \in Level : NoHolds[k] = 0)
  BY DEF NoHolds
<1>3. f \in Frame /\ f.irq = l /\ f.saved = mask /\ f.holds = NoHolds
      /\ f.at = "test" /\ f.level = l
  BY <1>1, <1>2 DEF Frame
<1>4. stack' = [stack EXCEPT ![active] = Append(q, f)] /\ mask' = l /\ l > mask
      /\ UNCHANGED <<IsrDisabledCount, active>>
  BY DEF IsrHandlerWrapper
<1> HIDE DEF f
<1>5. r = Append(q, f) /\ (\A t \in Threads \ {active} : stack'[t] = stack[t])
      /\ stack' \in [Threads -> Seq(Frame)]
  BY <1>1, <1>3, <1>4, AppendProperties
<1>6. Len(r) = n + 1 /\ r[n + 1] = f /\ (\A j \in 1..n : r[j] = q[j])
  BY <1>1, <1>3, <1>5, AppendProperties
<1>7. FrameSound(q, n, mask)
  BY DEF IsrInv
<1>8. Covers(q, n, mask)
  BY <1>1, <1>7, FrameCovers
<1> HIDE DEF q, r, n
<1>9. Level \subseteq Int /\ mask \in Int
  <2>1. Level \subseteq Int
    BY DEF Level, CRIT
  <2> QED
    BY <1>1, <2>1 DEF NONE
<1>10. \A k \in Level : HeldBy(q, n, k) => k < l
  BY <1>4, <1>8, <1>9 DEF Covers
<1>11. \A k \in Level : HeldBy(r, n + 1, k) => HeldBy(q, n, k)
  <2> SUFFICES ASSUME NEW k \in Level, NEW j \in 1..n + 1, r[j].holds[k] > 0
               PROVE  HeldBy(q, n, k)
    BY DEF HeldBy
  <2>1. j # n + 1
    BY <1>2, <1>3, <1>6
  <2>2. j \in 1..n
    BY <1>1, <2>1
  <2> QED
    BY <1>6, <2>2 DEF HeldBy
<1>12. StackSound(r)
  <2>1. r[1] = q[1]
    BY <1>1, <1>6
  <2>2. ASSUME NEW i \in 1..Len(r) - 1 PROVE FrameSound(r, i, r[i + 1].saved)
    <3>1. i \in Nat /\ i >= 1 /\ i <= n /\ i \in 1..n
      BY <1>1, <1>6
    <3>2. \A j \in 1..i : q[j] = r[j]
      BY <1>1, <1>6, <3>1
    <3>3. CASE i = n
      BY <1>3, <1>6, <1>7, <3>1, <3>2, <3>3, SameFrames
    <3>4. CASE i # n
      <4>1. i \in 1..n - 1 /\ i + 1 \in 1..n
        BY <1>1, <3>1, <3>4
      <4>2. FrameSound(q, i, q[i + 1].saved) /\ q[i + 1] = r[i + 1]
        BY <1>1, <1>6, <4>1 DEF StackSound
      <4> QED
        BY <3>1, <3>2, <4>2, SameFrames
    <3> QED
      BY <3>3, <3>4
  <2> QED
    BY <1>1, <1>6, <2>1, <2>2 DEF StackSound
<1>13. AtomicSound(r)
  <2> SUFFICES ASSUME NEW i \in 1..n + 1, NEW j \in 1..n + 1, NEW k \in Level,
                      i < j, r[i].holds[k] > 0
               PROVE  r[j].irq > k
    BY <1>6 DEF AtomicSound
  <2>1. i \in 1..n /\ r[i] = q[i]
    BY <1>1, <1>6
  <2>2. CASE j = n + 1
    <3>1. k < l
      BY <1>10, <2>1 DEF HeldBy
    <3> QED
      BY <1>3, <1>6, <1>9, <2>2, <3>1
  <2>3. CASE j # n + 1
    <3>1. j \in 1..n /\ r[j] = q[j]
      BY <1>1, <1>6, <2>3
    <3> QED
      BY <1>1, <2>1, <3>1 DEF AtomicSound
  <2> QED
    BY <2>2, <2>3
<1>14. FrameSound(r, n + 1, l)
  <2>1. IsEntered(r, n + 1, l, l)
    BY <1>10, <1>11 DEF IsEntered
  <2> QED
    BY <1>3, <1>6, <2>1 DEF FrameSound
<1>15. AllCounted(r, IsrDisabledCount)
  <2> SUFFICES ASSUME NEW k \in Level PROVE Inside(r, k) = Inside(q, k)
    BY DEF IsrInv, AllCounted, Counted, q
  <2>1. 1..r[n + 1].holds[k] = {}
    BY <1>2, <1>3, <1>6
  <2>2. ASSUME NEW x \in Inside(r, k) PROVE x \in Inside(q, k)
    <3>1. PICK i \in 1..n + 1 : \E m \in 1..r[i].holds[k] : x = <<i, m>>
      BY <1>6, <2>2, InsidePairs
    <3>2. i # n + 1
      BY <2>1, <3>1
    <3>3. i \in 1..n
      BY <1>1, <3>2
    <3> QED
      BY <1>1, <1>6, <3>1, <3>3, InsidePairs
  <2>3. ASSUME NEW x \in Inside(q, k) PROVE x \in Inside(r, k)
    <3>1. PICK i \in 1..n : \E m \in 1..q[i].holds[k] : x = <<i, m>>
      BY <1>1, <2>3, InsidePairs
    <3>2. i \in 1..n + 1
      BY <1>1
    <3> QED
      BY <1>6, <3>1, <3>2, InsidePairs
  <2> QED
    BY <2>2, <2>3
<1>16. \A t \in Threads : StackSound(stack'[t]) /\ AtomicSound(stack'[t])
  BY <1>5, <1>12, <1>13 DEF IsrInv, r
<1>17. \A t \in Threads \ {active} : IdleSound(stack'[t])
  BY <1>5 DEF IsrInv
<1>18. IsrTypeOK'
  BY <1>1, <1>4, <1>5 DEF IsrInv, IsrTypeOK
<1>19. Depth' = n + 1
  BY <1>4, <1>6 DEF Depth, r
<1> QED
  BY <1>4, <1>14, <1>15, <1>16, <1>17, <1>18, <1>19 DEF IsrInv, r

(* A handler returns: it has left its sections, and the frame it           *)
(* interrupted finds its mask again.                                       *)
LEMMA ReturnKeeps ==
  ASSUME IsrInv, IsrReturn
  PROVE  IsrInv'
<1> DEFINE q == stack[active]
           r == stack'[active]
           n == Depth
<1>1. q \in Seq(Frame) /\ n = Len(q) /\ n \in Nat /\ n >= 1 /\ active \in Threads
      /\ StackSound(q) /\ AtomicSound(q)
      /\ stack \in [Threads -> Seq(Frame)] /\ q[n] \in Frame /\ Top = q[n]
  BY ActiveStack DEF Depth, Top, IsrInv, IsrTypeOK
<1>2. Top.at = "leave" /\ mask' = Top.saved
      /\ stack' = [stack EXCEPT ![active] = SubSeq(q, 1, n - 1)]
      /\ UNCHANGED <<IsrDisabledCount, active>>
  BY DEF IsrReturn, At
<1>3. Top.irq # NONE /\ Top.holds = NoHolds
  BY <1>2 DEF IsrInv, FrameSound, Top
<1>4. n # 1
  BY <1>1, <1>3 DEF StackSound
<1> HIDE DEF n
<1>5. n - 1 \in Nat /\ n - 1 >= 1 /\ n - 1 <= n
  BY <1>1, <1>4
<1>6. SubSeq(q, 1, n - 1) \in Seq(Frame) /\ Len(SubSeq(q, 1, n - 1)) = n - 1
      /\ (\A j \in 1..n - 1 : SubSeq(q, 1, n - 1)[j] = q[j])
  <2> HIDE DEF q
  <2>1. 1 \in 1..Len(q) + 1 /\ n - 1 \in 0..Len(q)
    BY <1>1, <1>5
  <2>2. \A j \in 1..n - 1 : j \in 1..Len(q)
    BY <1>1
  <2> QED
    BY <1>1, <1>5, <2>1, <2>2, SubSeqProperties
<1>7. r = SubSeq(q, 1, n - 1) /\ (\A t \in Threads \ {active} : stack'[t] = stack[t])
      /\ stack' \in [Threads -> Seq(Frame)]
  BY <1>1, <1>2, <1>6
<1> HIDE DEF q, r
<1>8. Len(r) = n - 1 /\ (\A j \in 1..n - 1 : r[j] = q[j])
  BY <1>6, <1>7
<1>9. \A i \in 1..n - 1 : FrameSound(r, i, q[i + 1].saved)
  <2> TAKE i \in 1..n - 1
  <2>1. FrameSound(q, i, q[i + 1].saved)
    BY <1>1 DEF StackSound
  <2>2. i \in Nat /\ i >= 1 /\ (\A j \in 1..i : q[j] = r[j])
    BY <1>5, <1>8
  <2> QED
    BY <2>1, <2>2, SameFrames
<1>10. StackSound(r)
  <2>1. r[1] = q[1]
    BY <1>5, <1>8
  <2>2. ASSUME NEW i \in 1..Len(r) - 1 PROVE FrameSound(r, i, r[i + 1].saved)
    <3>1. i \in 1..n - 1 /\ i + 1 \in 1..n - 1
      BY <1>5, <1>8
    <3> QED
      BY <1>8, <1>9, <3>1
  <2> QED
    BY <1>1, <1>5, <1>8, <2>1, <2>2 DEF StackSound
<1>11. AtomicSound(r)
  <2>1. \A j \in 1..n - 1 : j \in 1..n
    BY <1>1
  <2> QED
    BY <1>1, <1>8, <2>1 DEF AtomicSound
<1>12. FrameSound(r, n - 1, mask')
  <2>1. n - 1 \in 1..n - 1 /\ (n - 1) + 1 = n
    BY <1>1, <1>5
  <2>2. FrameSound(r, n - 1, q[(n - 1) + 1].saved)
    BY <1>9, <2>1
  <2> QED
    BY <1>1, <1>2, <2>1, <2>2
<1>13. AllCounted(r, IsrDisabledCount)
  <2> SUFFICES ASSUME NEW k \in Level PROVE Inside(r, k) = Inside(q, k)
    BY DEF IsrInv, AllCounted, Counted, q
  <2>1. 1..q[n].holds[k] = {}
    BY <1>1, <1>3 DEF NoHolds
  <2>2. ASSUME NEW x \in Inside(q, k) PROVE x \in Inside(r, k)
    <3>1. PICK i \in 1..n : \E m \in 1..q[i].holds[k] : x = <<i, m>>
      BY <1>1, <2>2, InsidePairs
    <3>2. i # n
      BY <2>1, <3>1
    <3>3. i \in 1..n - 1
      BY <1>1, <3>2
    <3> QED
      BY <1>8, <3>1, <3>3, InsidePairs
  <2>3. ASSUME NEW x \in Inside(r, k) PROVE x \in Inside(q, k)
    <3>1. PICK i \in 1..n - 1 : \E m \in 1..r[i].holds[k] : x = <<i, m>>
      BY <1>8, <2>3, InsidePairs
    <3>2. i \in 1..n
      BY <1>1
    <3> QED
      BY <1>1, <1>8, <3>1, <3>2, InsidePairs
  <2> QED
    BY <2>2, <2>3
<1>14. mask' \in Level \cup {NONE}
  BY <1>1, <1>2, FrameFields
<1>15. \A t \in Threads : StackSound(stack'[t]) /\ AtomicSound(stack'[t])
  BY <1>7, <1>10, <1>11 DEF IsrInv, r
<1>16. \A t \in Threads \ {active} : IdleSound(stack'[t])
  BY <1>7 DEF IsrInv
<1>17. IsrTypeOK'
  BY <1>1, <1>2, <1>7, <1>14 DEF IsrInv, IsrTypeOK
<1>18. Depth' = n - 1
  BY <1>2, <1>8 DEF Depth, r
<1> QED
  BY <1>2, <1>12, <1>13, <1>15, <1>16, <1>17, <1>18 DEF IsrInv, r

-----------------------------------------------------------------------------

(* The sections of a stack that is inside the context switch: those of its *)
(* last frame, because the critical handler interrupted no section.        *)
LEMMA SwitchSections ==
  ASSUME NEW q \in Seq(Frame), StackSound(q), AtomicSound(q), IdleSound(q)
  PROVE  /\ \A l \in Level : HeldBy(q, Len(q), l) <=> l = CRIT \/ l = MAX
         /\ \A l \in Level : Counted(q, l, SwitchHolds[l])
<1> DEFINE n == Len(q)
<1>1. n \in Nat /\ n >= 1 /\ (\A i \in 1..n : q[i] \in Frame)
  BY LenProperties, ElementOfSeq DEF StackSound
<1>2. SwitchHolds \in [Level -> Nat]
      /\ (\A l \in Level : SwitchHolds[l] > 0 <=> l = CRIT \/ l = MAX)
  BY DEF SwitchHolds
<1>3. \A l \in Level : l \in Int /\ l >= CRIT
  BY DEF Level, CRIT
<1>4. ASSUME NEW i \in 1..n, i # n, NEW l \in Level PROVE q[i].holds[l] = 0
  <2>1. i < n /\ n \in 1..n /\ n # 1
    BY <1>1, <1>4
  <2>2. q[n].irq = CRIT
    BY <2>1 DEF IdleSound
  <2>3. ~ (q[i].holds[l] > 0)
    BY <1>3, <2>1, <2>2 DEF AtomicSound, CRIT
  <2>4. q[i].holds[l] \in Nat
    BY <1>1, FrameFields
  <2> QED
    BY <2>3, <2>4
<1>5. n \in 1..n /\ q[n].holds = SwitchHolds
  BY <1>1 DEF IdleSound
<1>6. ASSUME NEW l \in Level PROVE HeldBy(q, n, l) <=> l = CRIT \/ l = MAX
  <2>1. HeldBy(q, n, l) <=> q[n].holds[l] > 0
    BY <1>4, <1>5 DEF HeldBy
  <2> QED
    BY <1>2, <1>5, <2>1
<1>7. ASSUME NEW l \in Level PROVE Counted(q, l, SwitchHolds[l])
  <2> DEFINE h == SwitchHolds[l]
             S == {n} \X (1..h)
  <2>1. h \in Nat
    BY <1>2
  <2>2. Inside(q, l) = S
    <3>1. ASSUME NEW x \in Inside(q, l) PROVE x \in S
      <4>1. PICK i \in 1..n : \E k \in 1..q[i].holds[l] : x = <<i, k>>
        BY <3>1, InsidePairs
      <4>2. i = n
        BY <1>4, <4>1
      <4> QED
        BY <1>5, <4>1, <4>2
    <3>2. ASSUME NEW x \in S PROVE x \in Inside(q, l)
      <4>1. PICK k \in 1..h : x = <<n, k>>
        BY <3>2
      <4> QED
        BY <1>5, <4>1, InsidePairs
    <3> QED
      BY <3>1, <3>2
  <2> HIDE DEF h
  <2>3. IsFiniteSet(1..h) /\ Cardinality(1..h) = h
    <3>1. 1 \in Int /\ h \in Int
      BY <2>1
    <3>2. IsFiniteSet(1..h) /\ Cardinality(1..h) = IF 1 > h THEN 0 ELSE h - 1 + 1
      BY <3>1, FS_Interval
    <3> QED
      BY <2>1, <3>2
  <2>4. IsFiniteSet({n}) /\ Cardinality({n}) = 1
    BY FS_Singleton
  <2>5. IsFiniteSet(S) /\ Cardinality(S) = Cardinality({n}) * Cardinality(1..h)
    BY <2>3, <2>4, FS_Product
  <2>6. Cardinality(S) = h
    BY <2>1, <2>3, <2>4, <2>5
  <2> QED
    BY <2>2, <2>5, <2>6 DEF Counted, h
<1> QED
  BY <1>6, <1>7

(* The next context is inside the same sections: the counters and the mask *)
(* are as good for it.                                                     *)
LEMMA SwitchKeeps ==
  ASSUME IsrInv, NEW t \in Threads, ContextSwitch(t)
  PROVE  IsrInv'
<1> DEFINE q == stack[active]
           r == stack[t]
<1>1. q \in Seq(Frame) /\ r \in Seq(Frame) /\ active \in Threads
      /\ StackSound(q) /\ AtomicSound(q) /\ StackSound(r) /\ AtomicSound(r)
  BY DEF IsrInv, IsrTypeOK
<1>2. t # active /\ active' = t /\ UNCHANGED <<IsrDisabledCount, mask, stack>>
      /\ Top.at = "run" /\ Top.irq = CRIT /\ Top.holds = SwitchHolds
  BY DEF ContextSwitch, InSwitch
<1>3. IdleSound(q) /\ IdleSound(r)
  BY <1>2 DEF IsrInv, IdleSound, Top, Depth
<1>4. IsHighest(q, Len(q), mask) /\ AllCounted(q, IsrDisabledCount)
  BY <1>2 DEF IsrInv, FrameSound, Top, Depth
<1>5. r[Len(r)].at = "run"
  BY <1>3 DEF IdleSound
<1>6. \A k \in Threads : StackSound(stack[k]) /\ AtomicSound(stack[k])
  BY DEF IsrInv
<1>7. \A k \in Threads \ {t} : IdleSound(stack[k])
  BY <1>3 DEF IsrInv
<1>8. IsrTypeOK'
  BY <1>2 DEF IsrInv, IsrTypeOK
<1> HIDE DEF q, r
<1>9. /\ \A l \in Level : HeldBy(q, Len(q), l) <=> l = CRIT \/ l = MAX
      /\ \A l \in Level : Counted(q, l, SwitchHolds[l])
  BY <1>1, <1>3, SwitchSections
<1>10. /\ \A l \in Level : HeldBy(r, Len(r), l) <=> l = CRIT \/ l = MAX
       /\ \A l \in Level : Counted(r, l, SwitchHolds[l])
  BY <1>1, <1>3, SwitchSections
<1>11. IsHighest(r, Len(r), mask)
  <2>1. \A l \in Level : HeldBy(r, Len(r), l) <=> HeldBy(q, Len(q), l)
    BY <1>9, <1>10
  <2> QED
    BY <1>4, <2>1 DEF IsHighest, Covers
<1>12. AllCounted(r, IsrDisabledCount)
  <2>1. \A l \in Level : IsrDisabledCount[l] = SwitchHolds[l]
    BY <1>4, <1>9 DEF AllCounted, Counted
  <2> QED
    BY <1>10, <2>1 DEF AllCounted
<1>13. FrameSound(r, Len(r), mask)
  BY <1>5, <1>11 DEF FrameSound
<1>14. stack'[active'] = r /\ Depth' = Len(r)
  BY <1>2 DEF Depth, r
<1> QED
  BY <1>2, <1>6, <1>7, <1>8, <1>12, <1>13, <1>14 DEF IsrInv

(* The first states: one frame each, the boot context inside its section.  *)
LEMMA StartupSound ==
  ASSUME IsrStartup
  PROVE  IsrInv
<1> USE IsrAssumption
<1>1. Boot \in Threads /\ active = Boot /\ mask = MAX
      /\ IsrDisabledCount = [NoHolds EXCEPT ![MAX] = 1]
      /\ stack = [t \in Threads |-> <<FirstFrame(t)>>]
  BY DEF IsrStartup
<1>2. MAX \in Level /\ CRIT \in Level /\ (\A l \in Level : l \in Int /\ l <= MAX)
  BY DEF Level, CRIT
<1>3. [NoHolds EXCEPT ![MAX] = 1] \in [Level -> Nat] /\ SwitchHolds \in [Level -> Nat]
  <2>1. NoHolds \in [Level -> Nat]
    BY DEF NoHolds
  <2>2. [NoHolds EXCEPT ![MAX] = 1] \in [Level -> Nat]
    BY <2>1
  <2>3. \A l \in Level : (IF l = CRIT THEN 1 ELSE 0) + (IF l = MAX THEN 1 ELSE 0) \in Nat
    OBVIOUS
  <2> QED
    BY <2>2, <2>3 DEF SwitchHolds
<1>4. \A t \in Threads : /\ FirstFrame(t) \in Frame
                         /\ FirstFrame(t).irq = NONE /\ FirstFrame(t).at = "run"
                         /\ t # Boot => FirstFrame(t).holds = SwitchHolds
                         /\ t = Boot => FirstFrame(t).holds = [NoHolds EXCEPT ![MAX] = 1]
  BY <1>2, <1>3 DEF FirstFrame, Frame
<1>5. \A t \in Threads : stack[t] \in Seq(Frame) /\ Len(stack[t]) = 1
                         /\ stack[t][1] = FirstFrame(t)
  BY <1>1, <1>4
<1>6. IsrTypeOK
  BY <1>1, <1>2, <1>3, <1>5 DEF IsrTypeOK
<1>7. \A t \in Threads : StackSound(stack[t]) /\ AtomicSound(stack[t])
  BY <1>4, <1>5 DEF StackSound, AtomicSound
<1>8. \A t \in Threads \ {active} : IdleSound(stack[t])
  BY <1>1, <1>4, <1>5 DEF IdleSound
<1> DEFINE q == stack[active]
<1>9. q \in Seq(Frame) /\ Len(q) = 1 /\ q[1].at = "run"
      /\ q[1].holds = [NoHolds EXCEPT ![MAX] = 1]
  BY <1>1, <1>4, <1>5
<1> HIDE DEF q
<1>10. \A l \in Level : q[1].holds[l] = IF l = MAX THEN 1 ELSE 0
  BY <1>2, <1>9 DEF NoHolds
<1>11. \A l \in Level : HeldBy(q, 1, l) <=> l = MAX
  BY <1>10 DEF HeldBy
<1>12. FrameSound(q, 1, mask)
  <2>1. IsHighest(q, 1, mask)
    BY <1>1, <1>2, <1>11 DEF IsHighest, Covers
  <2> QED
    BY <1>9, <2>1 DEF FrameSound
<1>13. AllCounted(q, IsrDisabledCount)
  <2> SUFFICES ASSUME NEW l \in Level PROVE Counted(q, l, IsrDisabledCount[l])
    BY DEF AllCounted
  <2>1. \A x : x \in Inside(q, l) <=> \E i \in 1..1 : \E k \in 1..q[i].holds[l] : x = <<i, k>>
    <3>1. \A x : x \in Inside(q, l) <=>
                   \E i \in 1..Len(q) : \E k \in 1..q[i].holds[l] : x = <<i, k>>
      BY InsidePairs
    <3> QED
      BY <1>9, <3>1
  <2>2. CASE l = MAX
    <3>1. Inside(q, l) = {<<1, 1>>}
      <4>1. \A x : x \in Inside(q, l) <=> \E k \in 1..1 : x = <<1, k>>
        BY <1>10, <2>2, <2>1
      <4>2. \A x : x \in Inside(q, l) <=> x = <<1, 1>>
        BY <4>1
      <4> QED
        BY <4>2
    <3>2. IsrDisabledCount[l] = 1
      BY <1>1, <2>2 DEF NoHolds
    <3>3. IsFiniteSet({<<1, 1>>}) /\ Cardinality({<<1, 1>>}) = 1
      BY FS_Singleton
    <3> QED
      BY <3>1, <3>2, <3>3 DEF Counted
  <2>3. CASE l # MAX
    <3>1. Inside(q, l) = {}
      <4>1. \A x : x \in Inside(q, l) <=> \E k \in 1..0 : x = <<1, k>>
        BY <1>10, <2>3, <2>1
      <4> QED
        BY <4>1
    <3>2. IsrDisabledCount[l] = 0
      BY <1>1, <2>3 DEF NoHolds
    <3> QED
      BY <3>1, <3>2, FS_EmptySet DEF Counted
  <2> QED
    BY <2>2, <2>3
<1>14. Depth = 1
  BY <1>9 DEF Depth, q
<1> QED
  BY <1>6, <1>7, <1>8, <1>12, <1>13, <1>14 DEF IsrInv, q

(* Every step keeps the invariant.                                         *)
LEMMA IsrStepKeeps ==
  ASSUME IsrInv, [IsrNext]_isrVars
  PROVE  IsrInv'
<1>1. CASE IsrNext
  BY <1>1, DisableKeeps, EnableKeeps, HandlerKeeps, DisableTestKeeps, DisableDeferKeeps,
     DisableSetIrqKeeps, DisableCountKeeps, EnableDeferKeeps, EnableSetIrqKeeps, ReturnKeeps,
     SwitchKeeps DEF IsrNext
<1>2. CASE UNCHANGED isrVars
  BY <1>2 DEF isrVars, IsrInv, IsrTypeOK, Depth
<1> QED
  BY <1>1, <1>2

(* The invariant holds in every state.                                     *)
LEMMA IsrAlways == IsrSpec => []IsrInv
  BY StartupSound, IsrStepKeeps, PTL DEF IsrSpec

(* For any levels, threads and depth of interrupts: no section is ever     *)
(* interrupted by a handler of its own level or a lower one, whatever      *)
(* comes between the steps of IsrDisable and IsrEnable.                    *)
THEOREM IsrSectionsAtomic == IsrSpec => []SectionsAtomic
<1>1. IsrInv => SectionsAtomic
  BY DEF IsrInv, AtomicSound, SectionsAtomic
<1> QED
  BY <1>1, IsrAlways, PTL

(* The counters always count the sections of the stack that runs, and the  *)
(* mask is the highest level among them whenever no change of it is under  *)
(* way, also after contexts were switched in the middle of handlers.       *)
THEOREM IsrMaskExact == IsrSpec => []MaskIsExact
<1>1. ASSUME IsrInv PROVE MaskIsExact
  <2>1. CRIT \in Level
    BY IsrAssumption DEF Level, CRIT
  <2>2. stack[active] \in Seq(Frame) /\ AllCounted(stack[active], IsrDisabledCount)
    BY <1>1, ActiveStack DEF IsrInv
  <2>3. IsHighest(stack[active], Depth, IsrDefer(CRIT, TRUE))
    BY <2>1, <2>2, DeferHighest DEF Depth
  <2>4. ASSUME At("run") \/ At("leave") PROVE mask = IsrDefer(CRIT, TRUE)
    <3>1. IsHighest(stack[active], Depth, mask)
      BY <1>1, <2>4 DEF IsrInv, FrameSound, At, Top
    <3> QED
      BY <2>3, <3>1, HighestUnique
  <2>5. \A l \in Level : IsrDisabledCount[l] = Cardinality(Inside(stack[active], l))
    BY <2>2 DEF AllCounted, Counted
  <2> QED
    BY <1>1, <2>4, <2>5 DEF IsrInv, MaskIsExact
<1> QED
  BY <1>1, IsrAlways, PTL
=============================================================================
