--------------------------- MODULE WheelRampProofs ---------------------------
(***************************************************************************)
(* The ramp is gradual whatever the targets, the snap and the time between *)
(* two passes: a wheel stays between two of its targets, and a pass closes *)
(* its share of what is left to the present one.                           *)
(***************************************************************************)
EXTENDS WheelRamp, TLAPS

\* A wheel is between two targets.
Between ==
    /\ goal \in Goals /\ smoothed \in Int
    /\ \E g, h \in Goals : g <= smoothed /\ smoothed <= h

-----------------------------------------------------------------------------
(* The arithmetic of one pass.                                             *)

\* Division by 100 rounds down.
LEMMA Division ==
    ASSUME NEW n \in Nat
    PROVE  /\ n \div 100 \in Nat
           /\ 100 * (n \div 100) <= n /\ n < 100 * (n \div 100) + 100
OBVIOUS

\* A product with a factor that grows.
LEMMA Product ==
    ASSUME NEW x \in Nat, NEW y \in Nat, NEW k \in Nat, x <= y
    PROVE  k * x \in Nat /\ k * x <= k * y
OBVIOUS

\* A factor and its rest.
LEMMA Parts ==
    ASSUME NEW x \in Nat, NEW k \in Nat
    PROVE  (100 - k) * x = 100 * x - x * k
OBVIOUS

\* What a pass keeps of a distance, and what it closes: its share at most.
LEMMA KeptAndClosed ==
    ASSUME NEW k \in 0 .. 99, NEW x \in Nat, NEW y \in Nat, x <= y
    PROVE  /\ (x * k) \div 100 \in Nat /\ (x * k) \div 100 <= x
           /\ x - (x * k) \div 100 <= Share(k, y)
<1> DEFINE kept  == x * k
           near  == (100 - k) * x
           far   == (100 - k) * y
           q     == kept \div 100
           r     == (far + 99) \div 100
<1>1. kept \in Nat /\ near \in Nat /\ far \in Nat /\ near <= far
  <2>1. 100 - k \in Nat /\ k \in Nat  OBVIOUS
  <2> QED  BY <2>1, Product
<1>2. near = 100 * x - kept
  BY Parts
<1> HIDE DEF kept, near, far
<1>3. q \in Nat /\ 100 * q <= kept /\ kept < 100 * q + 100
  BY <1>1, Division
<1>4. r \in Nat /\ far + 99 < 100 * r + 100
  <2>1. far + 99 \in Nat  BY <1>1
  <2> QED  BY <2>1, Division
<1> HIDE DEF q, r
<1>5. q <= x
  BY <1>1, <1>2, <1>3
<1>6. x - q <= r
  BY <1>1, <1>2, <1>3, <1>4
<1> QED  BY <1>3, <1>5, <1>6 DEF kept, far, q, r, Share
\* The ramp goes towards the target, not past it, and by no more than its share.
LEMMA RampTowards ==
    ASSUME smoothed \in Int, goal \in Int, NEW k \in 0 .. 99,
           NEW y \in Nat, Abs(smoothed - goal) <= y
    PROVE  /\ Ramped(k) \in Int
           /\ Abs(Ramped(k) - smoothed) <= Share(k, y)
           /\ \/ goal <= Ramped(k) /\ Ramped(k) <= smoothed
              \/ smoothed <= Ramped(k) /\ Ramped(k) <= goal
<1>1. CASE smoothed >= goal
  <2> DEFINE x == smoothed - goal
             q == (x * k) \div 100
  <2>1. x \in Nat /\ x <= y /\ ~(x < 0)
    BY <1>1 DEF Abs
  <2>2. Ramped(k) = goal + q
    BY <2>1 DEF Ramped, Part
  <2>3. q \in Nat /\ q <= x /\ x - q <= Share(k, y)
    BY <2>1, KeptAndClosed
  <2>4. smoothed = goal + x
    OBVIOUS
  <2> HIDE DEF x, q
  <2>5. /\ Ramped(k) \in Int /\ goal <= Ramped(k) /\ Ramped(k) <= smoothed
        /\ Abs(Ramped(k) - smoothed) = x - q
    BY <2>1, <2>2, <2>3, <2>4 DEF Abs
  <2> QED  BY <2>3, <2>5
<1>2. CASE smoothed < goal
  <2> DEFINE x == goal - smoothed
             q == (x * k) \div 100
  <2>1. x \in Nat /\ x <= y
    BY <1>2 DEF Abs
  <2>2. -(smoothed - goal) = x /\ smoothed - goal < 0
    BY <1>2
  <2>3. Ramped(k) = goal + (-q)
    BY <2>2 DEF Ramped, Part
  <2>4. q \in Nat /\ q <= x /\ x - q <= Share(k, y)
    BY <2>1, KeptAndClosed
  <2>5. smoothed = goal - x
    OBVIOUS
  <2> HIDE DEF x, q
  <2>6. /\ Ramped(k) \in Int /\ smoothed <= Ramped(k) /\ Ramped(k) <= goal
        /\ Abs(Ramped(k) - smoothed) = x - q
    BY <2>1, <2>3, <2>4, <2>5 DEF Abs
  <2> QED  BY <2>4, <2>6
<1> QED  BY <1>1, <1>2

\* The snap changes a velocity by less than its own width.
LEMMA SnapIsSmall ==
    ASSUME NEW v \in Int
    PROVE  Snapped(v) \in {0, v} /\ Abs(Snapped(v) - v) <= VEL_SNAP_ZERO
BY Numbers DEF Snapped, Abs

\* Two changes, one after the other.
LEMMA Triangle ==
    ASSUME NEW u \in Int, NEW v \in Int, NEW w \in Int, NEW c \in Int, NEW d \in Int,
           Abs(v - u) <= c, Abs(w - v) <= d
    PROVE  Abs(w - u) <= c + d
BY DEF Abs

-----------------------------------------------------------------------------
(* The wheel.                                                              *)

\* The distance to the present target is at most one between two targets.
LEMMA DistanceToGoal ==
    ASSUME Between
    PROVE  \E g, h \in Goals : Abs(smoothed - goal) <= Abs(g - h) /\ Abs(g - h) \in Nat
<1>1. PICK g \in Goals, h \in Goals : g <= smoothed /\ smoothed <= h
  BY DEF Between
<1>2. g \in Int /\ h \in Int /\ goal \in Int /\ smoothed \in Int /\ goal \in Goals
  BY Numbers DEF Between
<1>3. CASE smoothed <= goal
  <2>1. Abs(smoothed - goal) <= Abs(goal - g) /\ Abs(goal - g) \in Nat
    BY <1>1, <1>2, <1>3 DEF Abs
  <2> QED  BY <1>2, <2>1
<1>4. CASE goal <= smoothed
  <2>1. Abs(smoothed - goal) <= Abs(h - goal) /\ Abs(h - goal) \in Nat
    BY <1>1, <1>2, <1>4 DEF Abs
  <2> QED  BY <1>1, <1>2, <2>1
<1> QED  BY <1>2, <1>3, <1>4

\* Every pass is gradual and keeps the wheel between its targets.
LEMMA PassGradual == ASSUME Between, Pass PROVE Between' /\ Gradual
<1>1. PICK k \in Kept : smoothed' = Snapped(Ramped(k))
  BY DEF Pass
<1>2. PICK g \in Goals, h \in Goals :
        Abs(smoothed - goal) <= Abs(g - h) /\ Abs(g - h) \in Nat
  BY DistanceToGoal
<1>3. k \in 0 .. 99 /\ goal \in Int /\ smoothed \in Int /\ VEL_SNAP_ZERO \in Nat
  BY Numbers DEF Between
<1>4. /\ Ramped(k) \in Int
      /\ Abs(Ramped(k) - smoothed) <= Share(k, Abs(g - h))
      /\ \/ goal <= Ramped(k) /\ Ramped(k) <= smoothed
         \/ smoothed <= Ramped(k) /\ Ramped(k) <= goal
  BY <1>2, <1>3, RampTowards
<1> DEFINE r     == Ramped(k)
           share == Share(k, Abs(g - h))
<1>5. smoothed' \in {0, r} /\ Abs(smoothed' - r) <= VEL_SNAP_ZERO
  BY <1>1, <1>4, SnapIsSmall
<1>6. share \in Int
  <2>1. (100 - k) * Abs(g - h) \in Int
    BY <1>2, <1>3
  <2> QED  BY <2>1 DEF Share
<1> HIDE DEF r, share
<1>7. Gradual
  <2> DEFINE v == smoothed'
  <2>1. r \in Int /\ v \in Int /\ Abs(r - smoothed) <= share /\ Abs(v - r) <= VEL_SNAP_ZERO
    BY <1>4, <1>5 DEF r, share
  <2>2. smoothed \in Int /\ VEL_SNAP_ZERO \in Int
    BY <1>3
  <2> HIDE DEF v
  <2>3. Abs(v - smoothed) <= share + VEL_SNAP_ZERO
    BY <1>6, <2>1, <2>2, Triangle
  <2> QED  BY <2>3 DEF Gradual, share, v
<1>8. Between'
  <2>1. goal' = goal /\ goal \in Goals /\ 0 \in Goals
    BY Numbers DEF Pass, Between
  <2>2. CASE smoothed' = 0
    BY <2>1, <2>2 DEF Between
  <2>3. CASE smoothed' = r
    <3>1. PICK a \in Goals, b \in Goals : a <= smoothed /\ smoothed <= b
      BY DEF Between
    <3>2. a \in Int /\ b \in Int /\ r \in Int
      BY <1>4, Numbers DEF r
    <3>3. \/ goal <= r /\ r <= b
          \/ a <= r /\ r <= goal
      BY <1>3, <1>4, <3>1, <3>2 DEF r
    <3> QED  BY <2>1, <2>3, <3>2, <3>3 DEF Between
  <2> QED  BY <1>5, <2>2, <2>3
<1> QED  BY <1>7, <1>8

\* A new target moves nothing.
LEMMA NextBetween == Between /\ [Next]_vars => Between' /\ [Gradual]_smoothed
<1> SUFFICES ASSUME Between, [Next]_vars PROVE Between' /\ [Gradual]_smoothed
  OBVIOUS
<1>1. CASE Pass
  BY <1>1, PassGradual
<1>2. CASE \E g \in Goals : Command(g)
  BY <1>2 DEF Command, Between
<1>3. CASE UNCHANGED vars
  BY <1>3 DEF vars, Between
<1> QED  BY <1>1, <1>2, <1>3 DEF Next

\* At the start the wheel rests.
LEMMA InitBetween == Init => Between
BY Numbers DEF Init, Between

\* No pass steps harder than its share of the largest change of the target, and the
\* snap, whatever the commands and however late the pass.
THEOREM GearboxSafe == Spec => NoHardStep
BY InitBetween, NextBetween, PTL DEF Spec, NoHardStep

=============================================================================
