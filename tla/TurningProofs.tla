----------------------------- MODULE TurningProofs -----------------------------
(***************************************************************************)
(* Proofs about Turning: for every unit of angle, every length of an       *)
(* interpolation and every pair of yaws, puppets turn the shorter way.     *)
(***************************************************************************)
EXTENDS Turning, TLAPS

(* The game's normalisation gives a yaw.                                   *)
LEMMA NormalizedIsYaw ==
    ASSUME NEW angle \in Int
    PROVE  Normalized(angle) \in Yaws
<1>1. HalfTurn \in Nat \ {0}
  BY TurningAssumption
<1>2. FullTurn \in Nat \ {0} /\ FullTurn = 2 * HalfTurn
  BY <1>1 DEF FullTurn
<1>3. (angle + HalfTurn) \in Int
  BY <1>1
<1>4. (angle + HalfTurn) % FullTurn \in 0 .. FullTurn - 1
  BY <1>2, <1>3
<1> QED
  BY <1>1, <1>2, <1>4 DEF Normalized, Yaws

(* The distance of two yaws is at most half a turn and leads from the one   *)
(* to the other.                                                           *)
LEMMA DistanceIsShort ==
    ASSUME NEW source \in Yaws, NEW target \in Yaws
    PROVE  LET distance == ActualAngleDistance(source, target)
           IN  /\ distance \in Yaws
               /\ source + distance - target \in {-FullTurn, 0, FullTurn}
<1>1. HalfTurn \in Nat \ {0} /\ source \in Int /\ target \in Int
  BY TurningAssumption DEF Yaws
<1>2. CASE target - source = 0
  BY <1>1, <1>2 DEF ActualAngleDistance, AngleDirection, Yaws, FullTurn
<1>3. CASE target - source > 0
  BY <1>1, <1>3 DEF ActualAngleDistance, AngleDirection, Yaws, FullTurn
<1>4. CASE target - source < 0
  BY <1>1, <1>4 DEF ActualAngleDistance, AngleDirection, Yaws, FullTurn
<1> QED
  BY <1>1, <1>2, <1>3, <1>4

(* On the way, too, a yaw is a whole number.                               *)
LEMMA TargetYawIsInt ==
    ASSUME NEW source \in Yaws, NEW target \in Yaws, NEW elapsed \in Int
    PROVE  TargetYaw(source, target, elapsed) \in Int
<1>1. TenthSecond \in Nat \ {0} /\ source \in Int
  BY TurningAssumption DEF Yaws
<1>2. ActualAngleDistance(source, target) \in Int
  BY DistanceIsShort, TurningAssumption DEF Yaws
<1>3. elapsed * ActualAngleDistance(source, target) \in Int
  BY <1>2
<1>4. (elapsed * ActualAngleDistance(source, target)) \div TenthSecond \in Int
  BY <1>1, <1>3
<1> QED
  BY <1>1, <1>4 DEF TargetYaw

(* Type correctness: the yaws a puppet is given, turns from and turns to    *)
(* stay within half a turn, and no interpolation outlives its time.        *)
THEOREM TypeCorrect == Spec => []TypeOK
<1>1. Init => TypeOK
  <2> SUFFICES ASSUME Init PROVE TypeOK
    OBVIOUS
  <2>1. 0 \in Yaws /\ 0 \in 0 .. TenthSecond
    BY TurningAssumption DEF Yaws
  <2> QED
    BY <2>1 DEF Init, TypeOK
<1>2. TypeOK /\ [Next]_vars => TypeOK'
  <2> SUFFICES ASSUME TypeOK, [Next]_vars PROVE TypeOK'
    OBVIOUS
  <2>1. ASSUME NEW target \in Yaws, TeleportEntity(target) PROVE TypeOK'
    <3>1. target \in Int /\ Normalized(target) \in Yaws
      BY NormalizedIsYaw, TurningAssumption DEF Yaws
    <3>2. 0 \in 0 .. TenthSecond
      BY TurningAssumption
    <3> QED
      BY <2>1, <3>1, <3>2 DEF TeleportEntity, TypeOK
  <2>2. ASSUME NEW deltaTime \in DeltaTimes, InterpolatePuppet(deltaTime) PROVE TypeOK'
    <3> DEFINE progress == Progress(timeElapsed + deltaTime)
    <3>1. progress \in 0 .. TenthSecond
      BY TurningAssumption DEF TypeOK, Progress
    <3>2. progress \in Int
      BY <3>1, TurningAssumption
    <3> HIDE DEF progress
    <3>3. Normalized(TargetYaw(rotationSource, rotationTarget, progress)) \in Yaws
      BY <3>2, NormalizedIsYaw, TargetYawIsInt DEF TypeOK
    <3>4. /\ yaw' = Normalized(TargetYaw(rotationSource, rotationTarget, progress))
          /\ timeElapsed' = progress
          /\ interpolating' = (progress < TenthSecond)
          /\ UNCHANGED <<rotationSource, rotationTarget>>
      BY <2>2 DEF InterpolatePuppet, progress
    <3> QED
      BY <3>1, <3>3, <3>4 DEF TypeOK
  <2>3. CASE UNCHANGED vars
    BY <2>3 DEF vars, TypeOK
  <2> QED
    BY <2>1, <2>2, <2>3 DEF Next
<1> QED
  BY <1>1, <1>2, PTL DEF Spec

(* Every interpolation that can ever come about turns the shorter way.      *)
THEOREM ShorterWay == Spec => []TurnsTheShorterWay
<1>1. TypeOK => TurnsTheShorterWay
  BY DistanceIsShort DEF TypeOK, TurnsTheShorterWay
<1> QED
  BY <1>1, TypeCorrect, PTL

-----------------------------------------------------------------------------
(* How far a turn of a distance still is from its end.                      *)
ToGo(distance, elapsed) ==
    IF distance >= 0
    THEN distance - (elapsed * distance) \div TenthSecond
    ELSE (elapsed * distance) \div TenthSecond - distance

(* It is never more than half a turn, shrinks with time and comes to nothing. *)
LEMMA TurnsComeToAnEnd ==
    ASSUME NEW distance \in Yaws, NEW elapsed \in 0 .. TenthSecond
    PROVE  /\ ToGo(distance, elapsed) \in 0 .. HalfTurn
           /\ \A later \in elapsed .. TenthSecond :
                ToGo(distance, later) <= ToGo(distance, elapsed)
           /\ ToGo(distance, TenthSecond) = 0
<1> DEFINE T == TenthSecond
           Turned(e) == (e * distance) \div T
<1>1. T \in Nat \ {0} /\ HalfTurn \in Nat \ {0} /\ distance \in Int
      /\ -HalfTurn <= distance /\ distance <= HalfTurn
  BY TurningAssumption DEF Yaws
<1> HIDE DEF T
<1>2. \A a, b \in Int : a <= b => a \div T <= b \div T
  BY <1>1
<1>3. \A a \in Int : a \div T \in Int /\ (T * a) \div T = a
  BY <1>1
<1>4. Turned(T) = distance /\ Turned(0) = 0
  <2>1. 0 * distance = T * 0
    BY <1>1
  <2> QED  BY <1>1, <1>3, <2>1
<1>5. \A e \in 0 .. T : Turned(e) \in Int
  BY <1>1, <1>3
<1>6. ASSUME NEW d \in 0 .. T, NEW e \in d .. T
      PROVE  /\ distance >= 0 => Turned(d) <= Turned(e)
             /\ distance < 0 => Turned(e) <= Turned(d)
  <2>1. d \in Int /\ e \in Int /\ d <= e /\ d * distance \in Int /\ e * distance \in Int
    BY <1>1
  <2>2. distance >= 0 => d * distance <= e * distance
    BY <1>1, <2>1
  <2>3. distance < 0 => e * distance <= d * distance
    BY <1>1, <2>1
  <2> QED  BY <1>2, <2>1, <2>2, <2>3
<1>7. ToGo(distance, elapsed) \in 0 .. HalfTurn
  <2>1. 0 \in 0 .. T /\ elapsed \in 0 .. T /\ T \in elapsed .. T
    BY <1>1 DEF T
  <2>2. /\ distance >= 0 => 0 <= Turned(elapsed) /\ Turned(elapsed) <= distance
        /\ distance < 0 => distance <= Turned(elapsed) /\ Turned(elapsed) <= 0
    BY <1>4, <1>6, <2>1
  <2>3. Turned(elapsed) \in Int
    BY <1>5, <2>1
  <2>4. ToGo(distance, elapsed)
          = IF distance >= 0 THEN distance - Turned(elapsed) ELSE Turned(elapsed) - distance
    BY DEF ToGo, T
  <2> HIDE DEF Turned
  <2> QED  BY <1>1, <2>2, <2>3, <2>4
<1>8. ASSUME NEW later \in elapsed .. TenthSecond
      PROVE  ToGo(distance, later) <= ToGo(distance, elapsed)
  <2>1. later \in elapsed .. T /\ later \in 0 .. T /\ elapsed \in 0 .. T
    BY <1>1, <1>8 DEF T
  <2>2. Turned(elapsed) \in Int /\ Turned(later) \in Int
    BY <1>5, <2>1
  <2>3. /\ distance >= 0 => Turned(elapsed) <= Turned(later)
        /\ distance < 0 => Turned(later) <= Turned(elapsed)
    BY <1>6, <2>1
  <2>4. \A e : ToGo(distance, e)
                 = IF distance >= 0 THEN distance - Turned(e) ELSE Turned(e) - distance
    BY DEF ToGo, T
  <2> HIDE DEF Turned
  <2> QED  BY <1>1, <2>2, <2>3, <2>4
<1>9. ToGo(distance, TenthSecond) = 0
  BY <1>1, <1>4 DEF ToGo, T
<1> QED  BY <1>7, <1>8, <1>9

(* Full turns do not count.                                                *)
LEMMA RestIs ==
    ASSUME NEW whole \in Nat \ {0}, NEW rest \in 0 .. whole - 1, NEW turns \in Int
    PROVE  (rest + whole * turns) % whole = rest
<1> DEFINE a == rest + whole * turns
           r == a % whole
<1>1. a \in Int
  OBVIOUS
<1>2. a = whole * (a \div whole) + r /\ r \in 0 .. whole - 1 /\ a \div whole \in Int
  BY <1>1
<1>3. PICK k \in Int : k = turns - (a \div whole)
  BY <1>2
<1>4. r = rest + whole * k
  <2>1. whole * k = whole * turns - whole * (a \div whole)
    BY <1>2, <1>3
  <2> HIDE DEF r
  <2> QED  BY <1>2, <2>1
<1>5. \A x, y \in 0 .. whole - 1, i \in Int : x = y + whole * i => x = y
  OBVIOUS
<1> HIDE DEF a, r
<1>6. r = rest
  BY <1>2, <1>4, <1>5
<1> QED  BY <1>6 DEF r, a

LEMMA NormalizedIsTheSame ==
    ASSUME NEW angle \in Int
    PROVE  \E turns \in Int : Normalized(angle) = angle + FullTurn * turns
<1>1. HalfTurn \in Nat \ {0} /\ FullTurn \in Nat \ {0}
  BY TurningAssumption DEF FullTurn
<1> DEFINE a == angle + HalfTurn
           k == a \div FullTurn
<1>2. a \in Int
  BY <1>1
<1>3. k \in Int /\ a = FullTurn * k + (a % FullTurn)
  BY <1>1, <1>2
<1>4. Normalized(angle) = (a % FullTurn) - HalfTurn
  BY DEF Normalized
<1>5. a % FullTurn \in Int
  BY <1>1, <1>2
<1>6. PICK left \in Int : left = a % FullTurn
  BY <1>5
<1> HIDE DEF k
<1>7. Normalized(angle) = angle + FullTurn * (-k)
  <2>1. FullTurn * (-k) = -(FullTurn * k) /\ FullTurn * k \in Int
    BY <1>1, <1>3
  <2> QED  BY <1>1, <1>3, <1>4, <1>6, <2>1
<1>8. -k \in Int
  BY <1>3
<1> QED  BY <1>7, <1>8

LEMMA ApartIs ==
    ASSUME NEW a \in Int, NEW b \in Int, NEW distance \in 0 .. HalfTurn, NEW turns \in Int,
           a - b \in {distance + FullTurn * turns, FullTurn * turns - distance}
    PROVE  Apart(a, b) = distance
<1>1. HalfTurn \in Nat \ {0} /\ FullTurn \in Nat \ {0} /\ FullTurn = 2 * HalfTurn
  BY TurningAssumption DEF FullTurn
<1>2. CASE a - b = distance + FullTurn * turns
  <2>1. distance \in 0 .. FullTurn - 1
    BY <1>1
  <2>2. (a - b) % FullTurn = distance
    BY <1>1, <1>2, <2>1, RestIs
  <2> QED  BY <1>1, <2>2 DEF Apart
<1>3. CASE a - b = FullTurn * turns - distance /\ distance # 0
  <2>1. PICK rest \in 0 .. FullTurn - 1 : rest = FullTurn - distance
    BY <1>1, <1>3
  <2>2. PICK less \in Int : less = turns - 1
    OBVIOUS
  <2>3. a - b = rest + FullTurn * less
    <3>1. FullTurn * less = FullTurn * turns - FullTurn /\ FullTurn * turns \in Int
      BY <1>1, <2>2
    <3> QED  BY <1>1, <1>3, <2>1, <3>1
  <2>4. (rest + FullTurn * less) % FullTurn = rest
    BY <1>1, RestIs
  <2>5. (a - b) % FullTurn = FullTurn - distance
    BY <2>1, <2>3, <2>4
  <2> QED  BY <1>1, <2>5 DEF Apart
<1>4. CASE a - b = FullTurn * turns - distance /\ distance = 0
  <2>1. a - b = distance + FullTurn * turns
    BY <1>1, <1>4
  <2> QED  BY <1>2, <2>1
<1> QED  BY <1>2, <1>3, <1>4

(* On the way from one yaw to another, the puppet is as far from its target *)
(* as it has to go.                                                        *)
LEMMA ApartOnTheWay ==
    ASSUME NEW source \in Yaws, NEW target \in Yaws, NEW elapsed \in 0 .. TenthSecond
    PROVE  Apart(Normalized(TargetYaw(source, target, elapsed)), target)
             = ToGo(ActualAngleDistance(source, target), elapsed)
<1>1. PICK distance : distance = ActualAngleDistance(source, target)
  OBVIOUS
<1>2. /\ distance \in Yaws
      /\ source + distance - target \in {-FullTurn, 0, FullTurn}
  BY <1>1, DistanceIsShort
<1>3. /\ HalfTurn \in Nat \ {0} /\ FullTurn \in Nat \ {0} /\ TenthSecond \in Nat \ {0}
      /\ source \in Int /\ target \in Int /\ distance \in Int /\ elapsed \in Int
  BY <1>2, TurningAssumption DEF Yaws, FullTurn
<1>4. PICK angle \in Int : angle = TargetYaw(source, target, elapsed)
  BY <1>3, TargetYawIsInt
<1>5. PICK turned \in Int : turned = (elapsed * distance) \div TenthSecond
  BY <1>3
<1>6. angle = source + turned
  BY <1>1, <1>4, <1>5 DEF TargetYaw
<1>7. PICK there \in Int, i \in Int : there = Normalized(angle) /\ there = angle + FullTurn * i
  <2>1. PICK i \in Int : Normalized(angle) = angle + FullTurn * i
    BY NormalizedIsTheSame
  <2>2. Normalized(angle) \in Int
    BY <1>3, NormalizedIsYaw DEF Yaws
  <2> QED  BY <2>1, <2>2
<1>8. PICK j \in Int : source + distance - target = FullTurn * j
  <2>1. -FullTurn = FullTurn * (-1) /\ 0 = FullTurn * 0 /\ FullTurn = FullTurn * 1
    BY <1>3
  <2> QED  BY <1>2, <2>1
<1>9. PICK k \in Int : k = i + j /\ FullTurn * k = FullTurn * i + FullTurn * j
  <2>1. FullTurn * (i + j) = FullTurn * i + FullTurn * j
    BY <1>3
  <2> QED  BY <2>1
<1>10. there - target = FullTurn * k - (distance - turned)
  <2>1. FullTurn * i \in Int /\ FullTurn * j \in Int
    BY <1>3
  <2> QED  BY <1>3, <1>6, <1>7, <1>8, <1>9, <2>1
<1>11. ToGo(distance, elapsed) = IF distance >= 0 THEN distance - turned ELSE turned - distance
  BY <1>5 DEF ToGo
<1>12. ToGo(distance, elapsed) \in 0 .. HalfTurn
  BY <1>2, TurnsComeToAnEnd
<1>13. there - target \in {ToGo(distance, elapsed) + FullTurn * k,
                           FullTurn * k - ToGo(distance, elapsed)}
  <2>1. FullTurn * k \in Int
    BY <1>3
  <2> QED  BY <1>3, <1>10, <1>11, <2>1
<1>14. Apart(there, target) = ToGo(distance, elapsed)
  BY <1>3, <1>12, <1>13, ApartIs
<1> QED  BY <1>1, <1>4, <1>7, <1>14

(* Whatever the frames' times and however often a turn is started anew, no  *)
(* frame of it turns a puppet away, and the last one leaves nothing to go.  *)
THEOREM TurnsToTheTarget == Spec => NeverTurnsAway
<1>1. ASSUME TypeOK, [Next]_vars, UNCHANGED <<rotationSource, rotationTarget>>,
             timeElapsed' > timeElapsed
      PROVE  /\ Apart(yaw', rotationTarget)
                  <= Apart(Normalized(TargetYaw(rotationSource, rotationTarget, timeElapsed)),
                           rotationTarget)
             /\ ~interpolating' => Apart(yaw', rotationTarget) = 0
  <2>1. /\ TenthSecond \in Nat \ {0}
        /\ timeElapsed \in 0 .. TenthSecond
        /\ rotationSource \in Yaws /\ rotationTarget \in Yaws
    BY <1>1, TurningAssumption DEF TypeOK
  <2>2. PICK deltaTime \in DeltaTimes : InterpolatePuppet(deltaTime)
    <3>1. \A target \in Yaws : ~TeleportEntity(target)
      BY <1>1, <2>1 DEF TeleportEntity
    <3>2. ~UNCHANGED vars
      BY <1>1, <2>1 DEF vars
    <3> QED  BY <1>1, <3>1, <3>2 DEF Next
  <2>3. PICK progress \in timeElapsed .. TenthSecond :
          /\ yaw' = Normalized(TargetYaw(rotationSource, rotationTarget, progress))
          /\ interpolating' = (progress < TenthSecond)
    <3> DEFINE progress == Progress(timeElapsed + deltaTime)
    <3>1. progress \in timeElapsed .. TenthSecond
      BY <2>1, TurningAssumption DEF Progress
    <3> QED  BY <2>2, <3>1 DEF InterpolatePuppet
  <2>4. progress \in 0 .. TenthSecond
    BY <2>1
  <2>5. PICK distance \in Yaws : distance = ActualAngleDistance(rotationSource, rotationTarget)
    BY <2>1, DistanceIsShort
  <2>6. Apart(yaw', rotationTarget) = ToGo(distance, progress)
    BY <2>1, <2>3, <2>4, <2>5, ApartOnTheWay
  <2>7. Apart(Normalized(TargetYaw(rotationSource, rotationTarget, timeElapsed)), rotationTarget)
          = ToGo(distance, timeElapsed)
    BY <2>1, <2>5, ApartOnTheWay
  <2>8. ToGo(distance, progress) <= ToGo(distance, timeElapsed) /\ ToGo(distance, TenthSecond) = 0
    BY <2>1, TurnsComeToAnEnd
  <2>9. ~interpolating' => progress = TenthSecond
    <3>1. ~interpolating' => ~(progress < TenthSecond)
      BY <2>3, Zenon
    <3>2. ~(progress < TenthSecond) => progress = TenthSecond
      BY <2>1, <2>4
    <3> QED  BY <3>1, <3>2, Zenon
  <2> QED  BY <2>6, <2>7, <2>8, <2>9
<1>2. TypeOK /\ [Next]_vars =>
        (UNCHANGED <<rotationSource, rotationTarget>> /\ timeElapsed' > timeElapsed
           => /\ Apart(yaw', rotationTarget)
                   <= Apart(Normalized(TargetYaw(rotationSource, rotationTarget, timeElapsed)),
                            rotationTarget)
              /\ ~interpolating' => Apart(yaw', rotationTarget) = 0)
  BY <1>1
<1> QED
  BY <1>2, TypeCorrect, PTL DEF Spec, NeverTurnsAway

=============================================================================
