-------------------------------- MODULE Turning --------------------------------
(***************************************************************************)
(* How a puppet turns: the yaw half of InterpolatePuppets, which GameClient *)
(* leaves out.  A TeleportEntity starts an interpolation from the yaw the  *)
(* puppet has to the one it is told; every frame turns it on; one that     *)
(* arrives on the way starts anew from there.  Yaws are integers of any    *)
(* unit; the client reads them as the game gives them, within half a turn  *)
(* to either side, but sets them to whatever the sum comes to.             *)
(***************************************************************************)
EXTENDS Integers

CONSTANTS
    HalfTurn,     \* 180 degrees
    TenthSecond,  \* ticks an interpolation takes
    DeltaTimes    \* ticks a frame takes

ASSUME TurningAssumption ==
    /\ HalfTurn \in Nat \ {0}
    /\ TenthSecond \in Nat \ {0}
    /\ DeltaTimes \subseteq Nat \ {0}

VARIABLES
    yaw,             \* of the puppet
    interpolating,   \* whether m_interpolationData has it
    rotationSource, rotationTarget, timeElapsed  \* its InterpolationData

vars == <<yaw, interpolating, rotationSource, rotationTarget, timeElapsed>>

FullTurn == 2 * HalfTurn

Yaws == -HalfTurn .. HalfTurn

(* The game: an orientation that is set to any angle reads as one of Yaws.  *)
Normalized(angle) == ((angle + HalfTurn) % FullTurn) - HalfTurn

-----------------------------------------------------------------------------
(* How far around to the left b is from a.                                  *)
AngleDirection(a, b) == IF b - a < 0 THEN b - a + FullTurn ELSE b - a

(* Mutant: "if we go from 5 -> 355, we should only do 10, not 350".         *)
PlainDifference(source, target) == target - source

(* Mutant: the way back is not negated.                                    *)
AlwaysLeft(source, target) ==
    IF AngleDirection(source, target) < AngleDirection(target, source)
    THEN AngleDirection(source, target)
    ELSE AngleDirection(target, source)

ActualAngleDistance(source, target) ==
    LET angleDirection1 == AngleDirection(source, target)
        angleDirection2 == AngleDirection(target, source)
    IN  IF angleDirection1 < angleDirection2 THEN angleDirection1 ELSE -angleDirection2

(* Mutant: a late frame turns the puppet on past its target.               *)
Unclamped(elapsed) == elapsed

Progress(elapsed) == IF elapsed < TenthSecond THEN elapsed ELSE TenthSecond

TargetYaw(source, target, elapsed) ==
    source + (elapsed * ActualAngleDistance(source, target)) \div TenthSecond

-----------------------------------------------------------------------------
(* A puppet still at the origin is put in place at once, any other turns.   *)
TeleportEntity(target) ==
    \/ /\ yaw' = Normalized(target)
       /\ UNCHANGED <<interpolating, rotationSource, rotationTarget, timeElapsed>>
    \/ /\ interpolating' = TRUE
       /\ rotationSource' = yaw
       /\ rotationTarget' = target
       /\ timeElapsed' = 0
       /\ UNCHANGED yaw

InterpolatePuppet(deltaTime) ==
    /\ interpolating
    /\ LET progress == Progress(timeElapsed + deltaTime)
       IN  /\ yaw' = Normalized(TargetYaw(rotationSource, rotationTarget, progress))
           /\ timeElapsed' = progress
           /\ interpolating' = (progress < TenthSecond)
    /\ UNCHANGED <<rotationSource, rotationTarget>>

Init ==
    /\ yaw = 0
    /\ interpolating = FALSE
    /\ rotationSource = 0
    /\ rotationTarget = 0
    /\ timeElapsed = 0

Next ==
    \/ \E target \in Yaws : TeleportEntity(target)
    \/ \E deltaTime \in DeltaTimes : InterpolatePuppet(deltaTime)

Spec == Init /\ [][Next]_vars

-----------------------------------------------------------------------------
TypeOK ==
    /\ yaw \in Yaws
    /\ rotationSource \in Yaws
    /\ rotationTarget \in Yaws
    /\ interpolating \in BOOLEAN
    /\ timeElapsed \in 0 .. TenthSecond

(* No puppet turns by more than half a turn, and a turn that runs to its    *)
(* end faces where it was told, or a full turn from it: the branches on    *)
(* angleDirection1 and angleDirection2 find the shorter way whichever side *)
(* of the seam at half a turn the two yaws are.                            *)
TurnsTheShorterWay ==
    LET distance == ActualAngleDistance(rotationSource, rotationTarget)
    IN  /\ distance \in Yaws
        /\ rotationSource + distance - rotationTarget \in {-FullTurn, 0, FullTurn}

(* How far two yaws are apart, a full turn being nothing.                   *)
Apart(a, b) ==
    LET left == (a - b) % FullTurn
    IN  IF left <= HalfTurn THEN left ELSE FullTurn - left

(* A puppet never turns away from where it is told to face, however many    *)
(* teleports cut its turns short, and the last frame faces it there.       *)
NeverTurnsAway ==
    [][UNCHANGED <<rotationSource, rotationTarget>> /\ timeElapsed' > timeElapsed
         => /\ Apart(yaw', rotationTarget)
                 <= Apart(Normalized(TargetYaw(rotationSource, rotationTarget, timeElapsed)),
                          rotationTarget)
            /\ ~interpolating' => Apart(yaw', rotationTarget) = 0]_vars

=============================================================================
