-------------------------- MODULE StatusStreamProofs --------------------------
(***************************************************************************)
(* Theorems about StatusStream, for every limit, gain, dead band and set   *)
(* of statuses.                                                            *)
(*                                                                         *)
(* What one run of a loop and one published status do is stated once, as   *)
(* lemmas; no step touches a loop or the odometry in another way.          *)
(***************************************************************************)
EXTENDS StatusStream, TLAPS

(* The limited difference never passes the set point, whatever its sign.   *)
LEMMA DiffRange ==
  ASSUME NEW loop \in [setPoint : Int, effSetPoint : Int, integral : Int]
  PROVE  /\ DiffSetPoint(loop) \in Int
         /\ loop.setPoint >= loop.effSetPoint
              => EffSetPoint(loop) \in loop.effSetPoint .. loop.setPoint
         /\ loop.setPoint <= loop.effSetPoint
              => EffSetPoint(loop) \in loop.setPoint .. loop.effSetPoint
BY LoopAssumption DEF DiffSetPoint, EffSetPoint, Clamped

(* One run of a loop keeps it within the velocities it may be given and    *)
(* the integral within its cap.                                            *)
LEMMA LoopedOK ==
  ASSUME NEW loop, LoopOK(loop), NEW measured \in Int
  PROVE  LoopOK(Looped(loop, measured))
<1>1. /\ loop \in [setPoint : Int, effSetPoint : Int, integral : Int]
      /\ loop.integral \in -Cap .. Cap /\ Cap \in Nat
  BY LoopAssumption DEF LoopOK, Loops
<1>t. TopVel \in Int
  BY StreamAssumption DEF TopVel
<1>2. EffSetPoint(loop) \in -TopVel .. TopVel
  BY <1>1, <1>t, DiffRange DEF LoopOK
<1>3. Err(loop, measured) \in Int
  BY <1>2, <1>t DEF Err
<1>4. Integral(loop, measured) \in -Cap .. Cap
  BY <1>1, <1>3 DEF Integral, Clamped
<1>5. loop.setPoint \in -TopVel .. TopVel
  BY DEF LoopOK
<1> QED
  BY <1>2, <1>4, <1>5, <1>t DEF Looped, LoopOK, Loops

(* Zeroing the integral touches neither the set point nor the ramp.        *)
LEMMA ZeroedOK ==
  ASSUME NEW loop, LoopOK(loop)
  PROVE  LoopOK(ZeroIntegrator(loop)) /\ ZeroIntegrator(loop).setPoint = loop.setPoint
         /\ ZeroIntegrator(loop).effSetPoint = loop.effSetPoint
BY LoopAssumption DEF LoopOK, Loops, ZeroIntegrator

(* Whatever the cast makes of a value, the dead band and the minus keep it *)
(* in 16 bits, and no push is inside the dead band.                        *)
LEMMA PushedRange ==
  ASSUME NEW raw \in Int16
  PROVE  /\ Pushed(raw) \in Int16 /\ Negated(raw) \in Int16
         /\ ~(Pushed(raw) > Least /\ Pushed(raw) < Kick)
         /\ ~(-Pushed(raw) > Least /\ -Pushed(raw) < Kick)
BY LoopAssumption DEF Int16, Pushed, Negated

(* So whatever doLoop may return fits into 16 bits.                        *)
LEMMA DoLoopRange ==
  ASSUME NEW loop, NEW measured
  PROVE  DoLoop(loop, measured) \subseteq Int16
<1>1. RawOutputs(Output(loop, measured)) \subseteq Int16
  BY DEF RawOutputs
<1> QED
  BY <1>1, PushedRange DEF DoLoop

(* The dead band is not monotone: an output one below its upper end is     *)
(* pushed almost twice as far as an output at the end.                     *)
THEOREM PushNotMonotone ==
  ASSUME Kick > Least + 1
  PROVE  Pushed(Kick - 1) = 2 * Kick - 1 /\ Pushed(Kick) = Kick /\ Pushed(Kick - 1) > Pushed(Kick)
BY LoopAssumption DEF Pushed

(* cmd_vel cannot ask for more than its two limits together.               *)
LEMMA VelsRange ==
  ASSUME NEW twist \in Twists
  PROVE  Vels(twist) \in (-TopVel .. TopVel) \X (-TopVel .. TopVel)
<1> DEFINE linear == Clamped(twist.linear, MaxLinear)
           angular == Clamped(twist.angular, MaxAngular)
           turn == WheelDistance * angular
<1>1. linear \in -MaxLinear .. MaxLinear /\ angular \in -MaxAngular .. MaxAngular
  BY StreamAssumption DEF Clamped
<1>2. turn \in -(WheelDistance * MaxAngular) .. WheelDistance * MaxAngular
  <2>1. MaxAngular \in Nat /\ WheelDistance \in Nat
    BY StreamAssumption
  <2>2. \A w, m \in Nat, a \in Int : a <= m /\ -m <= a => w * a <= w * m /\ -(w * m) <= w * a
    <3>1. \A w, n \in Nat : w * n \in Nat
      BY SMT
    <3>2. \A w, m, a \in Int : w * m - w * a = w * (m - a) /\ w * a + w * m = w * (a + m)
      BY SMT
    <3> QED
      <4> SUFFICES ASSUME NEW w \in Nat, NEW m \in Nat, NEW a \in Int, a <= m, -m <= a
                   PROVE  w * a <= w * m /\ -(w * m) <= w * a
        OBVIOUS
      <4>1. m - a \in Nat /\ a + m \in Nat
        OBVIOUS
      <4>2. w * (m - a) \in Nat /\ w * (a + m) \in Nat
        BY <3>1, <4>1
      <4>3. w * m - w * a >= 0 /\ w * a + w * m >= 0
        BY <3>2, <4>2
      <4> QED
        BY <4>3
  <2> HIDE DEF angular
  <2>3. angular <= MaxAngular /\ -MaxAngular <= angular /\ angular \in Int
    BY <1>1, <2>1
  <2> QED
    BY <2>1, <2>2, <2>3
<1>3. MaxLinear \in Nat /\ WheelDistance * MaxAngular \in Int
  BY StreamAssumption
<1> HIDE DEF linear, angular, turn
<1>4. 2 * linear - turn \in -TopVel .. TopVel /\ 2 * linear + turn \in -TopVel .. TopVel
  BY <1>1, <1>2, <1>3 DEF TopVel
<1> QED
  BY <1>4 DEF Vels, linear, angular, turn

(* A set point cmd_vel may ask for leaves a loop a loop.                   *)
LEMMA SetVelsOK ==
  ASSUME NEW vels \in (-TopVel .. TopVel) \X (-TopVel .. TopVel),
         LoopOK(left), LoopOK(right), SetVels(vels)
  PROVE  LoopOK(left') /\ LoopOK(right')
BY StreamAssumption DEF SetVels, LoopOK, Loops, TopVel

(* Standing is a velocity cmd_vel may ask for.                             *)
LEMMA StandOK == <<0, 0>> \in (-TopVel .. TopVel) \X (-TopVel .. TopVel)
<1>1. WheelDistance * MaxAngular \in Nat
  BY StreamAssumption
<1> QED
  BY <1>1, StreamAssumption DEF TopVel

(* What a published status makes of an odometry.                           *)
LEMMA PublishOK ==
  ASSUME NEW o \in Odometries, NEW lDisp \in Int, NEW rDisp \in Int
  PROVE  LET next == PublishOdomXY(o, lDisp, rDisp) IN
         /\ next \in Odometries
         /\ next.oldDL = lDisp /\ next.oldDR = rDisp
         /\ next.heading = (o.heading + (rDisp - o.oldDR) - (lDisp - o.oldDL)) % 4
         /\ next.x = o.x + Distance(lDisp - o.oldDL, rDisp - o.oldDR) * Cos(next.heading)
         /\ next.y = o.y + Distance(lDisp - o.oldDL, rDisp - o.oldDR) * Sin(next.heading)
<1> DEFINE heading == (o.heading + (rDisp - o.oldDR) - (lDisp - o.oldDL)) % 4
           ds == Distance(lDisp - o.oldDL, rDisp - o.oldDR)
<1>1. heading \in 0 .. 3
  BY DEF Odometries
<1>2. ds \in Int
  BY DEF Distance, Odometries
<1>3. Cos(heading) \in {1, -1, 0} /\ Sin(heading) \in {1, -1, 0}
  BY <1>1 DEF Cos, Sin
<1>4. PublishOdomXY(o, lDisp, rDisp) =
        [oldDL |-> lDisp, oldDR |-> rDisp, heading |-> heading,
         x |-> o.x + ds * Cos(heading), y |-> o.y + ds * Sin(heading)]
  BY DEF PublishOdomXY
<1> HIDE DEF heading, ds
<1>5. ds * Cos(heading) \in Int /\ ds * Sin(heading) \in Int
  BY <1>2, <1>3
<1>6. o.x + ds * Cos(heading) \in Int /\ o.y + ds * Sin(heading) \in Int
  BY <1>5 DEF Odometries
<1>7. PublishOdomXY(o, lDisp, rDisp) \in Odometries
  BY <1>1, <1>4, <1>6 DEF Odometries
<1> QED
  BY <1>4, <1>7 DEF heading, ds

----------------------------------------------------------------------------
(* Types.                                                                  *)

(* The stream starts with the types of TypeOK.                             *)
LEMMA TypeInit == Init => TypeOK
<1>1. 0 \in -TopVel .. TopVel
  BY StandOK
<1>2. LoopOK(AtRest)
  BY <1>1, LoopAssumption DEF LoopOK, Loops, AtRest
<1>3. Origin \in Odometries /\ <<0, 0>> \in Int16 \X Int16
  BY LoopAssumption DEF Origin, Odometries, Int16
<1> QED
  BY <1>2, <1>3 DEF Init, TypeOK

(* A status handled: both loops run, and the packet that answers fits.     *)
LEMMA GetStatusTyped ==
  ASSUME TypeOK, NEW s \in Statuses, GetStatus(s)
  PROVE  TypeOK'
<1> DEFINE Ready(loop) == IF s.estop /\ ~oldEstop THEN ZeroIntegrator(loop) ELSE loop
<1>1. s \in AllStatuses /\ s.lVel \in Int /\ s.rVel \in Int /\ s.estop \in BOOLEAN
  BY StreamAssumption DEF AllStatuses
<1>2. LoopOK(Ready(left)) /\ LoopOK(Ready(right))
  BY ZeroedOK DEF TypeOK
<1>3. LoopOK(left') /\ LoopOK(right')
  <2>1. left' = Looped(Ready(left), s.lVel) /\ right' = Looped(Ready(right), s.rVel)
    BY DEF GetStatus
  <2> HIDE DEF Ready
  <2> QED
    BY <1>1, <1>2, <2>1, LoopedOK
<1>4. packet' \in Int16 \X Int16
  <2>1. CASE UNCHANGED packet
    BY <2>1 DEF TypeOK
  <2>2. CASE \E l \in DoLoop(Ready(left), s.lVel), r \in DoLoop(Ready(right), s.rVel) :
               packet' = <<l, Negated(r)>>
    BY <2>2, DoLoopRange, PushedRange
  <2> QED
    BY <2>1, <2>2 DEF GetStatus
<1>5. /\ pc' \in {"status", "caught"} /\ status' \in {s, status} /\ oldEstop' = s.estop
      /\ UNCHANGED <<copy, streaming, odom, straight>>
  BY DEF GetStatus
<1> QED
  BY <1>1, <1>3, <1>4, <1>5 DEF TypeOK, LoopOK

(* The odometry of a status.                                               *)
LEMMA PublishTyped ==
  ASSUME TypeOK, pc = "status"
  PROVE  status.lDisp \in Int /\ status.rDisp \in Int
         /\ PublishOdomXY(odom, status.lDisp, status.rDisp) \in Odometries
<1>1. status \in AllStatuses
  <2>1. NoStatus \in AllStatuses
    BY DEF NoStatus, AllStatuses
  <2> QED
    BY <2>1, StreamAssumption DEF TypeOK
<1>2. status.lDisp \in Int /\ status.rDisp \in Int
  BY <1>1 DEF AllStatuses
<1> QED
  BY <1>2, PublishOK DEF TypeOK

(* Every step keeps the types of TypeOK.                                   *)
LEMMA TypeStep == TypeOK /\ [Next]_vars => TypeOK'
<1> SUFFICES ASSUME TypeOK, [Next]_vars PROVE TypeOK'
  OBVIOUS
<1>1. CASE UNCHANGED vars
  BY <1>1 DEF TypeOK, LoopOK, vars
<1>2. CASE BoardRestarts \/ Construct \/ BridgeConstruct \/ Stop \/ BridgeStop
  BY <1>2 DEF TypeOK, LoopOK, SetStatusHz, BoardRestarts, Construct, BridgeConstruct, Stop, BridgeStop
<1>3. CASE \E s \in Statuses : GetStatus(s)
  BY <1>3, GetStatusTyped
<1>4. CASE \E s \in Statuses : BridgeGetStatus(s)
  BY <1>4, StreamAssumption DEF BridgeGetStatus, TypeOK, LoopOK, AllStatuses
<1>5. CASE ReceiveFails \/ Caught \/ BridgeCaught \/ CaughtUnsent \/ BridgeSpinOnce
  BY <1>5 DEF TypeOK, LoopOK, SetStatusHz, BridgeSetVels, ReceiveFails, Caught, BridgeCaught,
              CaughtUnsent, BridgeSpinOnce
<1>6. CASE UpdateStatus \/ BridgeUpdateStatus
  <2>1. pc = "status" /\ pc' \in {"spinOnce", "caught"} /\ straight' \in BOOLEAN
        /\ status' = NoStatus /\ packet' = <<0, 0>>
        /\ UNCHANGED <<copy, streaming, left, right, oldEstop>>
    BY <1>6 DEF UpdateStatus, BridgeUpdateStatus, Published, NotPublished, TypeOK
  <2>2. odom' \in {odom, PublishOdomXY(odom, status.lDisp, status.rDisp)}
    BY <1>6 DEF UpdateStatus, BridgeUpdateStatus, BridgePublishOdomXY, Published, NotPublished
  <2>3. odom' \in Odometries
    BY <2>1, <2>2, PublishTyped DEF TypeOK
  <2>4. <<0, 0>> \in Int16 \X Int16
    BY LoopAssumption DEF Int16
  <2> QED
    BY <2>1, <2>3, <2>4 DEF TypeOK, LoopOK
<1>7. CASE SpinOnce
  <2>1. LoopOK(left) /\ LoopOK(right)
    BY DEF TypeOK
  <2>2. LoopOK(left') /\ LoopOK(right')
    <3>1. CASE UNCHANGED <<left, right>>
      BY <2>1, <3>1 DEF LoopOK
    <3>2. CASE \E twist \in Twists : SetVels(Vels(twist))
      BY <2>1, <3>2, VelsRange, SetVelsOK
    <3>3. CASE SetVels(<<0, 0>>)
      BY <2>1, <3>3, StandOK, SetVelsOK
    <3> QED
      BY <1>7, <3>1, <3>2, <3>3 DEF SpinOnce
  <2> QED
    BY <1>7, <2>2 DEF SpinOnce, TypeOK, LoopOK
<1> QED
  BY <1>1, <1>2, <1>3, <1>4, <1>5, <1>6, <1>7 DEF Next, Thread

(* Every velocity a loop is given or ramps through is one cmd_vel may ask  *)
(* for, the integral is within its cap, and every wheel packet has 16-bit  *)
(* numbers: whatever the gains, limits, statuses and failures.             *)
THEOREM TypeCorrect == Spec => []TypeOK
<1> QED
  BY TypeInit, TypeStep, PTL DEF Spec

----------------------------------------------------------------------------
(* The odometry.                                                           *)

(* The only steps that move the odometry.                                  *)
LEMMA OdomStep ==
  ASSUME TypeOK, [Next]_vars
  PROVE  \/ UNCHANGED <<odom, straight>>
         \/ /\ pc = "status"
            /\ odom' = PublishOdomXY(odom, status.lDisp, status.rDisp)
            /\ straight' = (straight /\ status.lDisp = status.rDisp)
<1>1. CASE UpdateStatus \/ BridgeUpdateStatus
  BY <1>1 DEF UpdateStatus, BridgeUpdateStatus, BridgePublishOdomXY, Published, NotPublished
<1>2. CASE ~(UpdateStatus \/ BridgeUpdateStatus)
  BY <1>2 DEF Next, Thread, vars, BoardRestarts, Construct, BridgeConstruct, Stop, BridgeStop,
              GetStatus, BridgeGetStatus, ReceiveFails, Caught, BridgeCaught, CaughtUnsent,
              SpinOnce, BridgeSpinOnce
<1> QED
  BY <1>1, <1>2

(* However many statuses were lost, repeated or came from a restarted      *)
(* board: differences of differences telescope, also past whole turns.     *)
LEMMA HeadingStep == TypeOK /\ HeadingFromWheels /\ [Next]_vars => HeadingFromWheels'
<1> SUFFICES ASSUME TypeOK, HeadingFromWheels, [Next]_vars PROVE HeadingFromWheels'
  OBVIOUS
<1>1. CASE UNCHANGED <<odom, straight>>
  BY <1>1 DEF HeadingFromWheels
<1>2. CASE /\ pc = "status"
           /\ odom' = PublishOdomXY(odom, status.lDisp, status.rDisp)
  <2>1. odom \in Odometries /\ status.lDisp \in Int /\ status.rDisp \in Int
    BY <1>2, PublishTyped DEF TypeOK
  <2>2. /\ odom'.oldDL = status.lDisp /\ odom'.oldDR = status.rDisp
        /\ odom'.heading =
             (odom.heading + (status.rDisp - odom.oldDR) - (status.lDisp - odom.oldDL)) % 4
    BY <1>2, <2>1, PublishOK
  <2>3. \A a, b, l, r \in Int : (((b - a) % 4) + (r - b) - (l - a)) % 4 = (r - l) % 4
    OBVIOUS
  <2>4. odom.oldDL \in Int /\ odom.oldDR \in Int
    BY <2>1 DEF Odometries
  <2> QED
    BY <2>1, <2>2, <2>3, <2>4 DEF HeadingFromWheels
<1> QED
  BY <1>1, <1>2, OdomStep

(* The heading is the difference of the wheels, whatever is lost on the    *)
(* way: lost, repeated and reordered statuses do not bend it.              *)
THEOREM HeadingIsWheels == Spec => []HeadingFromWheels
<1>1. Init => HeadingFromWheels
  BY DEF Init, Origin, HeadingFromWheels
<1> QED
  BY <1>1, HeadingStep, TypeCorrect, PTL DEF Spec

(* A robot that only ever drove straight is reported one and a half times  *)
(* as far as its wheels went (ds is l + r / 2), and never to the side;     *)
(* statuses that are lost lose no distance.                                *)
StraightLine ==
  straight => odom.oldDL = odom.oldDR /\ odom.x = 3 * odom.oldDL /\ odom.y = 0

(* A straight robot has no heading, so what it goes is all along x.        *)
LEMMA StraightStep ==
  TypeOK /\ HeadingFromWheels /\ StraightLine /\ [Next]_vars => StraightLine'
<1> SUFFICES ASSUME TypeOK, HeadingFromWheels, StraightLine, [Next]_vars PROVE StraightLine'
  OBVIOUS
<1>1. CASE UNCHANGED <<odom, straight>>
  BY <1>1 DEF StraightLine
<1>2. CASE /\ pc = "status"
           /\ odom' = PublishOdomXY(odom, status.lDisp, status.rDisp)
           /\ straight' = (straight /\ status.lDisp = status.rDisp)
  <2> SUFFICES ASSUME straight, status.lDisp = status.rDisp
               PROVE  odom'.oldDL = odom'.oldDR /\ odom'.x = 3 * odom'.oldDL /\ odom'.y = 0
    BY <1>2 DEF StraightLine
  <2> DEFINE disp == status.lDisp
             l == disp - odom.oldDL
  <2>1. odom \in Odometries /\ disp \in Int
    BY <1>2, PublishTyped DEF TypeOK
  <2>2. odom.oldDL \in Int /\ odom.oldDR = odom.oldDL /\ odom.x = 3 * odom.oldDL /\ odom.y = 0
        /\ odom.heading = 0
    BY <2>1 DEF StraightLine, HeadingFromWheels, Odometries
  <2>3. l \in Int /\ (0 + l - l) % 4 = 0 /\ Distance(l, l) = 3 * l
    BY <2>1, <2>2 DEF Distance
  <2>4. /\ odom'.oldDL = disp /\ odom'.oldDR = disp
        /\ odom'.heading = 0
        /\ odom'.x = odom.x + Distance(l, l) * Cos(odom'.heading)
        /\ odom'.y = odom.y + Distance(l, l) * Sin(odom'.heading)
    <3>1. /\ odom' = PublishOdomXY(odom, disp, disp)
          /\ disp - odom.oldDL = l /\ disp - odom.oldDR = l
      BY <1>2, <2>2
    <3> HIDE DEF disp, l
    <3>2. /\ odom'.oldDL = disp /\ odom'.oldDR = disp
          /\ odom'.heading = (odom.heading + (disp - odom.oldDR) - (disp - odom.oldDL)) % 4
          /\ odom'.x = odom.x + Distance(disp - odom.oldDL, disp - odom.oldDR)
                                  * Cos(odom'.heading)
          /\ odom'.y = odom.y + Distance(disp - odom.oldDL, disp - odom.oldDR)
                                  * Sin(odom'.heading)
      BY <2>1, <3>1, PublishOK
    <3> QED
      BY <2>2, <2>3, <3>1, <3>2
  <2>5. Cos(0) = 1 /\ Sin(0) = 0
    BY DEF Cos, Sin
  <2> QED
    BY <2>1, <2>2, <2>3, <2>4, <2>5
<1> QED
  BY <1>1, <1>2, OdomStep

(* A robot that drove straight is reported half again as far as it went.   *)
THEOREM StraightIsHalfAgainAsFar == Spec => []StraightLine
<1>1. Init => StraightLine
  BY DEF Init, Origin, StraightLine
<1> QED
  BY <1>1, StraightStep, TypeCorrect, HeadingIsWheels, PTL DEF Spec

(* It is on its line, and on the side its wheels are on.                   *)
THEOREM StraightStaysOnLine == Spec => []OnLine
<1>1. TypeOK /\ StraightLine => OnLine
  BY DEF TypeOK, Odometries, StraightLine, OnLine
<1> QED
  BY <1>1, TypeCorrect, StraightIsHalfAgainAsFar, PTL

----------------------------------------------------------------------------
(* The ramps.  A step of RampOutline is a whole Accel.                     *)

(* A quotient and the next one enclose what was divided.                   *)
LEMMA DivBounds ==
  ASSUME NEW n \in Nat \ {0}, NEW a \in Int
  PROVE  a \div n \in Int /\ n * (a \div n) <= a /\ a < n * (a \div n) + n
OBVIOUS

(* The only q with a multiple of n up to n below a is the quotient.        *)
LEMMA DivUnique ==
  ASSUME NEW n \in Nat \ {0}, NEW a \in Int, NEW q \in Int, n * q <= a, a < n * q + n
  PROVE  a \div n = q
<1> DEFINE p == a \div n
<1>1. p \in Int /\ n * p <= a /\ a < n * p + n
  BY DivBounds
<1> HIDE DEF p
<1>2. \A c \in Int : c >= 1 => n * c >= n
  <2> SUFFICES ASSUME NEW c \in Int, c >= 1 PROVE n * c >= n
    OBVIOUS
  <2>1. n * (c - 1) >= 0 /\ n * (c - 1) = n * c - n
    OBVIOUS
  <2> QED
    BY <2>1
<1>3. n * (p - q) = n * p - n * q /\ n * (q - p) = n * q - n * p /\ n * p \in Int /\ n * q \in Int
  BY <1>1
<1>4. ~(p - q >= 1) /\ ~(q - p >= 1)
  BY <1>1, <1>2, <1>3
<1> QED
  BY <1>1, <1>4 DEF p

(* Division by a positive number keeps the order.                          *)
LEMMA DivMonotone ==
  ASSUME NEW n \in Nat \ {0}, NEW a \in Int, NEW b \in Int, a <= b
  PROVE  a \div n <= b \div n
<1> DEFINE p == a \div n  q == b \div n
<1>1. p \in Int /\ q \in Int /\ n * p <= a /\ b < n * q + n
  BY DivBounds
<1> HIDE DEF p, q
<1>2. ~(p - q >= 1)
  <2> SUFFICES ASSUME p - q >= 1 PROVE FALSE
    OBVIOUS
  <2>1. n * (p - q - 1) >= 0 /\ n * (p - q - 1) = n * p - n * q - n
    BY <1>1
  <2>2. n * p \in Int /\ n * q \in Int
    BY <1>1
  <2> QED
    BY <1>1, <2>1, <2>2
<1> QED
  BY <1>1, <1>2 DEF p, q

(* A divisor more or less is one more or less.                             *)
LEMMA DivStep ==
  ASSUME NEW n \in Nat \ {0}, NEW a \in Int
  PROVE  (a + n) \div n = a \div n + 1 /\ (a - n) \div n = a \div n - 1
<1> DEFINE q == a \div n
<1>1. q \in Int /\ n * q <= a /\ a < n * q + n
  BY DivBounds
<1> HIDE DEF q
<1>2. n * (q + 1) = n * q + n /\ n * (q - 1) = n * q - n /\ n * q \in Int
  BY <1>1
<1>3. n * (q + 1) <= a + n /\ a + n < n * (q + 1) + n
  BY <1>1, <1>2
<1>4. n * (q - 1) <= a - n /\ a - n < n * (q - 1) + n
  BY <1>1, <1>2
<1>5. q + 1 \in Int /\ q - 1 \in Int /\ a + n \in Int /\ a - n \in Int
  BY <1>1
<1> QED
  BY <1>3, <1>4, <1>5, DivUnique DEF q

(* One status moves the loop by at most one whole Accel, towards its set   *)
(* point and never past it.                                                *)
LEMMA LoopedFollows ==
  ASSUME Accel # 0, NEW loop, LoopOK(loop), NEW measured
  PROVE  LET next == Looped(loop, measured)
             goal == loop.setPoint \div Accel
             at   == loop.effSetPoint \div Accel
         IN  /\ next.setPoint \div Accel = goal
             /\ next.effSetPoint \div Accel =
                  IF goal > at THEN at + 1 ELSE IF goal < at THEN at - 1 ELSE at
<1> DEFINE n == Accel
           sp == loop.setPoint
           eff == loop.effSetPoint
           to == EffSetPoint(loop)
<1>1. n \in Nat \ {0}
  BY LoopAssumption
<1>2. sp \in Int /\ eff \in Int
  BY StreamAssumption DEF LoopOK, Loops
<1>3. to = IF sp - eff > n THEN eff + n ELSE IF sp - eff < -n THEN eff - n ELSE sp
  BY <1>1, <1>2 DEF EffSetPoint, DiffSetPoint, Clamped
<1>4. Looped(loop, measured).setPoint = sp /\ Looped(loop, measured).effSetPoint = to
  BY DEF Looped
<1> HIDE DEF n, sp, eff, to
<1>5. /\ (eff + n) \div n = eff \div n + 1 /\ (eff - n) \div n = eff \div n - 1
      /\ eff + n \in Int /\ eff - n \in Int
  <2>1. eff + n \in Int /\ eff - n \in Int
    BY <1>1, <1>2
  <2> QED
    BY <1>1, <1>2, <2>1, DivStep, Zenon
<1>6. \A a \in Int : a \div n \in Int
  BY <1>1, DivBounds
<1>7. to \div n = IF sp \div n > eff \div n THEN eff \div n + 1
                  ELSE IF sp \div n < eff \div n THEN eff \div n - 1 ELSE eff \div n
  <2>1. CASE sp - eff > n
    <3>1. (eff + n) \div n <= sp \div n
      BY <1>1, <1>2, <1>5, <2>1, DivMonotone
    <3> QED
      BY <1>2, <1>3, <1>5, <1>6, <2>1, <3>1
  <2>2. CASE sp - eff < -n
    <3>1. sp \div n <= (eff - n) \div n
      BY <1>1, <1>2, <1>5, <2>2, DivMonotone
    <3> QED
      BY <1>1, <1>2, <1>3, <1>5, <1>6, <2>2, <3>1
  <2>3. CASE ~(sp - eff > n) /\ ~(sp - eff < -n)
    <3>1. sp \div n <= (eff + n) \div n /\ (eff - n) \div n <= sp \div n
      BY <1>1, <1>2, <1>5, <2>3, DivMonotone
    <3>2. to = sp
      BY <1>3, <2>3
    <3> QED
      BY <1>2, <1>5, <1>6, <3>1, <3>2
  <2> QED
    BY <2>1, <2>2, <2>3
<1> QED
  BY <1>4, <1>7 DEF n, sp, eff, to

(* Every step sets both set points or lets both loops follow.              *)
LEMMA RampStep ==
  ASSUME TypeOK, [Next]_vars, Accel # 0
  PROVE  /\ [LeftRamp!SetVel \/ LeftRamp!Follow]_<<left.setPoint \div Accel, left.effSetPoint \div Accel>>
         /\ [RightRamp!SetVel \/ RightRamp!Follow]_<<right.setPoint \div Accel, right.effSetPoint \div Accel>>
<1>1. CASE UNCHANGED <<left, right>>
  BY <1>1
<1>2. CASE \E s \in Statuses : GetStatus(s)
  <2>1. PICK s \in Statuses : GetStatus(s)
    BY <1>2
  <2> DEFINE Ready(loop) == IF s.estop /\ ~oldEstop THEN ZeroIntegrator(loop) ELSE loop
  <2>2. left' = Looped(Ready(left), s.lVel) /\ right' = Looped(Ready(right), s.rVel)
    BY <2>1 DEF GetStatus
  <2>3. /\ LoopOK(Ready(left)) /\ LoopOK(Ready(right))
        /\ Ready(left).setPoint = left.setPoint /\ Ready(left).effSetPoint = left.effSetPoint
        /\ Ready(right).setPoint = right.setPoint /\ Ready(right).effSetPoint = right.effSetPoint
    BY ZeroedOK DEF TypeOK
  <2> HIDE DEF Ready
  <2>4. LeftRamp!Follow
    BY <2>2, <2>3, LoopedFollows DEF LeftRamp!Follow
  <2>5. RightRamp!Follow
    BY <2>2, <2>3, LoopedFollows DEF RightRamp!Follow
  <2> QED
    BY <2>4, <2>5
<1>3. CASE \E vels \in (-TopVel .. TopVel) \X (-TopVel .. TopVel) : SetVels(vels)
  <2>1. /\ left'.setPoint \in Int /\ left'.effSetPoint = left.effSetPoint
        /\ right'.setPoint \in Int /\ right'.effSetPoint = right.effSetPoint
    BY <1>3, StreamAssumption DEF SetVels, TypeOK, LoopOK, Loops, TopVel
  <2>2. left'.setPoint \div Accel \in Int /\ right'.setPoint \div Accel \in Int
    BY <2>1, LoopAssumption, DivBounds
  <2> QED
    BY <2>1, <2>2 DEF LeftRamp!SetVel, RightRamp!SetVel
<1>4. CASE SpinOnce
  BY <1>1, <1>3, <1>4, VelsRange, StandOK DEF SpinOnce
<1> QED
  BY <1>1, <1>2, <1>4
     DEF Next, Thread, vars, BoardRestarts, Construct, BridgeConstruct, Stop, BridgeStop,
         BridgeGetStatus, ReceiveFails, Caught, BridgeCaught, CaughtUnsent, UpdateStatus,
         BridgeUpdateStatus, BridgeSpinOnce, BridgeSetVels

(* With an acceleration limit both control loops implement the ramp of     *)
(* single steps, whatever the limit, the gains and the statuses.           *)
THEOREM ImplementsRamps ==
  ASSUME Accel # 0
  PROVE  Spec => RampsAsOutlined
<1>1. Init => LeftRamp!Standing /\ RightRamp!Standing
  BY LoopAssumption DEF Init, AtRest, LeftRamp!Standing, RightRamp!Standing
<1>2. TypeOK /\ [Next]_vars =>
        /\ [LeftRamp!SetVel \/ LeftRamp!Follow]_<<left.setPoint \div Accel, left.effSetPoint \div Accel>>
        /\ [RightRamp!SetVel \/ RightRamp!Follow]_<<right.setPoint \div Accel, right.effSetPoint \div Accel>>
  BY RampStep
<1> QED
  BY <1>1, <1>2, TypeCorrect, PTL DEF Spec, RampsAsOutlined, LeftRamp!Ramp, RightRamp!Ramp

----------------------------------------------------------------------------
(* What StandsStill rests on: the ramp runs out in a bounded number of     *)
(* statuses, and a robot at rest is left at rest.                          *)

(* How far the ramp is behind its set point, and after one more status.    *)
Gap(loop) == IF loop.setPoint >= loop.effSetPoint THEN loop.setPoint - loop.effSetPoint
                                                  ELSE loop.effSetPoint - loop.setPoint
Shortened(gap) == IF Accel = 0 \/ gap <= Accel THEN 0 ELSE gap - Accel

(* One run of a loop shortens the gap by the whole limit, to zero at last. *)
LEMMA LoopedShortens ==
  ASSUME NEW loop, LoopOK(loop), NEW measured \in Int
  PROVE  Gap(Looped(loop, measured)) = Shortened(Gap(loop))
<1> DEFINE sp == loop.setPoint
           eff == loop.effSetPoint
           to == EffSetPoint(loop)
<1>1. sp \in Int /\ eff \in Int /\ Accel \in Nat
  BY StreamAssumption, LoopAssumption DEF LoopOK, Loops
<1>2. to = IF Accel = 0 THEN sp
           ELSE IF sp - eff > Accel THEN eff + Accel
           ELSE IF sp - eff < -Accel THEN eff - Accel ELSE sp
  BY <1>1 DEF EffSetPoint, DiffSetPoint, Clamped
<1>3. Looped(loop, measured).setPoint = sp /\ Looped(loop, measured).effSetPoint = to
  BY DEF Looped
<1>4. Gap(loop) = IF sp >= eff THEN sp - eff ELSE eff - sp
  BY DEF Gap
<1>5. Gap(Looped(loop, measured)) = IF sp >= to THEN sp - to ELSE to - sp
  BY <1>3 DEF Gap
<1> HIDE DEF sp, eff, to
<1> QED
  BY <1>1, <1>2, <1>4, <1>5 DEF Shortened

(* Zero is its own opposite.                                               *)
LEMMA ZeroNegated == \A raw \in {0} : Negated(raw) = 0
<1>1. \A raw \in Int : -raw = 0 <=> raw = 0
  BY SMT
<1>2. \A raw \in {0} : raw \in Int /\ raw = 0
  BY SMT
<1> QED
  BY <1>1, <1>2, Zenon DEF Negated

(* A loop told to stand whose ramp has run out, on a robot that stands,    *)
(* drops its integral and returns nothing but zero.                        *)
LEMMA StandingLoop ==
  ASSUME NEW loop, LoopOK(loop), loop.setPoint = 0, loop.effSetPoint = 0
  PROVE  Looped(loop, 0) = AtRest /\ DoLoop(loop, 0) = {0}
<1>1. DiffSetPoint(loop) = 0 /\ EffSetPoint(loop) = 0
  BY LoopAssumption DEF DiffSetPoint, EffSetPoint, Clamped
<1>2. Err(loop, 0) = 0 /\ Integral(loop, 0) = 0
  BY <1>1 DEF Err, Integral
<1>3. Output(loop, 0) = 0
  <2>1. \A k \in Int : k * 0 = 0
    BY SMT
  <2>2. Kp * 0 = 0 /\ Ki * 0 = 0 /\ Kffp * 0 = 0 /\ Kffd * 0 = 0
    BY <2>1, LoopAssumption
  <2> QED
    BY <1>1, <1>2, <2>2 DEF Output
<1>4. RawOutputs(0) = {0}
  <2>1. 0 \div Unit = 0 /\ 0 \in Int16
    BY LoopAssumption DEF Int16
  <2> QED
    BY <2>1 DEF RawOutputs
<1>5. Pushed(0) = 0
  BY LoopAssumption DEF Pushed
<1>6. DoLoop(loop, 0) = {0}
  BY <1>3, <1>4, <1>5 DEF DoLoop
<1> QED
  BY <1>1, <1>2, <1>6 DEF Looped, AtRest

(* Every status that is answered shortens the gap of both ramps by the     *)
(* limit, to zero at last, whatever it reports and whether or not the      *)
(* answer is sent: a robot told to stand has run out its ramps after       *)
(* TopVel \div Accel + 1 statuses at the latest.                           *)
GapsShorten ==
  [][\A s \in Statuses : GetStatus(s) =>
       Gap(left') = Shortened(Gap(left)) /\ Gap(right') = Shortened(Gap(right))]_vars

(* Every status shortens both ramps by the limit, whatever it holds.       *)
THEOREM RampsRunOut == Spec => GapsShorten
<1> DEFINE Shorten ==
      \A s \in Statuses : GetStatus(s) =>
        Gap(left') = Shortened(Gap(left)) /\ Gap(right') = Shortened(Gap(right))
<1>1. TypeOK => Shorten
  <2> SUFFICES ASSUME TypeOK, NEW s \in Statuses, GetStatus(s)
               PROVE  Gap(left') = Shortened(Gap(left)) /\ Gap(right') = Shortened(Gap(right))
    OBVIOUS
  <2> DEFINE Ready(loop) == IF s.estop /\ ~oldEstop THEN ZeroIntegrator(loop) ELSE loop
  <2>1. left' = Looped(Ready(left), s.lVel) /\ right' = Looped(Ready(right), s.rVel)
    BY DEF GetStatus
  <2>2. /\ LoopOK(Ready(left)) /\ LoopOK(Ready(right))
        /\ Gap(Ready(left)) = Gap(left) /\ Gap(Ready(right)) = Gap(right)
    BY ZeroedOK DEF TypeOK, Gap
  <2>3. s.lVel \in Int /\ s.rVel \in Int
    BY StreamAssumption DEF AllStatuses
  <2> HIDE DEF Ready
  <2> QED
    BY <2>1, <2>2, <2>3, LoopedShortens
<1> HIDE DEF Shorten
<1>2. Spec => [][Shorten]_vars
  BY <1>1, TypeCorrect, PTL DEF Spec
<1> QED
  BY <1>2 DEF GapsShorten, Shorten

(* A packet is sent in the step that wrote it and in no other.             *)
PacketSpent == pc # "status" => packet = <<0, 0>>

(* Every step keeps PacketSpent.                                           *)
LEMMA PacketStep == PacketSpent /\ [Next]_vars => PacketSpent'
<1> SUFFICES ASSUME PacketSpent, [Next]_vars PROVE PacketSpent'
  OBVIOUS
<1>1. CASE \E s \in Statuses : GetStatus(s) \/ BridgeGetStatus(s)
  BY <1>1 DEF GetStatus, BridgeGetStatus, PacketSpent
<1>2. CASE UpdateStatus \/ BridgeUpdateStatus
  BY <1>2 DEF UpdateStatus, BridgeUpdateStatus, PacketSpent
<1> QED
  BY <1>1, <1>2
     DEF Next, Thread, vars, BoardRestarts, Construct, BridgeConstruct, Stop, BridgeStop,
         ReceiveFails, Caught, BridgeCaught, CaughtUnsent, SpinOnce, BridgeSpinOnce, PacketSpent

(* A robot told to stand whose ramps have run out is left alone: a status  *)
(* that reports it standing leaves both loops as they were constructed, no *)
(* integral among it, and its packet says zero, whatever the gains, the    *)
(* dead band and the integrals it was driven with.                         *)
Rests(loop) == loop.setPoint = 0 /\ loop.effSetPoint = 0
RestIsKept ==
  [][\A s \in Statuses :
       GetStatus(s) /\ Rests(left) /\ Rests(right) /\ s.lVel = 0 /\ s.rVel = 0 =>
         left' = AtRest /\ right' = AtRest /\ packet' = <<0, 0>>]_vars

(* Loops at rest stay at rest and send zero.                               *)
THEOREM RestStaysRest == Spec => RestIsKept
<1> DEFINE Kept ==
      \A s \in Statuses :
        GetStatus(s) /\ Rests(left) /\ Rests(right) /\ s.lVel = 0 /\ s.rVel = 0 =>
          left' = AtRest /\ right' = AtRest /\ packet' = <<0, 0>>
<1>1. TypeOK /\ PacketSpent => Kept
  <2> SUFFICES ASSUME TypeOK, PacketSpent, NEW s \in Statuses, GetStatus(s), Rests(left),
                      Rests(right), s.lVel = 0, s.rVel = 0
               PROVE  left' = AtRest /\ right' = AtRest /\ packet' = <<0, 0>>
    OBVIOUS
  <2> DEFINE Ready(loop) == IF s.estop /\ ~oldEstop THEN ZeroIntegrator(loop) ELSE loop
  <2>1. /\ left' = Looped(Ready(left), 0) /\ right' = Looped(Ready(right), 0)
        /\ \/ \E l \in DoLoop(Ready(left), 0), r \in DoLoop(Ready(right), 0) :
                packet' = <<l, Negated(r)>>
           \/ pc = "recv" /\ packet' = packet
    BY DEF GetStatus
  <2>2. /\ LoopOK(Ready(left)) /\ LoopOK(Ready(right))
        /\ Rests(Ready(left)) /\ Rests(Ready(right))
    BY ZeroedOK DEF TypeOK, Rests
  <2> HIDE DEF Ready
  <2>3. /\ left' = AtRest /\ right' = AtRest
        /\ DoLoop(Ready(left), 0) = {0} /\ DoLoop(Ready(right), 0) = {0}
    BY <2>1, <2>2, StandingLoop DEF Rests
  <2> QED
    BY <2>1, <2>3, ZeroNegated DEF PacketSpent
<1> HIDE DEF Kept
<1>2. Init => PacketSpent
  BY DEF Init, PacketSpent
<1>3. Spec => [][Kept]_vars
  BY <1>1, <1>2, PacketStep, TypeCorrect, PTL DEF Spec
<1> QED
  BY <1>3 DEF RestIsKept, Kept

(* A rising estop bit drops what the loops have summed, even if the status *)
(* that brings it cannot be answered: after it an integral holds the error *)
(* of that status alone, within its cap.  It is the number behind woundUp  *)
(* of UgvNode.                                                             *)
EstopDropsIntegral ==
  [][\A s \in Statuses : GetStatus(s) /\ s.estop /\ ~oldEstop =>
       /\ left'.integral \in {0, Clamped(Err(left, s.lVel), Cap)}
       /\ right'.integral \in {0, Clamped(Err(right, s.rVel), Cap)}]_vars

(* The edge of the estop bit drops what was summed before it.              *)
THEOREM RisingEstopDropsIntegral == Spec => EstopDropsIntegral
<1> DEFINE Drops ==
      \A s \in Statuses : GetStatus(s) /\ s.estop /\ ~oldEstop =>
        /\ left'.integral \in {0, Clamped(Err(left, s.lVel), Cap)}
        /\ right'.integral \in {0, Clamped(Err(right, s.rVel), Cap)}
<1>1. ASSUME NEW loop, LoopOK(loop), NEW measured \in Int
      PROVE  Looped(ZeroIntegrator(loop), measured).integral
               \in {0, Clamped(Err(loop, measured), Cap)}
  <2> DEFINE zeroed == ZeroIntegrator(loop)
  <2>1. /\ zeroed.setPoint = loop.setPoint /\ zeroed.effSetPoint = loop.effSetPoint
        /\ zeroed.integral = 0
    BY <1>1 DEF ZeroIntegrator, LoopOK, Loops
  <2>2. Err(zeroed, measured) = Err(loop, measured)
    BY <2>1 DEF Err, EffSetPoint, DiffSetPoint
  <2>3. Err(loop, measured) \in Int
    BY <1>1, StreamAssumption, LoopAssumption DEF Err, EffSetPoint, DiffSetPoint, Clamped, LoopOK, Loops
  <2> HIDE DEF zeroed
  <2>4. Integral(zeroed, measured) \in {0, Clamped(Err(loop, measured), Cap)}
    BY <2>1, <2>2, <2>3 DEF Integral
  <2>5. Looped(zeroed, measured).integral = Integral(zeroed, measured)
    BY DEF Looped
  <2> QED
    BY <2>4, <2>5 DEF zeroed
<1>2. TypeOK => Drops
  <2> SUFFICES ASSUME TypeOK, NEW s \in Statuses, GetStatus(s), s.estop, ~oldEstop
               PROVE  /\ left'.integral \in {0, Clamped(Err(left, s.lVel), Cap)}
                      /\ right'.integral \in {0, Clamped(Err(right, s.rVel), Cap)}
    OBVIOUS
  <2>1. /\ left' = Looped(ZeroIntegrator(left), s.lVel)
        /\ right' = Looped(ZeroIntegrator(right), s.rVel)
    BY DEF GetStatus
  <2>2. s.lVel \in Int /\ s.rVel \in Int
    BY StreamAssumption DEF AllStatuses
  <2> QED
    BY <1>1, <2>1, <2>2 DEF TypeOK
<1> HIDE DEF Drops
<1>3. Spec => [][Drops]_vars
  BY <1>2, TypeCorrect, PTL DEF Spec
<1> QED
  BY <1>3 DEF EstopDropsIntegral, Drops
=============================================================================
