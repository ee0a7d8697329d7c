---------------------------- MODULE UgvNodeProofs ----------------------------
(***************************************************************************)
(* Theorems about UgvNode, for every timeout, decimation, top speed, set   *)
(* of topics and set of lamps, and, where ~SendsFail is not assumed,       *)
(* whether sends fail or not.                                              *)
(***************************************************************************)
EXTENDS UgvNode, TLAPS

(* A bounded count stays within its bound and goes up by at most one.      *)
LEMMA IncrementedFacts ==
  ASSUME NEW bound \in Nat, NEW n \in 0 .. bound
  PROVE  /\ Incremented(n, bound) \in 0 .. bound
         /\ Incremented(n, bound) = IF n = bound THEN n ELSE n + 1
  BY DEF Incremented, AtMost

(* The bounds are natural numbers.                                         *)
LEMMA Bounds == AgeBound \in Nat /\ CounterBound \in Nat /\ QuietBound \in Nat
  BY NodeAssumption DEF AgeBound, CounterBound, QuietBound

(* Setting one lamp leaves a set of lamps that are looked at.              *)
LEMMA LitType ==
  ASSUME out \subseteq Lamps, NEW lamp, NEW yes \in BOOLEAN
  PROVE  Lit(lamp, yes) \subseteq Lamps
  BY DEF Lit

(* The ramp stays between the set points it has been given.                *)
LEMMA FollowedType ==
  ASSUME setPoint \in Speeds, effSetPoint \in Speeds
  PROVE  Followed \in Speeds
  BY NodeAssumption DEF Followed, Speeds

(* A callback leaves spinOnce or stays in it, and calls nothing new.       *)
LEMMA CalledBack ==
  ASSUME pc = "callbacks", due \in BOOLEAN, NEW callback,
         Returned(callback) \/ Threw(callback)
  PROVE  pc' \in {"callbacks", "recv"} /\ batch' \subseteq batch /\ due' \in BOOLEAN
<1>1. CASE Returned(callback)
  BY <1>1 DEF Returned
<1>2. CASE Threw(callback)
  <2> DEFINE held == "watchdog" \in batch
  <2>1. due' = held
    BY <1>2, Zenon DEF Threw
  <2>2. held \in BOOLEAN
    <3>1. CASE "watchdog" \in batch
      BY <3>1, SMT
    <3>2. CASE "watchdog" \notin batch
      BY <3>2, SMT
    <3>3. QED BY <3>1, <3>2
  <2> HIDE DEF held
  <2>3. due' \in BOOLEAN
    BY <2>1, <2>2
  <2>4. QED BY <1>2, <2>3 DEF Threw
<1>3. QED BY <1>1, <1>2

----------------------------------------------------------------------------
(* A node that was constructed holds a socket: without it Stop could close *)
(* one that was never opened, and TypeOK would not be inductive.           *)

Unconnected == {"start", "unconnected", "exit"}
Connected == pc \notin Unconnected => openSockets > 0
TypeInv == TypeOK /\ Connected

(* The node starts with the types of TypeInv.                              *)
LEMMA TypeInit == Init => TypeInv
<1> SUFFICES ASSUME Init
             PROVE  TypeInv
  OBVIOUS
<1> USE NodeAssumption DEF Init
<1>1. status \in Statuses
  BY DEF NoStatus, Statuses, Batteries
<1>2. setPoint \in Speeds /\ effSetPoint \in Speeds
  BY DEF Speeds
<1>3. /\ openSockets \in 0 .. FdLimit
      /\ decimateCounter \in 0 .. VbatEstopDecimation - 1 /\ quiet \in 0 .. QuietBound
      /\ cmdVelTimeoutCounter \in 0 .. CounterBound /\ age \in 0 .. AgeBound
  BY DEF QuietBound, CounterBound, AgeBound
<1>4. /\ woundUp \in BOOLEAN /\ oldEstop \in BOOLEAN /\ estopState \in BOOLEAN
      /\ due \in BOOLEAN /\ lightsEnabled \in BOOLEAN /\ flashOn \in BOOLEAN
  OBVIOUS
<1>5. QED BY <1>1, <1>2, <1>3, <1>4 DEF TypeInv, TypeOK, Connected, Unconnected

(* Every step keeps TypeInv.                                               *)
LEMMA TypeStep == TypeInv /\ [Next]_vars => TypeInv'
<1> SUFFICES ASSUME TypeInv, [Next]_vars
             PROVE  TypeInv'
  OBVIOUS
<1> USE DEF TypeInv, TypeOK, Connected, Unconnected, wheel, estop, watch, lights
<1>1. CASE ConstructFails
  <2>1. openSockets' \in 0 .. FdLimit
    BY <1>1, NodeAssumption DEF ConstructFails, AtMost
  <2>2. dout' \subseteq Lamps
    BY <1>1 DEF ConstructFails
  <2>3. QED BY <1>1, <2>1, <2>2 DEF ConstructFails
<1>2. CASE Construct
  BY <1>2, NodeAssumption DEF Construct
<1>3. CASE StopUnconnected
  BY <1>3 DEF StopUnconnected
<1>4. CASE Tick
  <2>1. age' \in 0 .. AgeBound
    BY <1>4, IncrementedFacts, Bounds DEF Tick
  <2>2. QED BY <1>4, <2>1 DEF Tick
<1>5. ASSUME NEW s \in Statuses, GetStatus(s)
      PROVE  TypeInv'
  <2>1. PICK sent \in Sends, moving \in BOOLEAN :
          /\ DriveLoop(s, moving, sent)
          /\ IF sent THEN pc' = "status" /\ status' = s
                     ELSE pc' = "caught" /\ UNCHANGED status
    BY <1>5 DEF GetStatus
  <2>2. setPoint' = setPoint /\ effSetPoint' \in Speeds
    BY <2>1, FollowedType DEF DriveLoop
  <2>3. woundUp' \in BOOLEAN /\ oldEstop' \in BOOLEAN
    BY <2>1 DEF DriveLoop, Statuses
  <2>4. status' \in Statuses /\ pc' \in {"status", "caught"}
    BY <2>1
  <2>5. QED BY <1>5, <2>2, <2>3, <2>4 DEF GetStatus
<1>6. CASE ReceiveFails
  BY <1>6 DEF ReceiveFails
<1>7. CASE UpdateStatus
  <2>1. quiet' \in 0 .. QuietBound
    BY <1>7, IncrementedFacts, Bounds DEF UpdateStatus
  <2>2. decimateCounter' \in 0 .. VbatEstopDecimation - 1 /\ estopState' \in BOOLEAN
    BY <1>7, NodeAssumption DEF UpdateStatus, Statuses
  <2>3. out' \subseteq Lamps
    BY <1>7 DEF UpdateStatus, Lit
  <2>4. pc' \in {"flash", "caught"}
    BY <1>7 DEF UpdateStatus
  <2>5. QED BY <1>7, <2>1, <2>2, <2>3, <2>4 DEF UpdateStatus
<1>8. CASE FlashLights
  <2>1. flashOn' \in BOOLEAN
    BY <1>8 DEF FlashLights
  <2>2. lightsEnabled' \in BOOLEAN /\ dout' \subseteq Lamps /\ pc' \in {"lights", "caught"}
    BY <1>8, NodeAssumption DEF FlashLights, SetLightsEnabled
  <2>3. QED BY <1>8, <2>1, <2>2 DEF FlashLights
<1>9. CASE ShowLights
  <2>1. dout' \subseteq Lamps /\ pc' \in {"spinOnce", "caught"}
    BY <1>9 DEF ShowLights, UpdateLights
  <2>2. QED BY <1>9, <2>1 DEF ShowLights
<1>10. CASE Caught
  BY <1>10 DEF Caught
<1>11. CASE SpinOnce
  <2>1. batch' \subseteq Topics \cup FlashTimer \cup {"watchdog"}
    BY <1>11 DEF SpinOnce
  <2>2. QED BY <1>11, <2>1 DEF SpinOnce
<1>12. ASSUME NEW v \in Speeds, CmdVelCallback(v)
       PROVE  TypeInv'
  <2>1. setPoint' \in Speeds
    BY <1>12, NodeAssumption DEF CmdVelCallback, Speeds
  <2>2. cmdVelTimeoutCounter' \in 0 .. CounterBound /\ age' \in 0 .. AgeBound
    BY <1>12, Bounds DEF CmdVelCallback
  <2>3. QED BY <1>12, <2>1, <2>2 DEF CmdVelCallback, Called, Returned
<1>13. CASE CmdVelTimeoutCallback
  <2>1. setPoint' \in Speeds
    BY <1>13, NodeAssumption DEF CmdVelTimeoutCallback, Speeds
  <2>2. cmdVelTimeoutCounter' \in 0 .. CounterBound
    BY <1>13, IncrementedFacts, Bounds DEF CmdVelTimeoutCallback
  <2>3. QED BY <1>13, <2>1, <2>2 DEF CmdVelTimeoutCallback, Called, Returned
<1>14. ASSUME NEW callback, LightsCalled(callback), out' \subseteq Lamps, safetyState' \in Safety
       PROVE  TypeInv'
  <2>1. dout' \subseteq Lamps /\ pc = "callbacks" /\ (Returned(callback) \/ Threw(callback))
    BY <1>14 DEF LightsCalled, UpdateLights, Called
  <2>2. pc' \in {"callbacks", "recv"} /\ batch' \subseteq batch /\ due' \in BOOLEAN
    BY <2>1, CalledBack
  <2>3. QED BY <1>14, <2>1, <2>2 DEF LightsCalled, Called
<1>15. ASSUME NEW s \in Safety, SafetyCallback(s)
       PROVE  TypeInv'
  <2>1. CASE s \in {"off", "on"}
    BY <1>14, <1>15, <2>1, LitType DEF SafetyCallback
  <2>2. CASE s \notin {"off", "on"}
    BY <1>15, <2>2 DEF SafetyCallback, Called, Returned
  <2>3. QED BY <2>1, <2>2
<1>16. CASE SafetyFlashCallback
  <2>1. CASE safetyState = "flashing"
    BY <1>14, <1>16, <2>1, LitType DEF SafetyFlashCallback
  <2>2. CASE safetyState # "flashing"
    BY <1>16, <2>2 DEF SafetyFlashCallback, Called, Returned
  <2>3. QED BY <2>1, <2>2
<1>17. ASSUME NEW lit \in SUBSET Lamps, ColourCallback(lit)
       PROVE  TypeInv'
  BY <1>14, <1>17 DEF ColourCallback
<1>18. ASSUME NEW yes \in BOOLEAN, BlueCallback(yes)
       PROVE  TypeInv'
  BY <1>14, <1>18, LitType DEF BlueCallback
<1>19. ASSUME NEW callback \in AllTopics, PanCallback(callback)
       PROVE  TypeInv'
  <2>1. pc = "callbacks" /\ (Returned(callback) \/ Threw(callback))
    BY <1>19 DEF PanCallback, Called
  <2>2. pc' \in {"callbacks", "recv"} /\ batch' \subseteq batch /\ due' \in BOOLEAN
    BY <2>1, CalledBack
  <2>3. QED BY <1>19, <2>1, <2>2 DEF PanCallback, Called
<1>20. CASE SpinDone
  BY <1>20 DEF SpinDone
<1>21. CASE Stop
  <2>1. lightsEnabled' \in BOOLEAN /\ dout' \subseteq Lamps
    BY <1>21 DEF Stop, SetLightsEnabled
  <2>2. openSockets' \in 0 .. FdLimit
    BY <1>21, NodeAssumption DEF Stop
  <2>3. QED BY <1>21, <2>1, <2>2 DEF Stop
<1>22. CASE UNCHANGED vars
  BY <1>22 DEF vars
<1>23. QED
  BY <1>1, <1>2, <1>3, <1>4, <1>5, <1>6, <1>7, <1>8, <1>9, <1>10, <1>11, <1>12, <1>13,
     <1>15, <1>16, <1>17, <1>18, <1>19, <1>20, <1>21, <1>22
  DEF Next, Startup, Thread, Loop, Callbacks

(* TypeInv holds in every state.                                           *)
LEMMA TypeInvariant == Spec => []TypeInv
<1>1. QED BY TypeInit, TypeStep, PTL DEF Spec

(* Every variable of the node keeps its type, and every counter its bound. *)
THEOREM TypeCorrect == Spec => []TypeOK
<1>1. TypeInv => TypeOK
  BY DEF TypeInv
<1>2. QED BY <1>1, TypeInvariant, PTL

----------------------------------------------------------------------------
(* Which action changes what.  Every later proof uses these instead of     *)
(* looking at each action again.                                           *)

(* What all callbacks have in common.                                      *)
LEMMA CallbackFrame ==
  ASSUME Callbacks
  PROVE  /\ pc = "callbacks"
         /\ UNCHANGED <<effSetPoint, woundUp, oldEstop, status, estop, lightsEnabled>>
<1> USE DEF Called, lights, estop
<1>1. ASSUME NEW v \in Speeds, CmdVelCallback(v)
      PROVE  pc = "callbacks" /\ UNCHANGED <<effSetPoint, woundUp, oldEstop, status, estop,
                                             lightsEnabled>>
  BY <1>1 DEF CmdVelCallback
<1>2. CASE CmdVelTimeoutCallback
  BY <1>2 DEF CmdVelTimeoutCallback
<1>3. ASSUME \E s \in Safety : SafetyCallback(s)
      PROVE  pc = "callbacks" /\ UNCHANGED <<effSetPoint, woundUp, oldEstop, status, estop,
                                             lightsEnabled>>
  BY <1>3 DEF SafetyCallback, LightsCalled
<1>4. CASE SafetyFlashCallback
  BY <1>4 DEF SafetyFlashCallback, LightsCalled
<1>5. ASSUME (\E lit \in SUBSET Lamps : ColourCallback(lit))
             \/ (\E yes \in BOOLEAN : BlueCallback(yes))
      PROVE  pc = "callbacks" /\ UNCHANGED <<effSetPoint, woundUp, oldEstop, status, estop,
                                             lightsEnabled>>
  BY <1>5 DEF ColourCallback, BlueCallback, LightsCalled
<1>6. ASSUME \E callback \in AllTopics : PanCallback(callback)
      PROVE  pc = "callbacks" /\ UNCHANGED <<effSetPoint, woundUp, oldEstop, status, estop,
                                             lightsEnabled>>
  BY <1>6 DEF PanCallback
<1>7. QED BY <1>1, <1>2, <1>3, <1>4, <1>5, <1>6 DEF Callbacks

(* estopState and its decimation change with a status only.                *)
LEMMA EstopSteps ==
  ASSUME [Next]_vars
  PROVE  UpdateStatus \/ UNCHANGED estop
<1>1. CASE Callbacks
  BY <1>1, CallbackFrame
<1>2. CASE Startup \/ StopUnconnected \/ Tick \/ SpinOnce \/ SpinDone \/ Stop
  BY <1>2 DEF Startup, ConstructFails, Construct, StopUnconnected, Tick, SpinOnce, SpinDone,
              Stop
<1>3. CASE Loop
  BY <1>3 DEF Loop, GetStatus, ReceiveFails, FlashLights, ShowLights, Caught
<1>4. CASE UNCHANGED vars
  BY <1>4 DEF vars
<1>5. QED BY <1>1, <1>2, <1>3, <1>4 DEF Next, Thread

(* The integral and the remembered estop bit change with a packet only.    *)
LEMMA IntegralSteps ==
  ASSUME [Next]_vars
  PROVE  (\E s \in Statuses : GetStatus(s)) \/ UNCHANGED <<woundUp, oldEstop>>
<1>1. CASE Callbacks
  BY <1>1, CallbackFrame
<1>2. CASE Startup \/ StopUnconnected \/ Tick \/ SpinOnce \/ SpinDone \/ Stop
  BY <1>2 DEF Startup, ConstructFails, Construct, StopUnconnected, Tick, SpinOnce, SpinDone,
              Stop, wheel
<1>3. CASE Loop
  BY <1>3 DEF Loop, ReceiveFails, UpdateStatus, FlashLights, ShowLights, Caught, wheel
<1>4. CASE UNCHANGED vars
  BY <1>4 DEF vars, wheel
<1>5. QED BY <1>1, <1>2, <1>3, <1>4 DEF Next, Thread

----------------------------------------------------------------------------
(* EstopFresh is not inductive: it must be known that the statuses seen    *)
(* since one with the bit set are no more than the decimation has counted. *)

QuietCounted == estopState => quiet <= decimateCounter

(* Every step keeps QuietCounted.                                          *)
LEMMA QuietStep == TypeInv /\ QuietCounted /\ [Next]_vars => QuietCounted'
<1> SUFFICES ASSUME TypeInv, QuietCounted, [Next]_vars
             PROVE  QuietCounted'
  OBVIOUS
<1>1. CASE UNCHANGED estop
  BY <1>1 DEF estop, QuietCounted
<1>2. CASE UpdateStatus
  <2>1. quiet' = 0 \/ (~status.estop /\ quiet' <= quiet + 1)
    BY <1>2, IncrementedFacts, Bounds DEF UpdateStatus, TypeInv, TypeOK
  <2>2. \/ decimateCounter' = 0 /\ estopState' = status.estop
        \/ decimateCounter' = decimateCounter + 1 /\ estopState' = estopState
    BY <1>2 DEF UpdateStatus
  <2>3. quiet \in Nat /\ decimateCounter \in Nat /\ quiet' \in Nat
    <3>1. TypeInv'
      BY TypeStep
    <3>2. QED BY <3>1, Bounds, NodeAssumption DEF TypeInv, TypeOK
  <2>4. CASE decimateCounter' = 0 /\ estopState' = status.estop
    BY <2>1, <2>3, <2>4 DEF QuietCounted
  <2>5. CASE decimateCounter' = decimateCounter + 1 /\ estopState' = estopState
    BY <2>1, <2>3, <2>5 DEF QuietCounted
  <2>6. QED BY <2>2, <2>4, <2>5
<1>3. QED BY <1>1, <1>2, EstopSteps

(* cmd_vel is never obeyed by an estop bit older than the decimation.      *)
THEOREM EstopStaysFresh == Spec => []EstopFresh
<1>1. Init => QuietCounted
  BY DEF Init, QuietCounted
<1>2. TypeInv /\ QuietCounted /\ [Next]_vars => QuietCounted'
  BY QuietStep
<1>3. TypeInv /\ QuietCounted => EstopFresh
  BY NodeAssumption DEF TypeInv, TypeOK, QuietCounted, EstopFresh
<1>4. QED BY <1>1, <1>2, <1>3, TypeInvariant, PTL DEF Spec

(* Every step keeps IntegralFresh, which is inductive as it stands.        *)
LEMMA IntegralStep == TypeInv /\ IntegralFresh /\ [Next]_vars => IntegralFresh'
<1> SUFFICES ASSUME TypeInv, IntegralFresh, [Next]_vars
             PROVE  IntegralFresh'
  OBVIOUS
<1>1. CASE UNCHANGED <<woundUp, oldEstop>>
  BY <1>1 DEF IntegralFresh
<1>2. ASSUME NEW s \in Statuses, GetStatus(s)
      PROVE  IntegralFresh'
  <2>1. PICK moving \in BOOLEAN :
          /\ woundUp' = (/\ setPoint # 0 \/ moving
                         /\ (woundUp /\ ~(s.estop /\ ~oldEstop)) \/ ~s.estop)
          /\ oldEstop' = s.estop
    BY <1>2 DEF GetStatus, DriveLoop
  <2>2. QED BY <2>1 DEF IntegralFresh
<1>3. QED BY <1>1, <1>2, IntegralSteps

(* While the estop bit is set the integral is free of older error.         *)
THEOREM IntegralStaysFresh == Spec => []IntegralFresh
<1>1. Init => IntegralFresh
  BY DEF Init, IntegralFresh
<1>2. QED BY <1>1, IntegralStep, TypeInvariant, PTL DEF Spec
----------------------------------------------------------------------------
(* The flag and the lamps change together, packet by packet: inductive as  *)
(* it stands.                                                              *)
LEMMA DarkStep == DarkWhenDisabled /\ [Next]_vars => DarkWhenDisabled'
<1> SUFFICES ASSUME DarkWhenDisabled, [Next]_vars
             PROVE  DarkWhenDisabled'
  OBVIOUS
<1> USE DEF DarkWhenDisabled
<1>1. ASSUME UNCHANGED <<lightsEnabled, dout>>
      PROVE  DarkWhenDisabled'
  BY <1>1
<1>2. ASSUME NEW enabled \in BOOLEAN, NEW sent \in BOOLEAN, SetLightsEnabled(enabled, sent)
      PROVE  DarkWhenDisabled'
  BY <1>2 DEF SetLightsEnabled
<1>3. ASSUME NEW sent \in BOOLEAN, UpdateLights(sent), UNCHANGED lightsEnabled
      PROVE  DarkWhenDisabled'
  BY <1>3 DEF UpdateLights
<1>4. Sends \subseteq BOOLEAN
  BY DEF Sends
<1>5. ASSUME NEW callback, LightsCalled(callback)
      PROVE  DarkWhenDisabled'
  BY <1>3, <1>4, <1>5 DEF LightsCalled
<1>6. CASE ConstructFails
  BY <1>6 DEF ConstructFails
<1>7. CASE Construct
  BY <1>7 DEF Construct
<1>8. CASE FlashLights
  <2>1. PICK enabled \in BOOLEAN, sent \in Sends : SetLightsEnabled(enabled, sent)
    BY <1>8, NodeAssumption DEF FlashLights
  <2>2. QED BY <1>2, <1>4, <2>1
<1>9. CASE ShowLights
  BY <1>3, <1>4, <1>9 DEF ShowLights
<1>10. CASE Stop
  BY <1>2, <1>4, <1>10 DEF Stop
<1>11. CASE Callbacks
  <2>1. ASSUME NEW v \in Speeds, CmdVelCallback(v)
        PROVE  DarkWhenDisabled'
    BY <1>1, <2>1 DEF CmdVelCallback, lights
  <2>2. CASE CmdVelTimeoutCallback
    BY <1>1, <2>2 DEF CmdVelTimeoutCallback, lights
  <2>3. ASSUME NEW s \in Safety, SafetyCallback(s)
        PROVE  DarkWhenDisabled'
    BY <1>1, <1>5, <2>3 DEF SafetyCallback
  <2>4. CASE SafetyFlashCallback
    BY <1>1, <1>5, <2>4 DEF SafetyFlashCallback
  <2>5. ASSUME NEW lit \in SUBSET Lamps, ColourCallback(lit)
        PROVE  DarkWhenDisabled'
    BY <1>5, <2>5 DEF ColourCallback
  <2>6. ASSUME NEW yes \in BOOLEAN, BlueCallback(yes)
        PROVE  DarkWhenDisabled'
    BY <1>5, <2>6 DEF BlueCallback
  <2>7. ASSUME NEW callback \in AllTopics, PanCallback(callback)
        PROVE  DarkWhenDisabled'
    BY <1>1, <2>7 DEF PanCallback, lights
  <2>8. QED BY <1>11, <2>1, <2>2, <2>3, <2>4, <2>5, <2>6, <2>7 DEF Callbacks
<1>12. CASE StopUnconnected \/ Tick \/ SpinOnce \/ SpinDone \/ UNCHANGED vars
  BY <1>1, <1>12 DEF StopUnconnected, Tick, SpinOnce, SpinDone, vars, lights
<1>13. ASSUME \/ \E s \in Statuses : GetStatus(s)
              \/ ReceiveFails \/ UpdateStatus \/ Caught
       PROVE  DarkWhenDisabled'
  BY <1>1, <1>13 DEF GetStatus, ReceiveFails, UpdateStatus, Caught, lights
<1>14. QED BY <1>6, <1>7, <1>8, <1>9, <1>10, <1>11, <1>12, <1>13
  DEF Next, Startup, Thread, Loop

(* The lamps are dark whenever the node believes them disabled, whichever  *)
(* sends fail.                                                             *)
THEOREM DisabledStaysDark == Spec => []DarkWhenDisabled
<1>1. Init => DarkWhenDisabled
  BY DEF Init, DarkWhenDisabled
<1>2. QED BY <1>1, DarkStep, PTL DEF Spec

(* Only the destructor makes a node that exits, and it turns the lamps off. *)
LEMMA ExitStep ==
  ~SendsFail /\ DarkWhenDisabled /\ ExitDark /\ [Next]_vars => ExitDark'
<1> SUFFICES ASSUME ~SendsFail, DarkWhenDisabled, ExitDark, [Next]_vars, pc' = "exit"
             PROVE  dout' = {}
  BY DEF ExitDark
<1>1. CASE Stop
  <2>1. SetLightsEnabled(FALSE, TRUE)
    BY <1>1 DEF Stop, Sends
  <2>2. QED BY <2>1 DEF SetLightsEnabled, DarkWhenDisabled
<1>2. CASE Tick \/ UNCHANGED vars
  BY <1>2 DEF Tick, vars, lights, ExitDark
<1>3. CASE Startup \/ StopUnconnected
  BY <1>3 DEF Startup, ConstructFails, Construct, StopUnconnected
<1>4. CASE Loop \/ SpinOnce \/ SpinDone
  BY <1>4 DEF Loop, GetStatus, ReceiveFails, UpdateStatus, FlashLights, ShowLights, Caught,
              SpinOnce, SpinDone
<1>5. CASE Callbacks
  <2>1. pc' \in {"callbacks", "recv"}
    BY <1>5 DEF Callbacks, CmdVelCallback, CmdVelTimeoutCallback, SafetyCallback,
                SafetyFlashCallback, ColourCallback, BlueCallback, PanCallback, LightsCalled,
                Called, Returned, Threw
  <2>2. QED BY <2>1
<1>6. QED BY <1>1, <1>2, <1>3, <1>4, <1>5 DEF Next, Thread

(* With a network that sends the node leaves the lamps dark when it exits, *)
(* whatever callbacks set them and whether lights were wanted or not.      *)
THEOREM ExitsDark == ~SendsFail /\ Spec => []ExitDark
<1>1. Init => ExitDark
  BY DEF Init, ExitDark
<1>2. ASSUME ~SendsFail
      PROVE  Spec => []ExitDark
  <2>1. DarkWhenDisabled /\ ExitDark /\ [Next]_vars => ExitDark'
    BY <1>2, ExitStep
  <2>2. QED BY <1>1, <2>1, DisabledStaysDark, PTL DEF Spec
<1>3. QED BY <1>2
----------------------------------------------------------------------------
(* The watchdog.  Five kinds of steps are all it sees: a tick, a command,  *)
(* its own call, the start of spinOnce, another callback; Elsewhere is any *)
(* other step, which may begin or end a round but moves no callback.       *)

OtherCallbacks == (AllTopics \ {"cmd_vel"}) \cup {"safetyFlash"}

CalledOther(callback) ==
  /\ pc = "callbacks"
  /\ UNCHANGED <<setPoint, watch>>
  /\ Returned(callback) \/ (SendsFail /\ Threw(callback))

Elsewhere ==
  /\ UNCHANGED <<setPoint, watch, due, batch>>
  /\ pc' = "callbacks" => pc = "callbacks"
  /\ pc = "callbacks" /\ pc' # "callbacks" => batch = {}
  /\ pc' \in {"start", "recv"} => SendsFail \/ pc \in {"start", "recv", "callbacks"}

(* Every step of the node is of one of these kinds.                        *)
LEMMA WatchdogSteps ==
  ASSUME [Next]_vars
  PROVE  \/ Tick \/ SpinOnce \/ CmdVelTimeoutCallback
         \/ \E v \in Speeds : CmdVelCallback(v)
         \/ \E callback \in OtherCallbacks : CalledOther(callback)
         \/ Elsewhere
<1>1. ASSUME NEW callback, LightsCalled(callback)
      PROVE  CalledOther(callback)
  BY <1>1 DEF LightsCalled, CalledOther, Called, Sends, Sent
<1>2. ASSUME \/ \E s \in Safety : SafetyCallback(s)
             \/ SafetyFlashCallback
             \/ \E lit \in SUBSET Lamps : ColourCallback(lit)
             \/ \E yes \in BOOLEAN : BlueCallback(yes)
      PROVE  \E callback \in OtherCallbacks : CalledOther(callback)
  <2>1. {"safety", "safetyFlash", "colour", "blue"} \subseteq OtherCallbacks
    BY DEF OtherCallbacks, AllTopics
  <2>2. \E callback \in {"safety", "safetyFlash", "colour", "blue"} : CalledOther(callback)
    <3>1. ASSUME NEW s \in Safety, SafetyCallback(s)
          PROVE  CalledOther("safety")
      BY <1>1, <3>1 DEF SafetyCallback, CalledOther, Called
    <3>2. ASSUME SafetyFlashCallback
          PROVE  CalledOther("safetyFlash")
      BY <1>1, <3>2 DEF SafetyFlashCallback, CalledOther, Called
    <3>3. ASSUME NEW lit \in SUBSET Lamps, ColourCallback(lit)
          PROVE  CalledOther("colour")
      BY <1>1, <3>3 DEF ColourCallback
    <3>4. ASSUME NEW yes \in BOOLEAN, BlueCallback(yes)
          PROVE  CalledOther("blue")
      BY <1>1, <3>4 DEF BlueCallback
    <3>5. QED BY <1>2, <3>1, <3>2, <3>3, <3>4
  <2>3. QED BY <2>1, <2>2
<1>3. ASSUME NEW callback \in AllTopics, PanCallback(callback)
      PROVE  callback \in OtherCallbacks /\ CalledOther(callback)
  BY <1>3 DEF PanCallback, OtherCallbacks, CalledOther, Called, Sends
<1>4. CASE Startup \/ StopUnconnected \/ SpinDone \/ Stop
  BY <1>4 DEF Startup, ConstructFails, Construct, StopUnconnected, SpinDone, Stop, Elsewhere,
              wheel
<1>5. CASE Loop
  <2>1. ASSUME NEW s \in Statuses, GetStatus(s)
        PROVE  Elsewhere
    BY <2>1 DEF GetStatus, DriveLoop, Elsewhere
  <2>2. CASE Caught
    BY <2>2 DEF Caught, Elsewhere, wheel, Sends
  <2>3. CASE ReceiveFails \/ UpdateStatus \/ FlashLights \/ ShowLights
    BY <2>3 DEF ReceiveFails, UpdateStatus, FlashLights, ShowLights, Elsewhere, wheel
  <2>4. QED BY <1>5, <2>1, <2>2, <2>3 DEF Loop
<1>6. CASE UNCHANGED vars
  BY <1>6 DEF vars, wheel, Elsewhere
<1>7. QED BY <1>2, <1>3, <1>4, <1>5, <1>6 DEF Next, Thread, Callbacks

(* A watchdog that waits, in the timer or in the batch.                    *)
Pending == due \/ "watchdog" \in batch

(* Where it can wait: not in both, and, if no send fails, nowhere when a   *)
(* round begins.                                                           *)
WaitsInOnePlace ==
  /\ pc = "callbacks" => ~due
  /\ pc # "callbacks" => batch = {}
  /\ ~SendsFail /\ pc \in {"start", "recv"} => ~due

(* Another callback neither loses nor raises the watchdog.                 *)
LEMMA OtherCallbackKeepsWatchdog ==
  ASSUME WaitsInOnePlace, NEW callback \in OtherCallbacks, CalledOther(callback)
  PROVE  WaitsInOnePlace' /\ (Pending' <=> Pending)
<1>1. callback # "watchdog" /\ pc = "callbacks" /\ ~due
  BY DEF OtherCallbacks, AllTopics, CalledOther, WaitsInOnePlace
<1>2. CASE Returned(callback)
  BY <1>1, <1>2 DEF Returned, WaitsInOnePlace, Pending
<1>3. CASE SendsFail /\ Threw(callback)
  <2>1. pc' = "recv" /\ batch' = {} /\ SendsFail
    BY <1>3 DEF Threw
  <2>2. due' <=> "watchdog" \in batch
    BY <1>3, Zenon DEF Threw
  <2>3. WaitsInOnePlace'
    BY <2>1 DEF WaitsInOnePlace
  <2>4. QED BY <1>1, <2>1, <2>2, <2>3 DEF Pending
<1>4. QED BY <1>2, <1>3 DEF CalledOther

(* Every step keeps WaitsInOnePlace.                                       *)
LEMMA WaitsStep == TypeInv /\ WaitsInOnePlace /\ [Next]_vars => WaitsInOnePlace'
<1> SUFFICES ASSUME TypeInv, WaitsInOnePlace, [Next]_vars
             PROVE  WaitsInOnePlace'
  OBVIOUS
<1>1. CASE Tick \/ SpinOnce
  BY <1>1 DEF Tick, SpinOnce, WaitsInOnePlace
<1>2. ASSUME CmdVelTimeoutCallback \/ \E v \in Speeds : CmdVelCallback(v)
      PROVE  WaitsInOnePlace'
  BY <1>2 DEF CmdVelTimeoutCallback, CmdVelCallback, Called, Returned, WaitsInOnePlace
<1>3. CASE Elsewhere
  BY <1>3 DEF Elsewhere, WaitsInOnePlace
<1>4. QED BY <1>1, <1>2, <1>3, OtherCallbackKeepsWatchdog, WatchdogSteps

(* WaitsInOnePlace holds in every state.                                   *)
LEMMA WaitsAlways == Spec => []WaitsInOnePlace
<1>1. Init => WaitsInOnePlace
  BY DEF Init, WaitsInOnePlace
<1>2. QED BY <1>1, WaitsStep, TypeInvariant, PTL DEF Spec

----------------------------------------------------------------------------
(* The counter never runs ahead of time by more than the call that waits.  *)

Counted == cmdVelTimeoutCounter + (IF Pending THEN 1 ELSE 0) <= age + 1

(* The bounds on the two counts, as arithmetic.                            *)
LEMMA CountTypes ==
  ASSUME TypeInv
  PROVE  /\ CmdVelTimeout \in Nat /\ cmdVelTimeoutCounter \in Nat /\ age \in Nat
         /\ cmdVelTimeoutCounter <= CmdVelTimeout + 2 /\ age <= CmdVelTimeout + 3
  BY NodeAssumption DEF TypeInv, TypeOK, CounterBound, AgeBound

(* A tick.                                                                 *)
LEMMA TickFacts ==
  ASSUME TypeInv, Tick
  PROVE  /\ age' = IF age = CmdVelTimeout + 3 THEN age ELSE age + 1
         /\ Pending' /\ UNCHANGED <<setPoint, cmdVelTimeoutCounter, batch>>
  BY IncrementedFacts, Bounds DEF TypeInv, TypeOK, Tick, AgeBound, Pending, wheel

(* The watchdog's own call.                                                *)
LEMMA WatchdogFacts ==
  ASSUME TypeInv, WaitsInOnePlace, CmdVelTimeoutCallback
  PROVE  /\ Pending /\ ~Pending' /\ age' = age
         /\ cmdVelTimeoutCounter' <= cmdVelTimeoutCounter + 1
         /\ setPoint' = IF cmdVelTimeoutCounter > CmdVelTimeout THEN 0 ELSE setPoint
<1>1. Pending /\ ~Pending'
  BY DEF WaitsInOnePlace, CmdVelTimeoutCallback, Called, Returned, Pending
<1>2. cmdVelTimeoutCounter' <= cmdVelTimeoutCounter + 1
  BY IncrementedFacts, Bounds DEF TypeInv, TypeOK, CmdVelTimeoutCallback, CounterBound
<1>3. QED BY <1>1, <1>2 DEF CmdVelTimeoutCallback

(* spinOnce takes the waiting watchdog over, and nothing else touches it.  *)
LEMMA PendingKept ==
  ASSUME WaitsInOnePlace, SpinOnce \/ Elsewhere
  PROVE  (Pending' <=> Pending) /\ UNCHANGED <<setPoint, watch>>
<1>1. CASE SpinOnce
  <2>1. batch = {} /\ UNCHANGED <<setPoint, watch>>
    BY <1>1 DEF SpinOnce, WaitsInOnePlace, wheel
  <2>2. PICK arrived \in SUBSET (Topics \cup FlashTimer) :
          batch' = arrived \cup (IF due THEN {"watchdog"} ELSE {})
    BY <1>1 DEF SpinOnce
  <2>3. "watchdog" \notin arrived
    BY NodeAssumption DEF AllTopics, FlashTimer
  <2>4. due' = FALSE
    BY <1>1 DEF SpinOnce
  <2>5. QED BY <2>1, <2>2, <2>3, <2>4 DEF Pending
<1>2. CASE Elsewhere
  BY <1>2 DEF Elsewhere, Pending
<1>3. QED BY <1>1, <1>2

(* Every step keeps Counted.                                               *)
LEMMA CountedStep ==
  TypeInv /\ WaitsInOnePlace /\ Counted /\ [Next]_vars => Counted'
<1> SUFFICES ASSUME TypeInv, WaitsInOnePlace, Counted, [Next]_vars
             PROVE  Counted'
  OBVIOUS
<1> USE CountTypes DEF Counted
<1>1. CASE Tick
  BY <1>1, TickFacts
<1>2. CASE CmdVelTimeoutCallback
  <2>1. TypeInv'
    BY TypeStep
  <2>2. cmdVelTimeoutCounter' \in Nat
    BY <2>1, Bounds DEF TypeInv, TypeOK
  <2>3. QED BY <1>2, <2>2, WatchdogFacts
<1>3. ASSUME NEW v \in Speeds, CmdVelCallback(v)
      PROVE  Counted'
  BY <1>3 DEF CmdVelCallback
<1>4. CASE SpinOnce \/ Elsewhere
  BY <1>4, PendingKept DEF watch
<1>5. ASSUME NEW callback \in OtherCallbacks, CalledOther(callback)
      PROVE  Counted'
  BY <1>5, OtherCallbackKeepsWatchdog DEF CalledOther, watch
<1>6. QED BY <1>1, <1>2, <1>3, <1>4, <1>5, WatchdogSteps

(* The watchdog takes no velocity before its time, whichever sends fail and *)
(* in whichever order spinOnce calls it and a command.                     *)
THEOREM WatchdogIsPatient == Spec => WatchdogPatient
<1> DEFINE Patient ==
      setPoint # 0 /\ "watchdog" \in batch /\ "watchdog" \notin batch' /\ setPoint' = 0
        => age > CmdVelTimeout
<1>1. Init => Counted
  BY DEF Init, Counted, Pending
<1>2. TypeInv /\ WaitsInOnePlace /\ Counted /\ [Next]_vars => Patient
  <2> SUFFICES ASSUME TypeInv, WaitsInOnePlace, Counted, [Next]_vars,
                      setPoint # 0, "watchdog" \in batch, "watchdog" \notin batch',
                      setPoint' = 0
               PROVE  age > CmdVelTimeout
    OBVIOUS
  <2>1. CASE CmdVelTimeoutCallback
    BY <2>1, WatchdogFacts, CountTypes DEF Counted
  <2>2. ASSUME NEW v \in Speeds, CmdVelCallback(v)
        PROVE  FALSE
    BY <2>2 DEF CmdVelCallback, Returned
  <2>3. CASE Tick \/ SpinOnce \/ Elsewhere
    BY <2>3, TickFacts, PendingKept
  <2>4. ASSUME NEW callback \in OtherCallbacks, CalledOther(callback)
        PROVE  FALSE
    BY <2>4 DEF CalledOther
  <2>5. QED BY <2>1, <2>2, <2>3, <2>4, WatchdogSteps
<1> HIDE DEF Patient
<1>3. Spec => [][Patient]_vars
  BY <1>1, <1>2, CountedStep, TypeInvariant, WaitsAlways, PTL DEF Spec
<1>4. QED BY <1>3 DEF WatchdogPatient, Patient

----------------------------------------------------------------------------
(* The refinement of VelocityLease.  While a velocity is set, time since   *)
(* its command is counted but for the call that waits, and the count has   *)
(* not passed the timeout.                                                 *)

LeaseHeld ==
  setPoint # 0 =>
    /\ cmdVelTimeoutCounter <= CmdVelTimeout + 1
    /\ age <= cmdVelTimeoutCounter + (IF Pending THEN 1 ELSE 0)

(* Without failing sends every step keeps LeaseHeld.                       *)
LEMMA LeaseHeldStep ==
  ~SendsFail /\ TypeInv /\ WaitsInOnePlace /\ LeaseHeld /\ [Next]_vars => LeaseHeld'
<1> SUFFICES ASSUME ~SendsFail, TypeInv, WaitsInOnePlace, LeaseHeld, [Next]_vars
             PROVE  LeaseHeld'
  OBVIOUS
<1> USE CountTypes DEF LeaseHeld
<1>1. CASE Tick
  <2>1. ~Pending
    BY <1>1 DEF Tick, WaitsInOnePlace, Pending
  <2>2. QED BY <1>1, <2>1, TickFacts
<1>2. CASE CmdVelTimeoutCallback
  <2>1. cmdVelTimeoutCounter < CmdVelTimeout + 2
          => cmdVelTimeoutCounter' = cmdVelTimeoutCounter + 1
    BY <1>2, IncrementedFacts, Bounds DEF TypeInv, TypeOK, CmdVelTimeoutCallback, CounterBound
  <2>2. QED BY <1>2, <2>1, WatchdogFacts
<1>3. ASSUME NEW v \in Speeds, CmdVelCallback(v)
      PROVE  LeaseHeld'
  BY <1>3 DEF CmdVelCallback
<1>4. CASE SpinOnce \/ Elsewhere
  BY <1>4, PendingKept DEF watch
<1>5. ASSUME NEW callback \in OtherCallbacks, CalledOther(callback)
      PROVE  LeaseHeld'
  BY <1>5, OtherCallbackKeepsWatchdog DEF CalledOther, watch
<1>6. QED BY <1>1, <1>2, <1>3, <1>4, <1>5, WatchdogSteps

(* Without failing sends every step of the node is a step of the lease or none.*)
LEMMA LeaseStep ==
  ~SendsFail /\ TypeInv /\ WaitsInOnePlace /\ LeaseHeld /\ [Next]_vars
    => [L!LeaseNext]_L!leaseVars
<1> SUFFICES ASSUME ~SendsFail, TypeInv, WaitsInOnePlace, LeaseHeld, [Next]_vars
             PROVE  L!LeaseNext \/ UNCHANGED L!leaseVars
  OBVIOUS
<1> USE DEF L!LeaseNext, L!leaseVars
<1>1. CASE Tick
  <2>1. ~Pending
    BY <1>1 DEF Tick, WaitsInOnePlace, Pending
  <2>2. setPoint # 0 => age < LeasePeriods
    BY <2>1, CountTypes DEF LeaseHeld, LeasePeriods
  <2>3. QED BY <1>1, <2>2, TickFacts DEF L!Pass
<1>2. CASE CmdVelTimeoutCallback
  BY <1>2, WatchdogFacts DEF L!Expire
<1>3. ASSUME NEW v \in Speeds, CmdVelCallback(v)
      PROVE  L!LeaseNext
  <2>1. \E w \in Speeds : setPoint' = w /\ age' = 0
    <3>1. 0 \in Speeds
      BY NodeAssumption DEF Speeds
    <3>2. QED BY <1>3, <3>1 DEF CmdVelCallback
  <2>2. QED BY <2>1 DEF L!Command
<1>4. CASE SpinOnce \/ Elsewhere
  BY <1>4, PendingKept DEF watch
<1>5. ASSUME NEW callback \in OtherCallbacks, CalledOther(callback)
      PROVE  UNCHANGED L!leaseVars
  BY <1>5 DEF CalledOther, watch
<1>6. QED BY <1>1, <1>2, <1>3, <1>4, <1>5, WatchdogSteps

(* With a network that sends, the node implements VelocityLease: no        *)
(* velocity outlives its command by more than CmdVelTimeout + 2 periods, for *)
(* every timeout and every topic beside it.                                *)
THEOREM NodeLeasesVelocity == ~SendsFail /\ Spec => VelocityLeased
<1>1. Init => LeaseHeld /\ L!Stopped
  BY DEF Init, LeaseHeld, L!Stopped
<1>2. ASSUME ~SendsFail
      PROVE  Spec => L!Stopped /\ [][L!LeaseNext]_L!leaseVars
  <2>1. TypeInv /\ WaitsInOnePlace /\ LeaseHeld /\ [Next]_vars => LeaseHeld'
    BY <1>2, LeaseHeldStep
  <2>2. TypeInv /\ WaitsInOnePlace /\ LeaseHeld /\ [Next]_vars => [L!LeaseNext]_L!leaseVars
    BY <1>2, LeaseStep
  <2>3. QED BY <1>1, <2>1, <2>2, TypeInvariant, WaitsAlways, PTL DEF Spec
<1>3. QED BY <1>2 DEF VelocityLeased, L!Lease

(* So with a network that sends, no wheel packet goes out for a velocity   *)
(* whose last command is older than the watchdog allows: the promise the   *)
(* code breaks, WheelsFollowFresh, is broken by the failing sends alone.   *)
THEOREM FreshUnlessSendsFail == ~SendsFail /\ Spec => WheelsFollowFresh
<1> DEFINE Fresh == setPoint # 0 /\ pc # "status" /\ pc' = "status" => age <= LeasePeriods
<1>1. Init => LeaseHeld
  BY DEF Init, LeaseHeld
<1>2. TypeInv /\ LeaseHeld => Fresh
  BY CountTypes DEF LeaseHeld, LeasePeriods
<1> HIDE DEF Fresh
<1>3. ASSUME ~SendsFail
      PROVE  Spec => [][Fresh]_vars
  <2>1. TypeInv /\ WaitsInOnePlace /\ LeaseHeld /\ [Next]_vars => LeaseHeld'
    BY <1>3, LeaseHeldStep
  <2>2. QED BY <1>1, <1>2, <2>1, TypeInvariant, WaitsAlways, PTL DEF Spec
<1>4. QED BY <1>3 DEF WheelsFollowFresh, Fresh

----------------------------------------------------------------------------
(* The velocity.  Only a command and the watchdog set the set point, and   *)
(* only a status packet moves the wheels.                                  *)

(* Every step is one of those three kinds, or touches no velocity.         *)
LEMMA VelocitySteps ==
  ASSUME [Next]_vars
  PROVE  \/ UNCHANGED <<setPoint, effSetPoint>>
         \/ setPoint' = setPoint /\ effSetPoint' = Followed
         \/ /\ UNCHANGED effSetPoint
            /\ CmdVelTimeoutCallback \/ \E v \in Speeds : CmdVelCallback(v)
<1>1. CASE Tick \/ SpinOnce
  BY <1>1 DEF Tick, SpinOnce, wheel
<1>2. ASSUME CmdVelTimeoutCallback \/ \E v \in Speeds : CmdVelCallback(v)
      PROVE  UNCHANGED effSetPoint
  BY <1>2 DEF CmdVelTimeoutCallback, CmdVelCallback, Called
<1>3. CASE Callbacks
  <2>1. UNCHANGED effSetPoint
    BY <1>3, CallbackFrame
  <2>2. pc = "callbacks"
    BY <1>3, CallbackFrame
  <2>3. ASSUME NEW callback, LightsCalled(callback)
        PROVE  UNCHANGED setPoint
    BY <2>3 DEF LightsCalled
  <2>4. \/ UNCHANGED setPoint
        \/ CmdVelTimeoutCallback \/ \E v \in Speeds : CmdVelCallback(v)
    BY <1>3, <2>3 DEF Callbacks, SafetyCallback, SafetyFlashCallback, ColourCallback,
                      BlueCallback, PanCallback
  <2>5. QED BY <2>1, <2>4
<1>4. CASE Startup \/ StopUnconnected \/ SpinDone \/ Stop
  BY <1>4 DEF Startup, ConstructFails, Construct, StopUnconnected, SpinDone, Stop, wheel
<1>5. CASE Loop
  <2>1. ASSUME NEW s \in Statuses, GetStatus(s)
        PROVE  setPoint' = setPoint /\ effSetPoint' = Followed
    BY <2>1 DEF GetStatus, DriveLoop
  <2>2. CASE ReceiveFails \/ UpdateStatus \/ FlashLights \/ ShowLights \/ Caught
    BY <2>2 DEF ReceiveFails, UpdateStatus, FlashLights, ShowLights, Caught, wheel
  <2>3. QED BY <1>5, <2>1, <2>2 DEF Loop
<1>6. CASE UNCHANGED vars
  BY <1>6 DEF vars, wheel
<1>7. QED BY <1>1, <1>3, <1>4, <1>5, <1>6 DEF Next, Thread

(* The node uses its control loop as RampOutline says, which StatusStream, *)
(* with the velocities and both wheels, implements: whatever is commanded, *)
(* expires or fails to be sent, the wheels move one step towards the set   *)
(* point for each status answered and not otherwise.                       *)
Ramps == INSTANCE RampOutline

(* The ramp of the node is that of RampOutline, step by step.              *)
THEOREM NodeFollowsRamp == Spec => Ramps!Ramp
<1>1. Init => Ramps!Standing
  BY DEF Init, Ramps!Standing
<1>2. TypeInv /\ [Next]_vars =>
        [Ramps!SetVel \/ Ramps!Follow]_<<setPoint, effSetPoint>>
  <2> SUFFICES ASSUME TypeInv, [Next]_vars
               PROVE  \/ Ramps!SetVel \/ Ramps!Follow
                      \/ UNCHANGED <<setPoint, effSetPoint>>
    OBVIOUS
  <2>1. setPoint' \in Int
    <3>1. TypeInv'
      BY TypeStep
    <3>2. QED BY <3>1, NodeAssumption DEF TypeInv, TypeOK, Speeds
  <2>2. QED BY <2>1, VelocitySteps DEF Followed, Ramps!SetVel, Ramps!Follow
<1>3. QED BY <1>1, <1>2, TypeInvariant, PTL DEF Spec, Ramps!Ramp

(* Once a full decimation of statuses had the estop bit clear, no callback *)
(* gives the robot a velocity, and the next cmd_vel that is called stops it: *)
(* commands that keep coming keep the watchdog quiet but not the robot     *)
(* moving.  EstopStops rests on this step, and this step on EstopFresh.    *)
EstopTakesOver ==
  [][quiet >= VbatEstopDecimation =>
       /\ setPoint' \in {0, setPoint}
       /\ "cmd_vel" \in batch \ batch' /\ pc' = "callbacks" => setPoint' = 0]_vars

(* Under an estop sampled in time a cmd_vel gives no velocity.             *)
THEOREM EstopStopsCommands == Spec => EstopTakesOver
<1> DEFINE TakesOver ==
      quiet >= VbatEstopDecimation =>
        /\ setPoint' \in {0, setPoint}
        /\ "cmd_vel" \in batch \ batch' /\ pc' = "callbacks" => setPoint' = 0
<1>1. TypeInv /\ WaitsInOnePlace /\ EstopFresh /\ [Next]_vars => TakesOver
  <2> SUFFICES ASSUME TypeInv, WaitsInOnePlace, EstopFresh, [Next]_vars,
                      quiet >= VbatEstopDecimation
               PROVE  /\ setPoint' \in {0, setPoint}
                      /\ "cmd_vel" \in batch \ batch' /\ pc' = "callbacks" => setPoint' = 0
    OBVIOUS
  <2>1. ~estopState
    BY NodeAssumption, Bounds DEF TypeInv, TypeOK, EstopFresh
  <2>2. ASSUME NEW v \in Speeds, CmdVelCallback(v)
        PROVE  setPoint' = 0
    BY <2>1, <2>2 DEF CmdVelCallback
  <2>3. CASE CmdVelTimeoutCallback
    BY <2>3 DEF CmdVelTimeoutCallback, Returned
  <2>4. ASSUME NEW callback \in OtherCallbacks, CalledOther(callback)
        PROVE  setPoint' = setPoint /\ ("cmd_vel" \in batch \ batch' => pc' # "callbacks")
    BY <2>4 DEF OtherCallbacks, CalledOther, Returned, Threw
  <2>5. CASE Tick \/ Elsewhere
    BY <2>5 DEF Tick, Elsewhere, wheel
  <2>6. CASE SpinOnce
    BY <2>6 DEF SpinOnce, wheel, WaitsInOnePlace
  <2>7. QED BY <2>2, <2>3, <2>4, <2>5, <2>6, WatchdogSteps
<1> HIDE DEF TakesOver
<1>2. Spec => [][TakesOver]_vars
  BY <1>1, TypeInvariant, WaitsAlways, EstopStaysFresh, PTL DEF Spec
<1>3. QED BY <1>2 DEF EstopTakesOver, TakesOver

----------------------------------------------------------------------------
(* A constructor that fails leaves its socket open; when that was the last *)
(* descriptor, no later constructor succeeds.  So RetryConnects does not   *)
(* just fail on one behaviour: the state it fails in is one the node never *)
(* leaves, whatever the board does from then on.                           *)
Exhausted == pc \in {"start", "unconnected"} /\ openSockets >= FdLimit

(* A node out of descriptors never connects again.                         *)
THEOREM ExhaustedForever == Spec => [](Exhausted => []Exhausted)
<1>1. TypeInv /\ Exhausted /\ [Next]_vars => Exhausted'
  <2> SUFFICES ASSUME TypeInv, Exhausted, [Next]_vars
               PROVE  Exhausted'
    OBVIOUS
  <2>1. openSockets \in Nat /\ FdLimit \in Nat
    BY NodeAssumption DEF TypeInv, TypeOK
  <2>2. CASE ConstructFails
    BY <2>1, <2>2 DEF ConstructFails, Exhausted, AtMost
  <2>3. CASE Construct
    BY <2>1, <2>3 DEF Construct, Exhausted
  <2>4. CASE StopUnconnected \/ UNCHANGED vars
    BY <2>4 DEF StopUnconnected, Exhausted, vars
  <2>5. pc \notin {"recv", "late", "status", "flash", "lights", "caught", "spinOnce", "callbacks"}
    BY DEF Exhausted
  <2>6. ASSUME Callbacks
        PROVE  FALSE
    BY <2>5, <2>6, CallbackFrame
  <2>7. ASSUME Tick \/ Loop \/ SpinOnce \/ SpinDone \/ Stop
        PROVE  FALSE
    BY <2>5, <2>7 DEF Tick, Loop, GetStatus, ReceiveFails, UpdateStatus, FlashLights,
                      ShowLights, Caught, SpinOnce, SpinDone, Stop
  <2>8. QED BY <2>2, <2>3, <2>4, <2>6, <2>7 DEF Next, Startup, Thread
<1>2. QED BY <1>1, TypeInvariant, PTL DEF Spec
=============================================================================
