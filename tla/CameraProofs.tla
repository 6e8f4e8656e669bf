---------------------------- MODULE CameraProofs ----------------------------
(***************************************************************************)
(* Proofs about Camera, for every length of a step, every range of the     *)
(* sliders and every time a frame may take.                                *)
(***************************************************************************)
EXTENDS Camera, TLAPS

(* The velocity of a step is an integer, and downwards unless the camera   *)
(* jumps or rises already: gravity acts in every step.                     *)
LEMMA VelocityFalls ==
    ASSUME TypeOK
    PROVE  /\ Velocity \in Int
           /\ ~CanJump /\ jump_velocity <= 0 => Velocity < 0
  <1>1. gravity \in Nat \ {0} /\ max_jump_velocity \in Nat \ {0} /\ jump_velocity \in Int
    BY SliderAssumption DEF TypeOK
  <1>2. MaxFall \in Nat \ {0}
    BY SliderAssumption
  <1>3. CASE CanJump
    BY <1>1, <1>2, <1>3 DEF Velocity, Accelerated
  <1>4. CASE ~CanJump
    BY <1>1, <1>2, <1>4 DEF Velocity, Accelerated
  <1> QED BY <1>3, <1>4

(* Adding times gives a time.                                              *)
LEMMA SumOfTimes == \A s, t \in Nat : s + t \in Nat
  OBVIOUS

(* The types hold for all values of the constants.                         *)
THEOREM TypeCorrect == Spec => []TypeOK
  <1>1. ASSUME Init PROVE TypeOK
    <2>1. position_y \in Int /\ jump_velocity \in Int
      BY <1>1, SliderAssumption DEF Init
    <2>2. accumulated_dt \in Nat /\ dt \in Nat /\ carried \in Nat /\ steps \in Nat
      BY <1>1 DEF Init
    <2>3. /\ should_show_cursor \in BOOLEAN /\ space \in BOOLEAN
          /\ is_on_ground \in BOOLEAN /\ moved \in BOOLEAN
      BY <1>1 DEF Init
    <2>4. /\ gravity \in Gravities /\ max_jump_velocity \in JumpVelocities /\ head_y \in HeadYs
          /\ pc \in {"time", "poll", "fixed", "draw"}
      BY <1>1 DEF Init
    <2> QED BY <2>1, <2>2, <2>3, <2>4 DEF TypeOK
  <1>2. TypeOK /\ [Next]_vars => TypeOK'
    <2> SUFFICES ASSUME TypeOK, [Next]_vars PROVE TypeOK'
      OBVIOUS
    <2>1. CASE BeginFrame
      <3>1. dt' \in Nat
        <4>1. dt' \in Dts
          BY <2>1 DEF BeginFrame
        <4> QED BY <4>1, TimeAssumption
      <3>2. accumulated_dt' \in Nat /\ carried' \in Nat /\ steps' \in Nat
        <4>1. /\ accumulated_dt' = accumulated_dt + dt'
              /\ carried' = accumulated_dt /\ steps' = 0
          BY <2>1 DEF BeginFrame
        <4>2. accumulated_dt \in Nat
          BY DEF TypeOK
        <4>3. accumulated_dt + dt' \in Nat
          BY <3>1, <4>2, SumOfTimes
        <4> QED BY <4>1, <4>2, <4>3
      <3> QED BY <2>1, <3>1, <3>2 DEF BeginFrame, TypeOK, camera, sliders
    <2>2. CASE Poll
      BY <2>2 DEF Poll, TypeOK, clock, camera, sliders
    <2>3. CASE FixedStep
      <3>1. accumulated_dt' \in Nat /\ steps' \in Nat
        BY <2>3, TimeAssumption DEF FixedStep, StepDue, Remaining, TypeOK
      <3>2. position_y' \in Int /\ jump_velocity' \in Int /\ is_on_ground' \in BOOLEAN
              /\ moved' \in BOOLEAN
        <4>1. CASE should_show_cursor
          BY <2>3, <4>1 DEF FixedStep, camera, TypeOK
        <4>2. CASE ~should_show_cursor
          <5>1. head_y \in Int /\ position_y \in Int /\ Velocity \in Int
            BY SliderAssumption, VelocityFalls DEF TypeOK
          <5>2. Fixed_update_camera
            BY <2>3, <4>2 DEF FixedStep
          <5>3. position_y' \in Int /\ jump_velocity' \in Int
            BY <5>1, <5>2 DEF Fixed_update_camera
          <5>4. is_on_ground' \in BOOLEAN /\ moved' \in BOOLEAN
            BY <5>2 DEF Fixed_update_camera
          <5> QED BY <5>3, <5>4
        <4> QED BY <4>1, <4>2
      <3> QED BY <2>3, <3>1, <3>2 DEF FixedStep, TypeOK, sliders
    <2>4. CASE EndSteps
      BY <2>4 DEF EndSteps, TypeOK, clock, camera, sliders
    <2>5. CASE DrawFrame
      BY <2>5 DEF DrawFrame, TypeOK, clock
    <2>6. CASE UNCHANGED vars
      BY <2>6 DEF vars, TypeOK
    <2> QED BY <2>1, <2>2, <2>3, <2>4, <2>5, <2>6 DEF Next
  <1> QED BY <1>1, <1>2, PTL DEF Spec

(* No time is lost or made by the fixed steps, for every step length and   *)
(* however long frames take.                                               *)
THEOREM NoTimeLost == Spec => []TimeConserved
  <1>1. Init => TimeConserved
    BY TimeAssumption DEF Init, TimeConserved
  <1>2. TypeOK /\ TimeConserved /\ [Next]_vars => TimeConserved'
    <2> SUFFICES ASSUME TypeOK, TimeConserved, [Next]_vars PROVE TimeConserved'
      OBVIOUS
    <2> USE TimeAssumption DEF TypeOK
    <2>1. CASE BeginFrame
      <3>1. /\ dt' \in Nat /\ accumulated_dt' = accumulated_dt + dt'
            /\ carried' = accumulated_dt /\ steps' = 0 /\ pc' = "poll"
        BY <2>1 DEF BeginFrame
      <3>2. steps' * fixed_update_dt = 0
        BY <3>1
      <3> QED BY <3>1, <3>2 DEF TimeConserved
    <2>2. CASE Poll
      BY <2>2 DEF Poll, clock, TimeConserved
    <2>3. CASE FixedStep
      <3>1. /\ pc = "fixed" /\ pc' = "fixed" /\ UNCHANGED <<dt, carried>>
            /\ accumulated_dt' = accumulated_dt - fixed_update_dt /\ steps' = steps + 1
        BY <2>3 DEF FixedStep, Remaining
      <3>2. (steps + 1) * fixed_update_dt = steps * fixed_update_dt + fixed_update_dt
        OBVIOUS
      <3>3. steps * fixed_update_dt \in Nat
        OBVIOUS
      <3> QED BY <3>1, <3>2, <3>3 DEF TimeConserved
    <2>4. CASE EndSteps
      BY <2>4 DEF EndSteps, StepDue, clock, TimeConserved
    <2>5. CASE DrawFrame
      BY <2>5 DEF DrawFrame, clock, TimeConserved
    <2>6. CASE UNCHANGED vars
      BY <2>6 DEF vars, TimeConserved
    <2> QED BY <2>1, <2>2, <2>3, <2>4, <2>5, <2>6 DEF Next
  <1> QED BY <1>1, <1>2, TypeCorrect, PTL DEF Spec

(* A camera that counts as standing stands and does not rise, and no other *)
(* is below the head height, unless head_y was moved since it came down.   *)
THEOREM StandingCamera == Spec => []StandsOnGround
  <1>1. Init => StandsOnGround
    BY SliderAssumption DEF Init, StandsOnGround
  <1>2. TypeOK /\ StandsOnGround /\ [Next]_vars => StandsOnGround'
    <2> SUFFICES ASSUME TypeOK, StandsOnGround, [Next]_vars PROVE StandsOnGround'
      OBVIOUS
    <2>1. CASE BeginFrame
      BY <2>1 DEF BeginFrame, camera, sliders, StandsOnGround
    <2>2. CASE Poll
      BY <2>2 DEF Poll, camera, sliders, StandsOnGround
    <2>3. CASE FixedStep
      <3>1. CASE should_show_cursor
        BY <2>3, <3>1 DEF FixedStep, camera, sliders, StandsOnGround
      <3>2. CASE ~should_show_cursor
        <4>1. head_y \in Int /\ position_y \in Int /\ Velocity \in Int
          BY SliderAssumption, VelocityFalls DEF TypeOK
        <4>2. Fixed_update_camera /\ head_y' = head_y
          BY <2>3, <3>2 DEF FixedStep, sliders
        <4>3. position_y' >= head_y
          BY <4>1, <4>2 DEF Fixed_update_camera
        <4>4. ASSUME ~moved', is_on_ground'
              PROVE  position_y' = head_y /\ jump_velocity' <= 0
          <5>1. CASE position_y + Velocity < head_y
            <6>1. position_y' = head_y /\ jump_velocity' = Velocity
              BY <4>2, <5>1 DEF Fixed_update_camera
            <6>2. Velocity < 0
              <7>1. ~moved \/ Velocity < 0
                BY <4>2, <4>4, <5>1 DEF Fixed_update_camera
              <7>2. ~moved => position_y >= head_y
                BY DEF StandsOnGround
              <7> QED BY <4>1, <5>1, <7>1, <7>2
            <6> QED BY <4>1, <6>1, <6>2
          <5>2. CASE ~(position_y + Velocity < head_y)
            <6>1. is_on_ground /\ ~CanJump /\ ~moved
              BY <4>2, <4>4, <5>2 DEF Fixed_update_camera
            <6>2. position_y = head_y /\ jump_velocity <= 0
              BY <6>1 DEF StandsOnGround
            <6>3. Velocity < 0
              BY <6>1, <6>2, VelocityFalls
            <6> QED BY <4>1, <5>2, <6>2, <6>3
          <5> QED BY <5>1, <5>2
        <4> QED BY <4>2, <4>3, <4>4 DEF StandsOnGround
      <3> QED BY <3>1, <3>2
    <2>4. CASE EndSteps
      BY <2>4 DEF EndSteps, camera, sliders, StandsOnGround
    <2>5. CASE DrawFrame
      BY <2>5 DEF DrawFrame, StandsOnGround
    <2>6. CASE UNCHANGED vars
      BY <2>6 DEF vars, StandsOnGround
    <2> QED BY <2>1, <2>2, <2>3, <2>4, <2>5, <2>6 DEF Next
  <1> QED BY <1>1, <1>2, TypeCorrect, PTL DEF Spec

-----------------------------------------------------------------------------
(* Jumps do not add up.                                                    *)

Triangle(n) == (n * (n + 1)) \div 2

(* What n steps with velocity w and gravity g add to the height.           *)
Rise(n, w, g) == n * w - g * Triangle(n)

LEMMA TriangleTwice ==
    ASSUME NEW n \in Nat
    PROVE  Triangle(n) \in Nat /\ 2 * Triangle(n) = n * (n + 1)
  <1>1. PICK k \in Nat : n = 2 * k \/ n = 2 * k + 1
    <2>1. n \div 2 \in Nat /\ (n = 2 * (n \div 2) \/ n = 2 * (n \div 2) + 1)
      OBVIOUS
    <2> QED BY <2>1
  <1>2. PICK p \in Nat : n * (n + 1) = 2 * p
    <2>1. CASE n = 2 * k
      <3>1. n * (n + 1) = 2 * (k * (n + 1)) /\ k * (n + 1) \in Nat
        BY <2>1
      <3> QED BY <3>1
    <2>2. CASE n = 2 * k + 1
      <3>1. n * (n + 1) = 2 * (n * (k + 1)) /\ n * (k + 1) \in Nat
        BY <2>2
      <3> QED BY <3>1
    <2> QED BY <1>1, <2>1, <2>2
  <1>3. (2 * p) \div 2 = p
    OBVIOUS
  <1> QED BY <1>2, <1>3 DEF Triangle

LEMMA TriangleGrows ==
    ASSUME NEW n \in Nat
    PROVE  Triangle(n + 1) = Triangle(n) + (n + 1)
  <1>1. 2 * Triangle(n) = n * (n + 1) /\ Triangle(n) \in Nat
    BY TriangleTwice
  <1>2. 2 * Triangle(n + 1) = (n + 1) * ((n + 1) + 1) /\ Triangle(n + 1) \in Nat
    BY TriangleTwice
  <1>3. (n + 1) * ((n + 1) + 1) = n * (n + 1) + 2 * (n + 1)
    OBVIOUS
  <1> QED BY <1>1, <1>2, <1>3

(* A step that loses at least g of its velocity leaves no more to rise.    *)
LEMMA RiseStep ==
    ASSUME NEW n \in Nat, NEW w \in Int, NEW g \in Nat, NEW h \in Nat, g <= h
    PROVE  (w - h) + Rise(n, w - h, g) <= Rise(n + 1, w, g)
  <1> DEFINE t == Triangle(n)
  <1>1. t \in Nat /\ Triangle(n + 1) = t + (n + 1)
    BY TriangleTwice, TriangleGrows
  <1> HIDE DEF t
  <1>2. (w - h) + n * (w - h) = (n + 1) * w - (n + 1) * h
    OBVIOUS
  <1>3. g * (t + (n + 1)) = g * t + (n + 1) * g
    BY <1>1
  <1>4. (n + 1) * g <= (n + 1) * h
    OBVIOUS
  <1>5. (w - h) + n * (w - h) - g * t <= (n + 1) * w - g * (t + (n + 1))
    <2>1. (n + 1) * g \in Int /\ (n + 1) * h \in Int /\ (n + 1) * w \in Int /\ g * t \in Int
          /\ n * (w - h) \in Int
      BY <1>1
    <2> QED BY <1>2, <1>3, <1>4, <2>1
  <1> QED BY <1>1, <1>5 DEF Rise, t

(* No number of steps rises higher than JumpHeight.                        *)
LEMMA JumpIsHighest ==
    ASSUME NEW m \in Nat, NEW v \in Nat, NEW g \in Nat \ {0}
    PROVE  Rise(m, v, g) <= JumpHeight(v, g) /\ JumpHeight(v, g) \in Int
  <1> DEFINE n == v \div g
  <1>1. n \in Nat /\ g * n <= v /\ v < g * n + g
    OBVIOUS
  <1>2. JumpHeight(v, g) = Rise(n, v, g)
    BY DEF JumpHeight, Rise, Triangle
  <1> HIDE DEF n
  <1> DEFINE s == Triangle(m)
             t == Triangle(n)
  <1>3. s \in Nat /\ 2 * s = m * (m + 1) /\ t \in Nat /\ 2 * t = n * (n + 1)
    BY <1>1, TriangleTwice
  <1> HIDE DEF s, t
  <1>4. 2 * (n * v - g * t) - 2 * (m * v - g * s) = (n - m) * (2 * v - g * (n + m + 1))
    <2>1. 2 * (g * t) = g * (n * (n + 1)) /\ 2 * (g * s) = g * (m * (m + 1))
      BY <1>1, <1>3
    <2>2. (n - m) * (2 * v - g * (n + m + 1))
            = 2 * (n * v) - 2 * (m * v) - g * (n * (n + 1)) + g * (m * (m + 1))
      BY <1>1
    <2> QED BY <1>1, <1>3, <2>1, <2>2
  <1>5. (n - m) * (2 * v - g * (n + m + 1)) >= 0
    <2>1. CASE n = m
      BY <1>1, <2>1
    <2>2. CASE n > m
      <3>1. g * (n + m + 1) <= g * (2 * n)
        BY <1>1, <2>2
      <3>2. 2 * v - g * (n + m + 1) >= 0
        BY <1>1, <3>1
      <3> QED BY <1>1, <2>2, <3>2
    <2>3. CASE n < m
      <3>1. g * (n + m + 1) >= g * (2 * n + 2)
        BY <1>1, <2>3
      <3>2. 2 * v - g * (n + m + 1) <= 0
        BY <1>1, <3>1
      <3> QED BY <1>1, <2>3, <3>2
    <2> QED BY <1>1, <2>1, <2>2, <2>3
  <1>6. m * v - g * s <= n * v - g * t
    <2>1. n * v - g * t \in Int /\ m * v - g * s \in Int
      BY <1>1, <1>3
    <2> QED BY <1>4, <1>5, <2>1
  <1>7. n * v - g * t \in Int
    BY <1>1, <1>3
  <1> QED BY <1>2, <1>6, <1>7 DEF Rise, s, t

(* With a velocity that does not rise, no number of steps gains height.    *)
LEMMA NoRise ==
    ASSUME NEW m \in Nat, NEW w \in Int, w <= 0, NEW v \in Nat, NEW g \in Nat \ {0}
    PROVE  Rise(m, w, g) <= 0 /\ Rise(m, w, g) \in Int /\ 0 <= JumpHeight(v, g)
  <1>1. Triangle(m) \in Nat /\ Triangle(0) = 0
    BY TriangleTwice DEF Triangle
  <1>2. m * w <= 0 /\ g * Triangle(m) >= 0 /\ m * w \in Int /\ g * Triangle(m) \in Int
    BY <1>1
  <1>3. Rise(0, v, g) = 0
    BY <1>1 DEF Rise
  <1>4. Rise(0, v, g) <= JumpHeight(v, g)
    BY JumpIsHighest
  <1> QED BY <1>2, <1>3, <1>4 DEF Rise

LowestGravity == CHOOSE g \in Gravities : \A h \in Gravities : g <= h

LEMMA GravityIsLowest ==
    /\ LowestGravity \in Gravities /\ LowestGravity \in Nat \ {0}
    /\ \A h \in Gravities : LowestGravity <= h
  BY SliderAssumption DEF LowestGravity

(* The camera is no higher, and with its velocity will get no higher in    *)
(* any number of steps under the lowest gravity, than one jump takes it.   *)
Reaches(y, w) ==
    \E v \in JumpVelocities :
        \A m \in Nat : y - head_y + Rise(m, w, LowestGravity) <= JumpHeight(v, LowestGravity)

JumpInv == ~moved => Reaches(position_y, jump_velocity)

LEMMA GroundReaches ==
    ASSUME TypeOK, NEW w \in Int, w <= 0
    PROVE  Reaches(head_y, w)
  <1>1. max_jump_velocity \in JumpVelocities /\ max_jump_velocity \in Nat /\ head_y \in Int
    BY SliderAssumption DEF TypeOK
  <1>2. ASSUME NEW m \in Nat
        PROVE  head_y - head_y + Rise(m, w, LowestGravity)
                 <= JumpHeight(max_jump_velocity, LowestGravity)
    <2>1. /\ Rise(m, w, LowestGravity) <= 0 /\ Rise(m, w, LowestGravity) \in Int
          /\ 0 <= JumpHeight(max_jump_velocity, LowestGravity)
      BY <1>1, GravityIsLowest, NoRise
    <2>2. JumpHeight(max_jump_velocity, LowestGravity) \in Int
      BY <1>1, GravityIsLowest, JumpIsHighest
    <2> QED BY <1>1, <2>1, <2>2
  <1> QED BY <1>1, <1>2 DEF Reaches

(* A step from a height y and a velocity w that reach no higher than a     *)
(* jump leads to such a height and velocity again.                         *)
LEMMA ReachesStep ==
    ASSUME TypeOK, NEW y \in Int, NEW w \in Int, Reaches(y, w), NEW u \in Int,
           u = w - gravity \/ u <= 0
    PROVE  Reaches(y + u, u)
  <1>1. /\ gravity \in Nat /\ LowestGravity <= gravity /\ head_y \in Int
        /\ LowestGravity \in Nat \ {0}
    BY SliderAssumption, GravityIsLowest DEF TypeOK
  <1> DEFINE g == LowestGravity
  <1>2. PICK v \in JumpVelocities :
           \A m \in Nat : y - head_y + Rise(m, w, g) <= JumpHeight(v, g)
    BY DEF Reaches
  <1>3. v \in Nat /\ JumpHeight(v, g) \in Int
    BY <1>1, SliderAssumption, JumpIsHighest
  <1> HIDE DEF g
  <1>4. ASSUME NEW m \in Nat
        PROVE  (y + u) - head_y + Rise(m, u, g) <= JumpHeight(v, g)
    <2>1. Triangle(m) \in Nat /\ Triangle(m + 1) \in Nat /\ Triangle(0) = 0
      BY TriangleTwice DEF Triangle
    <2>2. Rise(m, u, g) \in Int /\ Rise(m + 1, w, g) \in Int
      BY <1>1, <2>1 DEF Rise, g
    <2>3. CASE u = w - gravity
      <3>1. u + Rise(m, u, g) <= Rise(m + 1, w, g)
        BY <1>1, <2>3, RiseStep DEF g
      <3>2. y - head_y + Rise(m + 1, w, g) <= JumpHeight(v, g)
        BY <1>2
      <3> QED BY <1>1, <1>3, <2>2, <3>1, <3>2
    <2>4. CASE u <= 0
      <3>1. Rise(m, u, g) <= 0
        BY <1>1, <1>3, <2>4, NoRise DEF g
      <3>2. Rise(0, w, g) = 0
        BY <1>1, <2>1 DEF Rise, g
      <3>3. y - head_y + Rise(0, w, g) <= JumpHeight(v, g)
        BY <1>2
      <3> QED BY <1>1, <1>3, <2>2, <2>4, <3>1, <3>2, <3>3
    <2> QED BY <2>3, <2>4
  <1> QED BY <1>4 DEF Reaches, g

LEMMA JumpStep ==
    ASSUME TypeOK, StandsOnGround, JumpInv, [Next]_vars
    PROVE  JumpInv'
  <1>1. CASE BeginFrame \/ Poll \/ EndSteps
    BY <1>1 DEF BeginFrame, Poll, EndSteps, camera, sliders, JumpInv, Reaches
  <1>2. CASE FixedStep
    <2>1. CASE should_show_cursor
      BY <1>2, <2>1 DEF FixedStep, camera, sliders, JumpInv, Reaches
    <2>2. CASE ~should_show_cursor
      <3>1. Fixed_update_camera /\ head_y' = head_y
        BY <1>2, <2>2 DEF FixedStep, sliders
      <3>2. /\ head_y \in Int /\ position_y \in Int /\ jump_velocity \in Int /\ Velocity \in Int
            /\ gravity \in Nat /\ max_jump_velocity \in Nat /\ MaxFall \in Nat
        BY SliderAssumption, VelocityFalls DEF TypeOK
      <3>3. ASSUME ~moved' PROVE Reaches(position_y', jump_velocity')
        <4>1. CASE position_y + Velocity < head_y
          <5>1. position_y' = head_y /\ jump_velocity' = Velocity
            BY <3>1, <4>1 DEF Fixed_update_camera
          <5>2. Velocity <= 0
            <6>1. ~moved \/ Velocity < 0
              BY <3>1, <3>3, <4>1 DEF Fixed_update_camera
            <6>2. ~moved => position_y >= head_y
              BY DEF StandsOnGround
            <6> QED BY <3>2, <4>1, <6>1, <6>2
          <5>3. Reaches(head_y, Velocity)
            BY <3>2, <5>2, GroundReaches
          <5> QED BY <5>1, <5>3
        <4>2. CASE ~(position_y + Velocity < head_y)
          <5>1. ~moved /\ position_y' = position_y + Velocity /\ jump_velocity' = Velocity
            BY <3>1, <3>3, <4>2 DEF Fixed_update_camera
          <5>2. CASE CanJump
            <6>1. position_y = head_y
              BY <5>1, <5>2 DEF CanJump, StandsOnGround
            <6>2. Velocity = max_jump_velocity - gravity \/ Velocity <= 0
              BY <3>2, <5>2 DEF Velocity, Accelerated
            <6>3. Reaches(head_y, max_jump_velocity)
              <7>1. max_jump_velocity \in JumpVelocities
                BY DEF TypeOK
              <7>2. ASSUME NEW m \in Nat
                    PROVE  head_y - head_y + Rise(m, max_jump_velocity, LowestGravity)
                             <= JumpHeight(max_jump_velocity, LowestGravity)
                <8>1. Triangle(m) \in Nat
                  BY TriangleTwice
                <8>2. Rise(m, max_jump_velocity, LowestGravity) \in Int
                  BY <3>2, <8>1, GravityIsLowest DEF Rise
                <8>3. /\ Rise(m, max_jump_velocity, LowestGravity)
                            <= JumpHeight(max_jump_velocity, LowestGravity)
                      /\ JumpHeight(max_jump_velocity, LowestGravity) \in Int
                  BY <3>2, GravityIsLowest, JumpIsHighest
                <8> QED BY <3>2, <8>2, <8>3
              <7> QED BY <7>1, <7>2 DEF Reaches
            <6> QED BY <3>2, <5>1, <6>1, <6>2, <6>3, ReachesStep
          <5>3. CASE ~CanJump
            <6>1. Velocity = jump_velocity - gravity \/ Velocity <= 0
              BY <3>2, <5>3 DEF Velocity, Accelerated
            <6>2. Reaches(position_y, jump_velocity)
              BY <5>1 DEF JumpInv
            <6> QED BY <3>2, <5>1, <6>1, <6>2, ReachesStep
          <5> QED BY <5>2, <5>3
        <4> QED BY <4>1, <4>2
      <3> QED BY <3>1, <3>3 DEF JumpInv, Reaches
    <2> QED BY <2>1, <2>2
  <1>3. CASE DrawFrame
    BY <1>3 DEF DrawFrame, JumpInv, Reaches
  <1>4. CASE UNCHANGED vars
    BY <1>4 DEF vars, JumpInv, Reaches
  <1> QED BY <1>1, <1>2, <1>3, <1>4 DEF Next

(* JumpsDoNotAddUp: with any sliders in any ranges, jumps that are held    *)
(* through any number of fixed steps take the camera no higher than one.   *)
THEOREM JumpsStayApart == Spec => []JumpsDoNotAddUp
  <1>1. TypeOK /\ Init => JumpInv
    <2> SUFFICES ASSUME TypeOK, Init PROVE JumpInv
      OBVIOUS
    <2>1. position_y = head_y /\ jump_velocity = 0 /\ 0 \in Int /\ 0 <= 0
      BY DEF Init
    <2> QED BY <2>1, GroundReaches DEF JumpInv
  <1>2. TypeOK /\ JumpInv => JumpsDoNotAddUp
    <2> SUFFICES ASSUME TypeOK, JumpInv, ~moved
                 PROVE  \E v \in JumpVelocities, g \in Gravities :
                           position_y - head_y <= JumpHeight(v, g)
      BY DEF JumpsDoNotAddUp
    <2>1. PICK v \in JumpVelocities :
             \A m \in Nat : position_y - head_y + Rise(m, jump_velocity, LowestGravity)
                              <= JumpHeight(v, LowestGravity)
      BY DEF JumpInv, Reaches
    <2>2. Rise(0, jump_velocity, LowestGravity) = 0
      <3>1. Triangle(0) = 0
        BY DEF Triangle
      <3> QED BY <3>1, GravityIsLowest DEF Rise, TypeOK
    <2>3. position_y \in Int /\ head_y \in Int
      BY SliderAssumption DEF TypeOK
    <2>4. position_y - head_y <= JumpHeight(v, LowestGravity)
      BY <2>1, <2>2, <2>3
    <2> QED BY <2>4, GravityIsLowest
  <1> QED
    BY <1>1, <1>2, TypeCorrect, StandingCamera, JumpStep, PTL DEF Spec
=============================================================================
