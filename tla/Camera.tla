------------------------------- MODULE Camera -------------------------------
(***************************************************************************)
(* Time and height of the camera: the main loop turns the time that has    *)
(* passed into fixed steps, each step moves a jumping or standing camera,  *)
(* and between two frames the user drags the sliders those steps read.     *)
(* Escape shows the cursor and pauses the camera, but not the clock.       *)
(*                                                                         *)
(* Times are in ticks of the clock; heights and velocities in units of     *)
(* what the smallest gravity takes off the velocity in one step.  How the  *)
(* camera turns and walks is left out: update_camera_fps restores the      *)
(* height it found.                                                        *)
(***************************************************************************)
EXTENDS Integers

CONSTANTS fixed_update_dt, \* ticks in a fixed step
          Dts,             \* ticks a frame may take
          Gravities, JumpVelocities, HeadYs, \* the ranges of the sliders
          MaxFall          \* bound: a falling camera gets no faster than this

ASSUME TimeAssumption == fixed_update_dt \in Nat \ {0} /\ Dts \subseteq Nat \ {0}
ASSUME SliderAssumption ==
    /\ Gravities \subseteq Nat \ {0} /\ JumpVelocities \subseteq Nat \ {0}
    /\ HeadYs \subseteq Int /\ MaxFall \in Nat \ {0}
    /\ \E g \in Gravities : \A h \in Gravities : g <= h

VARIABLES accumulated_dt,
          should_show_cursor,
          space,              \* is_key_down(KEY_SPACE)
          position_y, jump_velocity, is_on_ground,
          gravity, max_jump_velocity, head_y,
          pc,                 \* the part of the loop body to run next
          (* History, for the properties only. *)
          dt, carried,        \* what this frame took, and what was left of the last one
          steps,              \* the fixed steps of this frame
          moved               \* head_y was moved since the camera last came down on it

camera == <<position_y, jump_velocity, is_on_ground, moved>>
sliders == <<gravity, max_jump_velocity, head_y>>
clock == <<accumulated_dt, dt, carried, steps>>
vars == <<accumulated_dt, should_show_cursor, space, position_y, jump_velocity, is_on_ground,
          gravity, max_jump_velocity, head_y, pc, dt, carried, steps, moved>>

(* The sliders start with the defaults of Camera, values in their ranges.   *)
Init ==
    /\ accumulated_dt = 0
    /\ should_show_cursor = FALSE /\ space = FALSE
    /\ gravity \in Gravities /\ max_jump_velocity \in JumpVelocities /\ head_y \in HeadYs
    /\ position_y = head_y /\ jump_velocity = 0 /\ is_on_ground = TRUE
    /\ pc = "time"
    /\ dt = 0 /\ carried = 0 /\ steps = 0 /\ moved = FALSE

(* The loop body up to platform_poll_events *)
BeginFrame ==
    /\ pc = "time"
    /\ dt' \in Dts
    /\ accumulated_dt' = accumulated_dt + dt'
    /\ carried' = accumulated_dt /\ steps' = 0
    /\ pc' = "poll"
    /\ UNCHANGED <<should_show_cursor, space, camera, sliders>>

(* The keys of this frame: the space bar, and Escape for the cursor *)
Poll ==
    /\ pc = "poll"
    /\ space' \in BOOLEAN
    /\ should_show_cursor' \in BOOLEAN
    /\ pc' = "fixed"
    /\ UNCHANGED <<clock, camera, sliders>>

-----------------------------------------------------------------------------
(* fixed_update_camera_fps *)

CanJump_Anywhere == space

CanJump == space /\ is_on_ground

Accelerated == (IF CanJump THEN max_jump_velocity ELSE jump_velocity) - gravity

(* With or without a jump, gravity acts in the same step.                  *)
Velocity == IF Accelerated < -MaxFall THEN -MaxFall ELSE Accelerated

Fixed_update_camera_NoLanding ==
    /\ jump_velocity' = Velocity
    /\ position_y' = IF position_y + Velocity < head_y THEN head_y ELSE position_y + Velocity
    /\ is_on_ground' = (is_on_ground /\ ~CanJump)
    /\ UNCHANGED moved

Fixed_update_camera_Unclamped ==
    /\ jump_velocity' = Velocity
    /\ position_y' = position_y + Velocity
    /\ is_on_ground' = (position_y + Velocity < head_y \/ (is_on_ground /\ ~CanJump))
    /\ moved' = (moved /\ ~is_on_ground')

Fixed_update_camera ==
    LET y == position_y + Velocity
    IN  /\ jump_velocity' = Velocity
        /\ position_y' = IF y < head_y THEN head_y ELSE y
        /\ is_on_ground' = (y < head_y \/ (is_on_ground /\ ~CanJump))
        /\ moved' = (moved /\ ~(y < head_y /\ Velocity < 0))

StepDue_AnyTime == accumulated_dt > 0

StepDue == accumulated_dt >= fixed_update_dt

Remaining_Dropped == 0

Remaining == accumulated_dt - fixed_update_dt

(* An iteration of the loop over the accumulated time; the camera stands   *)
(* still while the cursor is shown.                                        *)
FixedStep ==
    /\ pc = "fixed" /\ StepDue
    /\ IF should_show_cursor THEN UNCHANGED camera ELSE Fixed_update_camera
    /\ accumulated_dt' = Remaining
    /\ steps' = steps + 1
    /\ UNCHANGED <<should_show_cursor, space, sliders, pc, dt, carried>>

EndSteps ==
    /\ pc = "fixed" /\ ~StepDue
    /\ pc' = "draw"
    /\ UNCHANGED <<should_show_cursor, space, clock, camera, sliders>>

(* draw_imgui_stuff: at most one slider is dragged in a frame.             *)
DrawFrame ==
    /\ pc = "draw"
    /\ \/ /\ gravity' \in Gravities
          /\ UNCHANGED <<max_jump_velocity, head_y, moved>>
       \/ /\ max_jump_velocity' \in JumpVelocities
          /\ UNCHANGED <<gravity, head_y, moved>>
       \/ /\ head_y' \in HeadYs \ {head_y} /\ moved' = TRUE
          /\ UNCHANGED <<gravity, max_jump_velocity>>
    /\ pc' = "time"
    /\ UNCHANGED <<should_show_cursor, space, clock, position_y, jump_velocity, is_on_ground>>

Next == BeginFrame \/ Poll \/ FixedStep \/ EndSteps \/ DrawFrame

Spec == Init /\ [][Next]_vars

(* The loop is one thread that keeps running.                              *)
FairSpec == Spec /\ WF_vars(Next)

-----------------------------------------------------------------------------
TypeOK ==
    /\ accumulated_dt \in Nat /\ dt \in Nat /\ carried \in Nat /\ steps \in Nat
    /\ should_show_cursor \in BOOLEAN /\ space \in BOOLEAN
    /\ position_y \in Int /\ jump_velocity \in Int
    /\ is_on_ground \in BOOLEAN /\ moved \in BOOLEAN
    /\ gravity \in Gravities /\ max_jump_velocity \in JumpVelocities /\ head_y \in HeadYs
    /\ pc \in {"time", "poll", "fixed", "draw"}

(* No time is lost or made: what a frame took and what was left over       *)
(* before it is either stepped or left over again, and less than a step is *)
(* left when the frame is drawn (main.cpp:461-462, 510-515).               *)
TimeConserved ==
    /\ pc # "time" => steps * fixed_update_dt + accumulated_dt = carried + dt
    /\ pc \in {"draw", "time"} => accumulated_dt < fixed_update_dt

(* A camera that counts as standing stands on the head height and does not *)
(* rise, and one that does not is above it; so nobody jumps from the air.  *)
(* The exception the code makes: after head_y was moved, until the camera  *)
(* comes down again, it may count as standing and rise, or hang above.     *)
StandsOnGround ==
    ~moved => /\ position_y >= head_y
              /\ is_on_ground => position_y = head_y /\ jump_velocity <= 0

(* The height of a jump that leaves with velocity v under gravity g.       *)
JumpHeight(v, g) == LET n == v \div g IN n * v - g * ((n * (n + 1)) \div 2)

(* No camera gets higher above the head height than one jump with the      *)
(* highest velocity takes it, whatever is dragged in between: jumps do not *)
(* add up (camera.cpp:65-81).  Moving head_y is excepted as above.         *)
JumpsDoNotAddUp ==
    ~moved => \E v \in JumpVelocities, g \in Gravities : position_y - head_y <= JumpHeight(v, g)

(* A jump ends: the camera comes to stand again, or the cursor is shown.   *)
JumpEnds == ~is_on_ground ~> (is_on_ground \/ should_show_cursor)

=============================================================================
