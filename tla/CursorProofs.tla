---------------------------- MODULE CursorProofs ----------------------------
(***************************************************************************)
(* Proofs about Cursor, for every set of windows on every screen.          *)
(***************************************************************************)
EXTENDS Cursor, TLAPS

(* The centre of a window is inside it.                                    *)
LEMMA CentreInside ==
    ASSUME NEW r \in Rects
    PROVE  Centre(r) \in Inside(r) /\ Centre(r) \in Screen
  <1>1. r.left \in Nat /\ r.right \in Nat /\ r.left < r.right /\ r.right <= ScreenEnd
        /\ ScreenEnd \in Nat
    BY RectsAssumption
  <1>2. r.left <= (r.left + r.right) \div 2 /\ (r.left + r.right) \div 2 < r.right
        /\ (r.left + r.right) \div 2 \in Nat
    BY <1>1
  <1> QED BY <1>1, <1>2 DEF Centre, Inside, Screen

LEMMA InsideOnScreen ==
    ASSUME NEW r \in Rects
    PROVE  Inside(r) \subseteq Screen
  BY RectsAssumption DEF Inside, Screen

-----------------------------------------------------------------------------
(* A pointer that moves by as much as travelled grows has the same origin. *)
LEMMA OriginStays ==
    ASSUME NEW E \in Nat, NEW p \in 0..E, NEW q \in Int, NEW t \in Int,
           q - t \in 0..E, NEW u, u = t + p - q
    PROVE  p - u = q - t /\ u \in -E..E
  OBVIOUS

Locked == pc \in {"read", "centre", "camera"}

(* What the frame has established since the keys were looked at, and what  *)
(* travelled measures: the way from an origin, which is where the pointer  *)
(* was put if the program has put it anywhere since the lock began.        *)
FrameInv ==
    /\ Locked => /\ ~should_show_cursor /\ display_count < 0
                 /\ clip = rect /\ pointer \in Inside(rect)
    /\ pc = "poll" /\ should_show_cursor => display_count >= 0
    /\ pc = "cursor" => IF should_show_cursor THEN display_count <= MaxCount
                        ELSE display_count >= -MaxCount

TravelInv ==
    /\ pointer - travelled \in Screen
    /\ anchor # NULL => anchor = pointer - travelled
    /\ pc = "centre" /\ seen # NULL => seen = old_point - Centre(rect)
    /\ pc = "camera" /\ seen # NULL => mouse_cursor_x_delta = seen

IInv == TypeOK /\ FrameInv /\ TravelInv

LEMMA Initially ==
    ASSUME Init
    PROVE  IInv
  <1>1. ScreenEnd \in Nat /\ MaxCount \in Nat
    BY RectsAssumption
  <1>2. 0 \in Spans /\ 0 \in Screen /\ 0 \in -MaxCount-1..MaxCount+1
        /\ 0 \in -2 * ScreenEnd..2 * ScreenEnd
    BY <1>1 DEF Spans, Screen
  <1>3. pointer - travelled = pointer
    BY <1>1 DEF Init, Screen
  <1>4. TypeOK
    BY <1>2 DEF Init, TypeOK
  <1>5. FrameInv /\ TravelInv
    BY <1>3 DEF Init, FrameInv, TravelInv, Locked
  <1> QED BY <1>4, <1>5 DEF IInv

LEMMA Step ==
    ASSUME IInv, [Next]_vars
    PROVE  IInv'
  <1> USE RectsAssumption DEF IInv, TypeOK, FrameInv, TravelInv, Locked
  <1>0. ScreenEnd \in Nat /\ MaxCount \in Nat /\ pointer \in Nat /\ travelled \in Int
    BY DEF Screen, Spans
  <1>1. CASE MovePointer
    <2>1. PICK p \in (IF clip = NULL THEN Screen ELSE Inside(clip)) :
             pointer' = p /\ travelled' = travelled + p - pointer
      BY <1>1 DEF MovePointer
    <2>2. pointer' \in Screen
      BY <2>1, InsideOnScreen
    <2>3. Locked => pointer' \in Inside(rect)
      BY <2>1
    <2>4. pointer' - travelled' = pointer - travelled /\ travelled' \in Spans
      BY <2>1, <2>2, <1>0, OriginStays DEF Screen, Spans
    <2> QED BY <1>1, <2>2, <2>3, <2>4 DEF MovePointer, mouse
  <1>2. CASE MoveWindow
    BY <1>2 DEF MoveWindow, mouse, history
  <1>3. CASE Poll
    BY <1>3, <1>0 DEF Poll, system, history
  <1>4. CASE MouseMove
    <2>1. pointer - rect.left \in Spans
      BY <1>0 DEF Screen, Spans
    <2>2. pointer - rect.left - mouse_cursor_x \in -2 * ScreenEnd..2 * ScreenEnd
      BY <2>1, <1>0 DEF Spans
    <2> QED BY <1>4, <2>1, <2>2 DEF MouseMove, history
  <1>5. CASE EndPoll
    BY <1>5 DEF EndPoll, system, mouse, history
  <1>6. CASE Keys
    <2>1. IF should_show_cursor' THEN display_count <= MaxCount ELSE display_count >= -MaxCount
      BY <1>6, <1>0 DEF Keys
    <2> QED BY <1>6, <2>1 DEF Keys, system, mouse, history
  <1>7. CASE ShowAndUnlock
    <2>1. display_count' \in -MaxCount-1..MaxCount+1 /\ display_count' >= 0
      BY <1>7, <1>0 DEF ShowAndUnlock, Shown
    <2> QED BY <1>7, <2>1 DEF ShowAndUnlock, mouse
  <1>8. CASE HideAndClip
    <2>1. display_count' \in -MaxCount-1..MaxCount+1 /\ display_count' < 0
      BY <1>8, <1>0 DEF HideAndClip, Hidden
    <2>2. pointer' \in Inside(rect)
      BY <1>8, <1>0 DEF HideAndClip, Inside
    <2>3. pointer' \in Screen
      BY <2>2, InsideOnScreen
    <2>4. PICK p \in Screen : pointer' = p /\ travelled' = travelled + p - pointer
      BY <1>8, <2>3 DEF HideAndClip
    <2>5. pointer' - travelled' = pointer - travelled /\ travelled' \in Spans
      BY <2>4, <1>0, OriginStays DEF Screen, Spans
    <2> QED BY <1>8, <2>1, <2>2, <2>3, <2>5 DEF HideAndClip, mouse
  <1>9. CASE ReadPointer
    <2>1. Centre(rect) \in Int
      BY CentreInside DEF Screen
    <2>2. anchor = Centre(rect) => travelled = pointer - Centre(rect)
      BY <2>1, <1>0
    <2> QED BY <1>9, <2>2 DEF ReadPointer, system
  <1>10. CASE Recentre
    <2>1. Centre(rect) \in Screen /\ Centre(rect) \in Inside(rect)
      BY CentreInside
    <2>2. old_point - Centre(rect) \in -2 * ScreenEnd..2 * ScreenEnd
      BY <2>1, <1>0 DEF Screen
    <2>3. 0 \in Spans /\ Centre(rect) - 0 = Centre(rect)
      BY <2>1, <1>0 DEF Screen, Spans
    <2> QED BY <1>10, <2>1, <2>2, <2>3 DEF Recentre
  <1>11. CASE Camera
    BY <1>11 DEF Camera, system, mouse, history
  <1>12. CASE UNCHANGED vars
    BY <1>12 DEF vars
  <1> QED BY <1>1, <1>2, <1>3, <1>4, <1>5, <1>6, <1>7, <1>8, <1>9, <1>10, <1>11, <1>12 DEF Next

LEMMA Inductive == Spec => []IInv
  BY Initially, Step, PTL DEF Spec

(* All values have their types: the position told to the program, its      *)
(* delta and the movement stay within what the screen allows.              *)
THEOREM TypeCorrect == Spec => []TypeOK
  BY Inductive, PTL DEF IInv

(* The pointer is visible exactly while the program wants it to be         *)
(* (platform_windows.cpp:517-534).                                         *)
THEOREM PointerVisibleAsWanted == Spec => []VisibleAsWanted
  <1>1. IInv => VisibleAsWanted
    BY DEF IInv, FrameInv, VisibleAsWanted, Locked
  <1> QED BY <1>1, Inductive, PTL

(* A locked pointer is inside the window of this frame                     *)
(* (platform_windows.cpp:536-552).                                         *)
THEOREM PointerLockedInside == Spec => []LockedInside
  <1>1. IInv => LockedInside
    BY DEF IInv, FrameInv, LockedInside, Locked
  <1> QED BY <1>1, Inductive, PTL

(* The camera turns by what the pointer has moved                          *)
(* (platform_windows.cpp:551-559, camera.cpp:17-18).                       *)
THEOREM CameraTurnsAsMoved == Spec => []TurnFollowsMovement
  <1>1. IInv => TurnFollowsMovement
    BY DEF IInv, TravelInv, TurnFollowsMovement
  <1> QED BY <1>1, Inductive, PTL
=============================================================================
