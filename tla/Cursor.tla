------------------------------- MODULE Cursor -------------------------------
(***************************************************************************)
(* The mouse pointer: where it is, whether it is shown, and how far the    *)
(* camera is told that it moved.  While the program hides the pointer it   *)
(* clips it to the window and puts it back to the centre in every frame;   *)
(* the distance to the centre is the movement of that frame.  The pointer  *)
(* belongs to the system and moves at any time, also between the calls of  *)
(* one function.                                                           *)
(*                                                                         *)
(* One axis is modelled: x and y are handled alike, apart from the sign.   *)
(***************************************************************************)
EXTENDS Integers

CONSTANTS Rects,     \* the places of the client area on the screen
          ScreenEnd, \* screen positions are 0..ScreenEnd
          NULL,
          MaxCount   \* bound: the user presses Escape before the display count gets there

ASSUME RectsAssumption ==
    /\ ScreenEnd \in Nat
    /\ \A r \in Rects : r.left \in Nat /\ r.right \in Nat /\ r.left < r.right /\ r.right <= ScreenEnd
    /\ NULL \notin Int /\ NULL \notin Rects
    /\ MaxCount \in Nat \ {0}

VARIABLES rect,          \* the client area in screen coordinates
          pointer,       \* the position of the pointer on the screen
          clip,          \* the rectangle given to ClipCursor
          pending,       \* a WM_MOUSEMOVE is due
          display_count, \* the counter behind ShowCursor; the pointer is visible from 0 on
          should_show_cursor,
          mouse_cursor_x, mouse_cursor_x_delta,
          pc,            \* the part of the loop body to run next
          old_point,     \* what GetCursorPos returned
          (* History, for the properties only. *)
          anchor,        \* where the last SetCursorPos put the pointer, if the
                         \* pointer has been locked since
          travelled,     \* the movement since then
          seen           \* the movement since then, at the last GetCursorPos, if the
                         \* centre is still where the pointer was put

system == <<rect, pointer, clip, pending, display_count>>
mouse == <<mouse_cursor_x, mouse_cursor_x_delta, old_point>>
history == <<anchor, travelled, seen>>
vars == <<rect, pointer, clip, pending, display_count, should_show_cursor, mouse_cursor_x,
          mouse_cursor_x_delta, pc, old_point, anchor, travelled, seen>>

Screen == 0..ScreenEnd
Inside(r) == r.left..r.right-1

Centre_FromRight(r) == r.right + (r.right - r.left) \div 2

Centre(r) == (r.left + r.right) \div 2

Init ==
    /\ rect \in Rects
    /\ pointer \in Screen
    /\ clip = NULL /\ pending = FALSE /\ display_count = 0
    /\ should_show_cursor = FALSE
    /\ mouse_cursor_x = 0 /\ mouse_cursor_x_delta = 0 /\ old_point = 0
    /\ pc = "poll"
    /\ anchor = NULL /\ travelled = 0 /\ seen = NULL

-----------------------------------------------------------------------------
(* The system. *)

MovePointer ==
    /\ \E p \in (IF clip = NULL THEN Screen ELSE Inside(clip)) \ {pointer} :
          /\ pointer' = p
          /\ travelled' = travelled + p - pointer
    /\ pending' = TRUE
    /\ UNCHANGED <<rect, clip, display_count, should_show_cursor, mouse, pc, anchor, seen>>

(* The user drags or resizes the window, which it learns while it polls,   *)
(* or the program toggles fullscreen.  The system may drop the clip then.  *)
MoveWindow ==
    /\ pc \in {"dispatch", "keys"}
    /\ rect' \in Rects \ {rect}
    /\ clip' \in {clip, NULL}
    /\ UNCHANGED <<pointer, pending, display_count, should_show_cursor, mouse, pc, history>>

-----------------------------------------------------------------------------
(* The program. *)

(* platform_poll_events up to its loop *)
Poll ==
    /\ pc = "poll"
    /\ mouse_cursor_x_delta' = 0
    /\ pc' = "dispatch"
    /\ UNCHANGED <<system, should_show_cursor, mouse_cursor_x, old_point, history>>

(* WM_MOUSEMOVE: the position relative to the client area *)
MouseMove ==
    /\ pc = "dispatch" /\ pending
    /\ LET x_pos == pointer - rect.left
       IN  /\ mouse_cursor_x_delta' = x_pos - mouse_cursor_x
           /\ mouse_cursor_x' = x_pos
    /\ pending' = FALSE
    /\ UNCHANGED <<rect, pointer, clip, display_count, should_show_cursor, pc, old_point, history>>

EndPoll ==
    /\ pc = "dispatch" /\ ~pending
    /\ pc' = "keys"
    /\ UNCHANGED <<system, should_show_cursor, mouse, history>>

(* Escape toggles should_show_cursor. *)
Keys ==
    /\ pc = "keys"
    /\ should_show_cursor' \in BOOLEAN
    /\ display_count >= MaxCount => ~should_show_cursor'
    /\ display_count <= -MaxCount => should_show_cursor'
    /\ pc' = "cursor"
    /\ UNCHANGED <<system, mouse, history>>

(* ShowCursor(TRUE) adds one to the count, ShowCursor(FALSE) takes one     *)
(* off, and both return the new count.  They are called at least once.     *)
Shown_Once(count) == count + 1

Shown(count) == IF count + 1 < 0 THEN 0 ELSE count + 1
Hidden(count) == IF count - 1 >= 0 THEN -1 ELSE count - 1

(* platform_show_and_unlock_cursor *)
ShowAndUnlock ==
    /\ pc = "cursor" /\ should_show_cursor
    /\ clip' = NULL
    /\ display_count' = Shown(display_count)
    /\ anchor' = NULL
    /\ pc' = "poll"
    /\ UNCHANGED <<rect, pointer, pending, should_show_cursor, mouse, travelled, seen>>

(* platform_hide_and_lock_cursor up to ClipCursor, which moves a pointer   *)
(* outside the rectangle into it.                                          *)
HideAndClip_NoClip ==
    /\ pc = "cursor" /\ ~should_show_cursor
    /\ display_count' = Hidden(display_count)
    /\ pc' = "read"
    /\ UNCHANGED <<rect, pointer, clip, pending, should_show_cursor, mouse, history>>

HideAndClip ==
    /\ pc = "cursor" /\ ~should_show_cursor
    /\ display_count' = Hidden(display_count)
    /\ clip' = rect
    /\ pointer' = CASE pointer < rect.left -> rect.left
                    [] pointer >= rect.right -> rect.right - 1
                    [] OTHER -> pointer
    /\ travelled' = travelled + pointer' - pointer
    /\ pc' = "read"
    /\ UNCHANGED <<rect, pending, should_show_cursor, mouse, anchor, seen>>

(* GetCursorPos *)
ReadPointer ==
    /\ pc = "read"
    /\ old_point' = pointer
    /\ seen' = IF anchor = Centre(rect) THEN travelled ELSE NULL
    /\ pc' = "centre"
    /\ UNCHANGED <<system, should_show_cursor, mouse_cursor_x, mouse_cursor_x_delta, anchor, travelled>>

(* SetCursorPos, which causes a message too, and the delta from what was   *)
(* read before.                                                            *)
Recentre_KeepsDelta ==
    /\ pc = "centre"
    /\ pointer' = Centre(rect) /\ pending' = TRUE
    /\ anchor' = Centre(rect) /\ travelled' = 0
    /\ pc' = "camera"
    /\ UNCHANGED <<rect, clip, display_count, should_show_cursor, mouse, seen>>

Recentre ==
    /\ pc = "centre"
    /\ pointer' = Centre(rect) /\ pending' = TRUE
    /\ mouse_cursor_x_delta' = old_point - Centre(rect)
    /\ anchor' = Centre(rect) /\ travelled' = 0
    /\ pc' = "camera"
    /\ UNCHANGED <<rect, clip, display_count, should_show_cursor, mouse_cursor_x, old_point, seen>>

(* update_camera reads the delta. *)
Camera ==
    /\ pc = "camera"
    /\ pc' = "poll"
    /\ UNCHANGED <<system, should_show_cursor, mouse, history>>

Next ==
    \/ MovePointer \/ MoveWindow
    \/ Poll \/ MouseMove \/ EndPoll \/ Keys
    \/ ShowAndUnlock \/ HideAndClip \/ ReadPointer \/ Recentre \/ Camera

Spec == Init /\ [][Next]_vars

-----------------------------------------------------------------------------
Spans == -ScreenEnd..ScreenEnd

TypeOK ==
    /\ rect \in Rects /\ pointer \in Screen /\ clip \in Rects \cup {NULL}
    /\ pending \in BOOLEAN /\ should_show_cursor \in BOOLEAN
    /\ display_count \in -MaxCount-1..MaxCount+1
    /\ mouse_cursor_x \in Spans /\ mouse_cursor_x_delta \in -2*ScreenEnd..2*ScreenEnd
    /\ pc \in {"poll", "dispatch", "keys", "cursor", "read", "centre", "camera"}
    /\ old_point \in Screen
    /\ anchor \in Screen \cup {NULL} /\ travelled \in Spans /\ seen \in Spans \cup {NULL}

(* The pointer is visible exactly while the program wants it to be,        *)
(* although the count behind ShowCursor moves by at least one in every     *)
(* frame and is far from zero when the wish changes                        *)
(* (platform_windows.cpp:517-534).                                         *)
VisibleAsWanted ==
    /\ pc = "camera" => display_count < 0
    /\ pc = "poll" /\ should_show_cursor => display_count >= 0

(* A pointer that is hidden and locked is inside the window that the frame *)
(* is drawn for, although the window moves and the pointer does, so that   *)
(* clicks go to the window (platform_windows.cpp:536-552).                 *)
LockedInside ==
    pc \in {"read", "centre", "camera"} => pointer \in Inside(rect)

(* The camera turns by what the pointer has moved since it was last put    *)
(* to the centre, neither more nor less, unless the window moved or the    *)
(* lock began in this frame: then the delta is the distance of the pointer *)
(* from the centre and says nothing about movement                         *)
(* (platform_windows.cpp:551-559, camera.cpp:17-18).                       *)
TurnFollowsMovement ==
    pc = "camera" /\ seen # NULL => mouse_cursor_x_delta = seen
=============================================================================
