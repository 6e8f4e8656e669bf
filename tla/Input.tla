------------------------------- MODULE Input -------------------------------
(***************************************************************************)
(* Keys and mouse buttons, from the device through the message queue of    *)
(* the window to the three tests the program asks once per frame: is it    *)
(* down, has it been pressed, was it just released.  keyboard.cpp and      *)
(* mouse.cpp are the same code over two arrays, so an input here is a key  *)
(* or a button; they differ in their messages and in when there are none.  *)
(*                                                                         *)
(* The device runs on its own: messages are posted while the window polls, *)
(* while a frame is drawn, and several of them between two polls.  A key   *)
(* that is held repeats its message.  A window without the focus gets no   *)
(* message of the keys.  It gets those of the buttons while the pointer is *)
(* over it or it has captured the mouse: ImGui's window procedure, which   *)
(* sees each message first, does so while a button is held, but another    *)
(* window may take the capture away at any time.                           *)
(***************************************************************************)
EXTENDS Integers, Sequences

CONSTANTS Keys, Buttons,
          Alt,        \* KEY_ALT: while it is held, keys send the WM_SYS messages
          MaxPresses, \* bound: how often each of them goes down
          MaxQueue    \* bound: the device waits while so many messages are queued

Inputs == Keys \cup Buttons

ASSUME AltAssumption == Alt \in Keys /\ Keys \cap Buttons = {}
ASSUME BoundsAssumption == MaxPresses \in [Inputs -> Nat] /\ MaxQueue \in Nat

VARIABLES device,      \* which of them are held
          receives,    \* "keys": the window has the focus; "buttons": it is under
                       \* the pointer, or has captured the mouse
          queue,       \* the window's messages that PeekMessageW has not returned
          key_states,  \* key_states and mouse_button_states
          pc,          \* "poll": in the loop of platform_poll_events; "frame": after it
          (* History, for the properties only. *)
          told,        \* what the last message posted for an input said of it
          lost,        \* what went up or down without a message since then
          start,       \* is_key_down when the poll began
          messages,    \* the number of messages a poll has dispatched: 0, 1 or 2 for more
          presses,     \* how often an input went down
          reported     \* in how many frames is_key_pressed has held

history == <<told, lost, start, messages, presses, reported>>
vars == <<device, receives, queue, key_states, pc, told, lost, start, messages, presses, reported>>

Key_State == [is_down : BOOLEAN, was_down : BOOLEAN, changed : BOOLEAN]

is_key_down(k) == key_states[k].is_down
is_key_pressed(k) == key_states[k].is_down /\ key_states[k].changed
was_key_just_released(k) == key_states[k].was_down /\ ~key_states[k].is_down

KeyMessages == {"WM_KEYDOWN", "WM_KEYUP", "WM_SYSKEYDOWN", "WM_SYSKEYUP"}

(* of the left, the right, the middle and the two X buttons *)
ButtonMessages == {"WM_BUTTONDOWN", "WM_BUTTONUP"}

Message == [msg : KeyMessages, key : Keys] \cup [msg : ButtonMessages, key : Buttons]

Init ==
    /\ device = [k \in Inputs |-> FALSE]
    /\ receives = {"keys", "buttons"}
    /\ queue = <<>>
    /\ key_states = [k \in Inputs |-> [is_down |-> FALSE, was_down |-> FALSE, changed |-> FALSE]]
    /\ pc = "frame"
    /\ told = device /\ start = device /\ lost = {}
    /\ messages = [k \in Inputs |-> 0]
    /\ presses = messages /\ reported = messages

-----------------------------------------------------------------------------
(* The device and the system. *)

MessageFor(k, down) ==
    [key |-> k,
     msg |-> CASE k \in Buttons -> (IF down THEN "WM_BUTTONDOWN" ELSE "WM_BUTTONUP")
               [] k \in Keys /\ device[Alt] -> (IF down THEN "WM_SYSKEYDOWN" ELSE "WM_SYSKEYUP")
               [] OTHER -> (IF down THEN "WM_KEYDOWN" ELSE "WM_KEYUP")]

Received(k) == (IF k \in Keys THEN "keys" ELSE "buttons") \in receives

Post(k, down) ==
    IF Received(k)
    THEN /\ Len(queue) < MaxQueue
         /\ queue' = Append(queue, MessageFor(k, down))
         /\ told' = [told EXCEPT ![k] = down]
         /\ lost' = lost \ {k}
    ELSE lost' = lost \cup {k} /\ UNCHANGED <<queue, told>>

Press(k) ==
    /\ ~device[k] /\ presses[k] < MaxPresses[k]
    /\ Post(k, TRUE)
    /\ device' = [device EXCEPT ![k] = TRUE]
    /\ presses' = [presses EXCEPT ![k] = @ + 1]
    /\ UNCHANGED <<receives, key_states, pc, start, messages, reported>>

Release(k) ==
    /\ device[k]
    /\ Post(k, FALSE)
    /\ device' = [device EXCEPT ![k] = FALSE]
    /\ UNCHANGED <<receives, key_states, pc, start, messages, presses, reported>>

Repeat(k) ==
    /\ device[k] /\ Received(k)
    /\ Post(k, TRUE)
    /\ UNCHANGED <<device, receives, key_states, pc, start, messages, presses, reported>>

(* The window gets the focus, or the pointer or the capture, or loses it.  *)
(* The program handles no message about that.                              *)
ChangeFocus(what) ==
    /\ receives' = IF what \in receives THEN receives \ {what} ELSE receives \cup {what}
    /\ UNCHANGED <<device, queue, key_states, pc, history>>

-----------------------------------------------------------------------------
(* The program. *)

clear_key_states_KeepsChanged == [k \in Inputs |-> [key_states[k] EXCEPT !.was_down = is_key_down(k)]]

clear_key_states_ClearsDown ==
    [k \in Inputs |-> [is_down |-> FALSE, was_down |-> is_key_down(k), changed |-> FALSE]]

clear_key_states_KeepsWasDown == [k \in Inputs |-> [key_states[k] EXCEPT !.changed = FALSE]]

clear_key_states ==
    [k \in Inputs |-> [key_states[k] EXCEPT !.was_down = is_key_down(k), !.changed = FALSE]]

set_key_state(k, down) ==
    [key_states EXCEPT ![k] = [is_down |-> down, was_down |-> @.was_down,
                               changed |-> (down # @.is_down)]]

(* The messages the window procedure takes for something going down or up. *)
Handled_KeysWithoutSys == {"WM_KEYDOWN", "WM_KEYUP"} \cup ButtonMessages

Handled == KeyMessages \cup ButtonMessages

IsDown(m) == m.msg \in {"WM_KEYDOWN", "WM_SYSKEYDOWN", "WM_BUTTONDOWN"}

(* platform_poll_events up to its loop: the states of the last frame are   *)
(* cleared before any message is looked at.                                *)
BeginPoll ==
    /\ pc = "frame"
    /\ key_states' = clear_key_states
    /\ pc' = "poll"
    /\ start' = [k \in Inputs |-> is_key_down(k)]
    /\ messages' = [k \in Inputs |-> 0]
    /\ UNCHANGED <<device, receives, queue, told, lost, presses, reported>>

(* An iteration: PeekMessageW removes a message, platform_wnd_proc sets    *)
(* the state of its key.                                                   *)
Dispatch ==
    /\ pc = "poll" /\ queue # <<>>
    /\ LET m == Head(queue)
       IN  /\ key_states' = IF m.msg \in Handled THEN set_key_state(m.key, IsDown(m)) ELSE key_states
           /\ messages' = [messages EXCEPT ![m.key] = IF @ = 0 THEN 1 ELSE 2]
    /\ queue' = Tail(queue)
    /\ UNCHANGED <<device, receives, pc, told, lost, start, presses, reported>>

(* PeekMessageW finds no message: the frame begins, and with it the tests. *)
EndPoll ==
    /\ pc = "poll" /\ queue = <<>>
    /\ pc' = "frame"
    /\ reported' = [k \in Inputs |-> reported[k] + (IF is_key_pressed(k) THEN 1 ELSE 0)]
    /\ UNCHANGED <<device, receives, queue, key_states, told, lost, start, messages, presses>>

Next ==
    \/ \E k \in Inputs : Press(k) \/ Release(k)
    \/ \E k \in Keys : Repeat(k)
    \/ \E what \in {"keys", "buttons"} : ChangeFocus(what)
    \/ BeginPoll \/ Dispatch \/ EndPoll

Spec == Init /\ [][Next]_vars

-----------------------------------------------------------------------------
TypeOK ==
    /\ device \in [Inputs -> BOOLEAN] /\ receives \subseteq {"keys", "buttons"}
    /\ queue \in Seq(Message) /\ Len(queue) <= MaxQueue
    /\ key_states \in [Inputs -> Key_State]
    /\ pc \in {"poll", "frame"}
    /\ told \in [Inputs -> BOOLEAN] /\ lost \subseteq Inputs
    /\ start \in [Inputs -> BOOLEAN]
    /\ messages \in [Inputs -> 0..2]
    /\ presses \in [Inputs -> Nat] /\ reported \in [Inputs -> Nat]
    /\ \A k \in Inputs : presses[k] <= MaxPresses[k]

(* The i-th message in the queue is the last one about k. *)
LastAbout(k, i) == queue[i].key = k /\ \A j \in i + 1..Len(queue) : queue[j].key # k

(* When all queued messages are dispatched, is_key_down(k) will be down.   *)
WillBe(k, down) ==
    /\ \A i \in 1..Len(queue) : LastAbout(k, i) => (IsDown(queue[i]) <=> down)
    /\ (\A i \in 1..Len(queue) : queue[i].key # k) => (is_key_down(k) <=> down)

(* The window never forgets or reorders what it was told: once the queued  *)
(* messages are dispatched, an input is down exactly if the last message   *)
(* about it said so.  That includes the keys released while Alt is held,   *)
(* which come as WM_SYSKEYUP (platform_windows.cpp:53-61).  So the program *)
(* is wrong about the device only for what changed since then without a    *)
(* message, and only until the next one about it.                          *)
StatesFollowMessages ==
    \A k \in Inputs :
        /\ WillBe(k, told[k])
        /\ k \notin lost => WillBe(k, device[k])

(* A press is acted on once: there are never more frames in which an input *)
(* counts as pressed than times it went down, however long it is held and  *)
(* repeats (keyboard.cpp:9-11, 17-29; main.cpp:466-494 toggles with it).   *)
PressedOncePerPress == \A k \in Inputs : reported[k] <= presses[k]

(* In a frame whose poll had no message for an input, it is neither        *)
(* pressed nor released; with one message, it is pressed or released       *)
(* exactly if that message changed it.  With more messages for one of them *)
(* in one poll the code does lose presses: the last message decides.       *)
EdgesReported ==
    pc = "frame" =>
        \A k \in Inputs :
            /\ messages[k] = 0 => ~is_key_pressed(k) /\ ~was_key_just_released(k)
            /\ messages[k] = 1 => /\ is_key_pressed(k) <=> (~start[k] /\ is_key_down(k))
                                  /\ was_key_just_released(k) <=> (start[k] /\ ~is_key_down(k))
=============================================================================
