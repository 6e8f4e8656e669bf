----------------------------- MODULE InputProofs -----------------------------
(***************************************************************************)
(* Proofs about Input, for all keys and buttons and a queue of any length. *)
(***************************************************************************)
EXTENDS Input, FiniteSetTheorems, TLAPS

(* A message says what happened to the key it is about.                    *)
LEMMA MessageType ==
    ASSUME NEW k \in Inputs, NEW down \in BOOLEAN
    PROVE  /\ MessageFor(k, down) \in Message
           /\ MessageFor(k, down).key = k
           /\ IsDown(MessageFor(k, down)) <=> down
  <1>1. k \in Keys \/ k \in Buttons
    BY DEF Inputs
  <1>2. CASE k \in Buttons
    <2>1. MessageFor(k, down) = [key |-> k, msg |-> IF down THEN "WM_BUTTONDOWN" ELSE "WM_BUTTONUP"]
      BY <1>2, AltAssumption DEF MessageFor
    <2> QED BY <1>2, <2>1 DEF Message, ButtonMessages, IsDown
  <1>3. CASE k \in Keys /\ device[Alt]
    BY <1>3, AltAssumption DEF MessageFor, Message, KeyMessages, IsDown
  <1>4. CASE k \in Keys /\ ~device[Alt]
    BY <1>4, AltAssumption DEF MessageFor, Message, KeyMessages, IsDown
  <1> QED BY <1>1, <1>2, <1>3, <1>4

(* Every message is one of those the window procedure takes.               *)
LEMMA MessageHandled ==
    ASSUME NEW m \in Message
    PROVE  m.msg \in Handled /\ m.key \in Inputs /\ IsDown(m) \in BOOLEAN
  BY DEF Message, Handled, Inputs, IsDown

(* The queue after a message has been put at its end, or taken from its    *)
(* head.                                                                   *)
LEMMA QueueGrows ==
    ASSUME NEW q \in Seq(Message), NEW m \in Message
    PROVE  /\ Append(q, m) \in Seq(Message) /\ Len(Append(q, m)) = Len(q) + 1
           /\ Append(q, m)[Len(q) + 1] = m
           /\ \A i \in 1..Len(q) : Append(q, m)[i] = q[i]
  OBVIOUS

LEMMA QueueShrinks ==
    ASSUME NEW q \in Seq(Message), q # <<>>
    PROVE  /\ Tail(q) \in Seq(Message) /\ Len(q) \in Nat \ {0} /\ Len(Tail(q)) = Len(q) - 1
           /\ Head(q) = q[1] /\ q[1] \in Message
           /\ \A i \in 1..Len(q) - 1 : Tail(q)[i] = q[i + 1]
  OBVIOUS

-----------------------------------------------------------------------------
(* Types *)

LEMMA PostType ==
    ASSUME TypeOK, NEW k \in Inputs, NEW down \in BOOLEAN, Post(k, down)
    PROVE  /\ queue' \in Seq(Message) /\ Len(queue') <= MaxQueue
           /\ told' \in [Inputs -> BOOLEAN] /\ lost' \subseteq Inputs
  <1>1. CASE Received(k)
    <2>1. queue' = Append(queue, MessageFor(k, down)) /\ Len(queue) < MaxQueue
          /\ told' = [told EXCEPT ![k] = down] /\ lost' = lost \ {k}
      BY <1>1 DEF Post
    <2>2. queue' \in Seq(Message) /\ Len(queue') = Len(queue) + 1 /\ Len(queue) \in Nat
      BY <2>1, MessageType, QueueGrows DEF TypeOK
    <2> QED BY <2>1, <2>2, BoundsAssumption DEF TypeOK
  <1>2. CASE ~Received(k)
    BY <1>2 DEF Post, TypeOK
  <1> QED BY <1>1, <1>2

LEMMA ClearType ==
    ASSUME key_states \in [Inputs -> Key_State]
    PROVE  /\ clear_key_states \in [Inputs -> Key_State]
           /\ \A k \in Inputs : /\ clear_key_states[k].is_down = is_key_down(k)
                               /\ clear_key_states[k].was_down = is_key_down(k)
                               /\ clear_key_states[k].changed = FALSE
  BY DEF clear_key_states, Key_State, is_key_down

LEMMA SetType ==
    ASSUME key_states \in [Inputs -> Key_State], NEW k \in Inputs, NEW down \in BOOLEAN
    PROVE  /\ set_key_state(k, down) \in [Inputs -> Key_State]
           /\ set_key_state(k, down)[k].is_down = down
           /\ set_key_state(k, down)[k].was_down = key_states[k].was_down
           /\ set_key_state(k, down)[k].changed = (down # key_states[k].is_down)
           /\ \A x \in Inputs : x # k => set_key_state(k, down)[x] = key_states[x]
  <1> DEFINE new == [is_down |-> down, was_down |-> key_states[k].was_down,
                     changed |-> (down # key_states[k].is_down)]
  <1>1. set_key_state(k, down) = [key_states EXCEPT ![k] = new]
    BY DEF set_key_state
  <1>2. new \in Key_State
    BY DEF Key_State
  <1>3. new.is_down = down /\ new.was_down = key_states[k].was_down
        /\ new.changed = (down # key_states[k].is_down)
    OBVIOUS
  <1> HIDE DEF new
  <1> QED BY <1>1, <1>2, <1>3

(* What an iteration of the message loop does.                             *)
LEMMA DispatchEffect ==
    ASSUME TypeOK, Dispatch
    PROVE  \E m \in Message :
              /\ m = queue[1] /\ m.key \in Inputs /\ IsDown(m) \in BOOLEAN
              /\ key_states' = set_key_state(m.key, IsDown(m))
              /\ messages' = [messages EXCEPT ![m.key] = IF @ = 0 THEN 1 ELSE 2]
              /\ queue' \in Seq(Message) /\ Len(queue) \in Nat \ {0}
              /\ Len(queue') = Len(queue) - 1
              /\ \A i \in 1..Len(queue) - 1 : queue'[i] = queue[i + 1]
              /\ UNCHANGED <<device, receives, pc, told, lost, start, presses, reported>>
              /\ pc = "poll"
  <1>1. queue \in Seq(Message) /\ queue # <<>>
    BY DEF TypeOK, Dispatch
  <1>2. queue[1] \in Message /\ Head(queue) = queue[1]
    BY <1>1, QueueShrinks
  <1>3. /\ key_states' = set_key_state(queue[1].key, IsDown(queue[1]))
        /\ messages' = [messages EXCEPT ![queue[1].key] = IF @ = 0 THEN 1 ELSE 2]
        /\ queue' = Tail(queue)
    BY <1>2, MessageHandled DEF Dispatch
  <1>4. queue[1].key \in Inputs /\ IsDown(queue[1]) \in BOOLEAN
    BY <1>2, MessageHandled
  <1>5. /\ queue' \in Seq(Message) /\ Len(queue) \in Nat \ {0} /\ Len(queue') = Len(queue) - 1
        /\ \A i \in 1..Len(queue) - 1 : queue'[i] = queue[i + 1]
    BY <1>1, <1>3, QueueShrinks
  <1> QED BY <1>2, <1>3, <1>4, <1>5 DEF Dispatch

LEMMA TypeStep ==
    ASSUME TypeOK, [Next]_vars
    PROVE  TypeOK'
  <1>1. ASSUME NEW k \in Inputs, Press(k) PROVE TypeOK'
    <2>1. presses' = [presses EXCEPT ![k] = presses[k] + 1] /\ presses[k] < MaxPresses[k]
          /\ presses \in [Inputs -> Nat] /\ MaxPresses[k] \in Nat
      BY <1>1, BoundsAssumption DEF Press, TypeOK
    <2>2. presses[k] + 1 \in Nat /\ presses[k] + 1 <= MaxPresses[k]
      BY <2>1
    <2>3. presses' \in [Inputs -> Nat] /\ \A x \in Inputs : presses'[x] <= MaxPresses[x]
      BY <2>1, <2>2 DEF TypeOK
    <2> QED BY <1>1, <2>3, PostType DEF Press, TypeOK
  <1>2. ASSUME NEW k \in Inputs, Release(k) PROVE TypeOK'
    BY <1>2, PostType DEF Release, TypeOK
  <1>3. ASSUME NEW k \in Keys, Repeat(k) PROVE TypeOK'
    BY <1>3, PostType DEF Repeat, TypeOK, Inputs
  <1>4. ASSUME NEW what \in {"keys", "buttons"}, ChangeFocus(what) PROVE TypeOK'
    <2>1. receives' \subseteq {"keys", "buttons"}
      BY <1>4 DEF ChangeFocus, TypeOK
    <2>2. UNCHANGED <<device, queue, key_states, pc, told, lost, start, messages, presses, reported>>
      BY <1>4 DEF ChangeFocus, history
    <2> QED BY <2>1, <2>2 DEF TypeOK
  <1>5. CASE BeginPoll
    <2>1. key_states' \in [Inputs -> Key_State]
      BY <1>5, ClearType DEF BeginPoll, TypeOK
    <2>2. \A k \in Inputs : is_key_down(k) \in BOOLEAN
      BY DEF TypeOK, Key_State, is_key_down
    <2>3. start' \in [Inputs -> BOOLEAN]
      BY <1>5, <2>2 DEF BeginPoll
    <2>4. messages' \in [Inputs -> 0..2] /\ pc' \in {"poll", "frame"}
      BY <1>5 DEF BeginPoll
    <2> QED BY <1>5, <2>1, <2>3, <2>4 DEF BeginPoll, TypeOK
  <1>6. CASE Dispatch
    <2>1. PICK m \in Message :
              /\ m = queue[1] /\ m.key \in Inputs /\ IsDown(m) \in BOOLEAN
              /\ key_states' = set_key_state(m.key, IsDown(m))
              /\ messages' = [messages EXCEPT ![m.key] = IF @ = 0 THEN 1 ELSE 2]
              /\ queue' \in Seq(Message) /\ Len(queue) \in Nat \ {0}
              /\ Len(queue') = Len(queue) - 1
              /\ \A i \in 1..Len(queue) - 1 : queue'[i] = queue[i + 1]
              /\ UNCHANGED <<device, receives, pc, told, lost, start, presses, reported>>
              /\ pc = "poll"
      BY <1>6, DispatchEffect
    <2>2. key_states' \in [Inputs -> Key_State]
      BY <2>1, SetType DEF TypeOK
    <2>3. messages' \in [Inputs -> 0..2] /\ Len(queue') <= MaxQueue
      BY <2>1, BoundsAssumption DEF TypeOK
    <2> QED BY <2>1, <2>2, <2>3 DEF TypeOK
  <1>7. CASE EndPoll
    <2>1. reported' \in [Inputs -> Nat]
      BY <1>7 DEF EndPoll, TypeOK
    <2> QED BY <1>7, <2>1 DEF EndPoll, TypeOK
  <1>8. CASE UNCHANGED vars
    BY <1>8 DEF vars, TypeOK
  <1> QED BY <1>1, <1>2, <1>3, <1>4, <1>5, <1>6, <1>7, <1>8 DEF Next

LEMMA TypeInit ==
    ASSUME Init
    PROVE  TypeOK
  BY BoundsAssumption DEF Init, TypeOK, Key_State

(* All values have their types, and the queue stays within its bound.      *)
THEOREM TypeCorrect == Spec => []TypeOK
  BY TypeInit, TypeStep, PTL DEF Spec

-----------------------------------------------------------------------------
(* What the program is told *)

Told == \A k \in Inputs : WillBe(k, told[k]) /\ (k \notin lost => told[k] = device[k])

(* A message at the end of the queue is the last one about its input.      *)
LEMMA ToldAtPost ==
    ASSUME TypeOK, Told, NEW x \in Inputs, NEW down \in BOOLEAN, Post(x, down),
           device' = [device EXCEPT ![x] = down], UNCHANGED key_states
    PROVE  Told'
  <1>1. CASE Received(x)
    <2>1. queue' = Append(queue, MessageFor(x, down)) /\ told' = [told EXCEPT ![x] = down]
          /\ lost' = lost \ {x}
      BY <1>1 DEF Post
    <2> DEFINE n == Len(queue) m == MessageFor(x, down)
    <2>2. n \in Nat /\ Len(queue') = n + 1 /\ queue'[n + 1] = m
          /\ \A i \in 1..n : queue'[i] = queue[i]
      BY <2>1, MessageType, QueueGrows DEF TypeOK
    <2>3. m.key = x /\ (IsDown(m) <=> down)
      BY MessageType
    <2> HIDE DEF m, n
    <2> SUFFICES ASSUME NEW k \in Inputs
                 PROVE  WillBe(k, told[k])' /\ (k \notin lost' => told'[k] = device'[k])
      BY DEF Told
    <2>4. k \notin lost' => told'[k] = device'[k]
      BY <2>1 DEF TypeOK, Told
    <2>5. CASE k = x
      <3>1. told'[k] = down
        BY <2>1, <2>5 DEF TypeOK
      <3>2. queue'[n + 1].key = k /\ n + 1 \in 1..n + 1
        BY <2>2, <2>3, <2>5
      <3>3. ASSUME NEW i \in 1..n + 1, LastAbout(k, i)' PROVE i = n + 1
        BY <2>2, <3>2, <3>3 DEF LastAbout
      <3> QED BY <2>2, <2>3, <2>4, <3>1, <3>2, <3>3 DEF WillBe
    <2>6. CASE k # x
      <3>1. told'[k] = told[k] /\ WillBe(k, told[k])
        BY <2>1, <2>6 DEF TypeOK, Told
      <3>2. ASSUME NEW i \in 1..n + 1, LastAbout(k, i)'
            PROVE  i \in 1..n /\ LastAbout(k, i) /\ queue'[i] = queue[i]
        <4>1. i \in 1..n
          BY <2>2, <2>3, <2>6, <3>2 DEF LastAbout
        <4> QED BY <2>2, <3>2, <4>1 DEF LastAbout, n
      <3>3. (\A i \in 1..n + 1 : queue'[i].key # k) => \A i \in 1..n : queue[i].key # k
        BY <2>2
      <3> QED BY <2>2, <2>4, <3>1, <3>2, <3>3 DEF WillBe, is_key_down, n
    <2> QED BY <2>5, <2>6
  <1>2. CASE ~Received(x)
    BY <1>2 DEF Post, Told, TypeOK, WillBe, LastAbout, is_key_down
  <1> QED BY <1>1, <1>2

(* Dispatching the head of the queue changes nothing about its outcome.    *)
LEMMA ToldAtDispatch ==
    ASSUME TypeOK, Told, Dispatch
    PROVE  Told'
  <1>1. PICK m \in Message :
              /\ m = queue[1] /\ m.key \in Inputs /\ IsDown(m) \in BOOLEAN
              /\ key_states' = set_key_state(m.key, IsDown(m))
              /\ messages' = [messages EXCEPT ![m.key] = IF @ = 0 THEN 1 ELSE 2]
              /\ queue' \in Seq(Message) /\ Len(queue) \in Nat \ {0}
              /\ Len(queue') = Len(queue) - 1
              /\ \A i \in 1..Len(queue) - 1 : queue'[i] = queue[i + 1]
              /\ UNCHANGED <<device, receives, pc, told, lost, start, presses, reported>>
              /\ pc = "poll"
    BY DispatchEffect
  <1> DEFINE n == Len(queue)
  <1> SUFFICES ASSUME NEW k \in Inputs PROVE WillBe(k, told[k])'
    BY <1>1 DEF Told
  <1>2. WillBe(k, told[k]) /\ told'[k] = told[k]
    BY <1>1 DEF Told
  <1> HIDE DEF n
  <1>3. n \in Nat \ {0} /\ Len(queue) = n /\ Len(queue') = n - 1
    BY <1>1 DEF n
  <1>4. \A i \in 1..n - 1 : queue'[i] = queue[i + 1]
    BY <1>1 DEF n
  <1>5. ASSUME NEW i \in 1..n - 1, LastAbout(k, i)' PROVE LastAbout(k, i + 1)
    <2>1. ASSUME NEW j \in i + 2..n PROVE queue[j].key # k
      <3>1. j - 1 \in i + 1..n - 1 /\ j - 1 \in 1..n - 1 /\ j - 1 + 1 = j
        BY <1>3
      <3>2. queue'[j - 1].key # k
        BY <1>3, <1>5, <3>1 DEF LastAbout
      <3> QED BY <1>4, <3>1, <3>2
    <2>2. queue[i + 1].key = k
      BY <1>4, <1>5 DEF LastAbout
    <2> QED BY <1>3, <2>1, <2>2 DEF LastAbout
  <1>6. \A i \in 1..n - 1 : i + 1 \in 1..n
    BY <1>3
  <1>7. ASSUME \A i \in 1..n - 1 : queue'[i].key # k
        PROVE  is_key_down(k)' <=> told[k]
    <2>1. ASSUME NEW j \in 2..n PROVE queue[j].key # k
      <3>1. j - 1 \in 1..n - 1 /\ j - 1 + 1 = j
        BY <1>3
      <3> QED BY <1>4, <1>7, <3>1
    <2>2. CASE m.key = k
      <3>1. LastAbout(k, 1)
        BY <1>1, <1>3, <2>1, <2>2 DEF LastAbout
      <3>2. IsDown(m) <=> told[k]
        BY <1>1, <1>2, <1>3, <3>1 DEF WillBe
      <3> QED BY <1>1, <2>2, <3>2, SetType DEF TypeOK, is_key_down
    <2>3. CASE m.key # k
      <3>1. \A j \in 1..n : j = 1 \/ j \in 2..n
        BY <1>3
      <3>2. \A j \in 1..n : queue[j].key # k
        BY <1>1, <2>1, <2>3, <3>1
      <3>3. is_key_down(k) <=> told[k]
        BY <1>2, <1>3, <3>2 DEF WillBe
      <3> QED BY <1>1, <2>3, <3>3, SetType DEF TypeOK, is_key_down
    <2> QED BY <2>2, <2>3
  <1> QED BY <1>2, <1>3, <1>4, <1>5, <1>6, <1>7 DEF WillBe

LEMMA ToldStep ==
    ASSUME TypeOK, Told, [Next]_vars
    PROVE  Told'
  <1>1. ASSUME NEW k \in Inputs, Press(k) PROVE Told'
    BY <1>1, ToldAtPost DEF Press
  <1>2. ASSUME NEW k \in Inputs, Release(k) PROVE Told'
    BY <1>2, ToldAtPost DEF Release
  <1>3. ASSUME NEW k \in Keys, Repeat(k) PROVE Told'
    <2>1. k \in Inputs /\ device' = [device EXCEPT ![k] = TRUE]
      BY <1>3 DEF Repeat, Inputs, TypeOK
    <2> QED BY <1>3, <2>1, ToldAtPost DEF Repeat
  <1>4. CASE UNCHANGED <<device, queue, key_states, told, lost>>
    BY <1>4 DEF Told, WillBe, LastAbout, is_key_down
  <1>5. CASE BeginPoll
    <2>1. \A k \in Inputs : is_key_down(k)' = is_key_down(k)
      BY <1>5, ClearType DEF BeginPoll, TypeOK, is_key_down
    <2> QED BY <1>5, <2>1 DEF BeginPoll, Told, WillBe, LastAbout
  <1>6. CASE Dispatch
    BY <1>6, ToldAtDispatch
  <1> QED BY <1>1, <1>2, <1>3, <1>4, <1>5, <1>6 DEF Next, ChangeFocus, EndPoll, history, vars

(* The window never forgets or reorders what it was told                   *)
(* (platform_windows.cpp:53-61).                                           *)
THEOREM MessagesAreFollowed == Spec => []StatesFollowMessages
  <1>1. Init => Told
    BY DEF Init, Told, WillBe, LastAbout, is_key_down
  <1>2. TypeOK /\ Told /\ [Next]_vars => Told'
    BY ToldStep
  <1>3. TypeOK /\ Told => StatesFollowMessages
    BY DEF TypeOK, Told, StatesFollowMessages
  <1> QED BY <1>1, <1>2, <1>3, TypeCorrect, PTL DEF Spec

-----------------------------------------------------------------------------
(* What a frame reports *)

Edge ==
    \A k \in Inputs :
        /\ key_states[k].was_down = start[k]
        /\ messages[k] = 0 => key_states[k].is_down = start[k] /\ ~key_states[k].changed
        /\ messages[k] = 1 => key_states[k].changed = (key_states[k].is_down # start[k])

LEMMA EdgeStep ==
    ASSUME TypeOK, Edge, [Next]_vars
    PROVE  Edge'
  <1>1. CASE UNCHANGED <<key_states, start, messages>>
    BY <1>1 DEF Edge
  <1>2. CASE BeginPoll
    BY <1>2, ClearType DEF BeginPoll, Edge, TypeOK
  <1>3. CASE Dispatch
    <2>1. PICK m \in Message :
              /\ m = queue[1] /\ m.key \in Inputs /\ IsDown(m) \in BOOLEAN
              /\ key_states' = set_key_state(m.key, IsDown(m))
              /\ messages' = [messages EXCEPT ![m.key] = IF @ = 0 THEN 1 ELSE 2]
              /\ queue' \in Seq(Message) /\ Len(queue) \in Nat \ {0}
              /\ Len(queue') = Len(queue) - 1
              /\ \A i \in 1..Len(queue) - 1 : queue'[i] = queue[i + 1]
              /\ UNCHANGED <<device, receives, pc, told, lost, start, presses, reported>>
              /\ pc = "poll"
      BY <1>3, DispatchEffect
    <2>2. ASSUME NEW k \in Inputs, k # m.key
          PROVE  key_states'[k] = key_states[k] /\ messages'[k] = messages[k]
      BY <2>1, <2>2, SetType DEF TypeOK
    <2>3. ASSUME NEW k \in Inputs, k = m.key
          PROVE  /\ key_states'[k].was_down = key_states[k].was_down
                 /\ key_states'[k].is_down = IsDown(m)
                 /\ key_states'[k].changed = (IsDown(m) # key_states[k].is_down)
                 /\ messages'[k] # 0 /\ (messages'[k] = 1 => messages[k] = 0)
      <3>1. messages'[k] = IF messages[k] = 0 THEN 1 ELSE 2
        BY <2>1, <2>3 DEF TypeOK
      <3> QED BY <2>1, <2>3, <3>1, SetType DEF TypeOK
    <2>4. UNCHANGED start
      BY <2>1
    <2> SUFFICES ASSUME NEW k \in Inputs
                 PROVE  /\ key_states'[k].was_down = start[k]
                        /\ messages'[k] = 0 =>
                              key_states'[k].is_down = start[k] /\ ~key_states'[k].changed
                        /\ messages'[k] = 1 =>
                              key_states'[k].changed = (key_states'[k].is_down # start[k])
      BY <2>4 DEF Edge
    <2>5. CASE k # m.key
      BY <2>2, <2>5 DEF Edge
    <2>6. CASE k = m.key
      BY <2>3, <2>6 DEF Edge
    <2> QED BY <2>5, <2>6
  <1> QED BY <1>1, <1>2, <1>3 DEF Next, Press, Release, Repeat, ChangeFocus, EndPoll, history, vars

(* A frame reports what its poll was told (keyboard.cpp:3-29,              *)
(* platform_windows.cpp:53-61).                                            *)
THEOREM EdgesAreReported == Spec => []EdgesReported
  <1>1. Init => Edge
    <2> SUFFICES ASSUME Init, NEW k \in Inputs
                 PROVE  /\ key_states[k].was_down = start[k] /\ key_states[k].is_down = start[k]
                        /\ ~key_states[k].changed /\ messages[k] # 1
      BY DEF Edge
    <2>1. /\ key_states[k].is_down = FALSE /\ key_states[k].was_down = FALSE
          /\ key_states[k].changed = FALSE
      BY DEF Init
    <2>2. start[k] = FALSE /\ messages[k] = 0
      BY DEF Init
    <2>3. messages[k] # 1
      BY <2>2
    <2> QED BY <2>1, <2>2, <2>3, Zenon
  <1>2. TypeOK /\ Edge /\ [Next]_vars => Edge'
    BY EdgeStep
  <1>3. TypeOK /\ Edge => EdgesReported
    BY DEF TypeOK, Edge, EdgesReported, Key_State, is_key_pressed, was_key_just_released,
           is_key_down
  <1> QED BY <1>1, <1>2, <1>3, TypeCorrect, PTL DEF Spec

-----------------------------------------------------------------------------
(* How often an input is reported as pressed.  Every frame that reports    *)
(* one is paid for by a press: the presses not reported yet are enough for *)
(* the one the poll has seen, for those in the queue, and for one more if  *)
(* an input went down without a message, because it may repeat one.        *)

(* Before the i-th message of the queue, k counts as up.                   *)
UpBefore(k, i) ==
    \/ \E j \in 1..i - 1 : /\ queue[j].key = k /\ ~IsDown(queue[j])
                           /\ \A l \in j + 1..i - 1 : queue[l].key # k
    \/ /\ \A j \in 1..i - 1 : queue[j].key # k
       /\ ~is_key_down(k)

(* The queued messages that will make is_key_pressed true for k.           *)
Rises(k) == {i \in 1..Len(queue) : queue[i].key = k /\ IsDown(queue[i]) /\ UpBefore(k, i)}

Seen(k) == IF pc = "poll" /\ is_key_pressed(k) THEN 1 ELSE 0

Silent(k) == IF device[k] /\ ~told[k] THEN 1 ELSE 0

Paid == \A k \in Inputs : reported[k] + Seen(k) + Cardinality(Rises(k)) + Silent(k) <= presses[k]

LEMMA RisesFinite ==
    ASSUME TypeOK, NEW k
    PROVE  IsFiniteSet(Rises(k)) /\ Cardinality(Rises(k)) \in Nat
  <1>1. Len(queue) \in Nat
    BY DEF TypeOK
  <1>2. IsFiniteSet(1..Len(queue))
    BY <1>1, FS_Interval
  <1>3. Rises(k) \in SUBSET (1..Len(queue))
    BY DEF Rises
  <1> QED BY <1>2, <1>3, FS_Subset, FS_CardinalityType

(* A set with at most one element more.                                    *)
LEMMA OneMore ==
    ASSUME NEW S, NEW T, NEW x, IsFiniteSet(S), T \subseteq S \cup {x}
    PROVE  /\ Cardinality(S) \in Nat /\ Cardinality(T) \in Nat
           /\ Cardinality(T) <= Cardinality(S) + 1
           /\ T \subseteq S => Cardinality(T) <= Cardinality(S)
  <1>1. Cardinality(S) \in Nat
    BY FS_CardinalityType
  <1>2. IsFiniteSet(S \cup {x})
        /\ Cardinality(S \cup {x}) = IF x \in S THEN Cardinality(S) ELSE Cardinality(S) + 1
    BY FS_AddElement
  <1>3. IsFiniteSet(T) /\ Cardinality(T) <= Cardinality(S \cup {x})
    BY <1>2, FS_Subset
  <1>4. Cardinality(T) \in Nat
    BY <1>3, FS_CardinalityType
  <1>5. T \subseteq S => Cardinality(T) <= Cardinality(S)
    BY FS_Subset
  <1> QED BY <1>1, <1>2, <1>3, <1>4, <1>5

(* Messages put at the end of the queue add one rise at most.              *)
LEMMA RisesAtPost ==
    ASSUME TypeOK, TypeOK', Told, NEW x \in Inputs, NEW down \in BOOLEAN, Post(x, down),
           UNCHANGED key_states, NEW k \in Inputs
    PROVE  /\ Cardinality(Rises(k))' <= Cardinality(Rises(k)) + 1
           /\ ~(k = x /\ down /\ ~told[x] /\ Received(x)) =>
                 Cardinality(Rises(k))' <= Cardinality(Rises(k))
  <1>0. IsFiniteSet(Rises(k)) /\ Cardinality(Rises(k)) \in Nat
    BY RisesFinite
  <1>1. CASE ~Received(x)
    <2>1. UNCHANGED queue /\ UNCHANGED key_states
      BY <1>1 DEF Post
    <2>2. Rises(k)' = Rises(k)
      BY <2>1 DEF Rises, UpBefore, is_key_down
    <2> QED BY <2>2, <1>0
  <1>2. CASE Received(x)
    <2> DEFINE n == Len(queue) m == MessageFor(x, down)
    <2>1. queue' = Append(queue, m)
      BY <1>2 DEF Post
    <2>2. n \in Nat /\ Len(queue') = n + 1 /\ queue'[n + 1] = m
          /\ \A i \in 1..n : queue'[i] = queue[i]
      BY <2>1, MessageType, QueueGrows DEF TypeOK
    <2>3. m.key = x /\ (IsDown(m) <=> down)
      BY MessageType
    <2> HIDE DEF m, n
    <2>4. ASSUME NEW i \in 1..n + 1, UpBefore(k, i)' PROVE UpBefore(k, i)
      <3>1. \A j \in 1..i - 1 : queue'[j] = queue[j]
        BY <2>2
      <3>2. \A j \in 1..i - 1 : \A l \in j + 1..i - 1 : l \in 1..i - 1
        BY <2>2
      <3> QED BY <2>4, <3>1, <3>2 DEF UpBefore, is_key_down
    <2>5. ASSUME NEW i \in 1..n, i \in Rises(k)' PROVE i \in Rises(k)
      BY <2>2, <2>4, <2>5 DEF Rises, n
    <2>6. Rises(k)' \subseteq Rises(k) \cup {n + 1}
      <3>1. \A i \in 1..n + 1 : i \in 1..n \/ i = n + 1
        BY <2>2
      <3> QED BY <2>2, <2>5, <3>1 DEF Rises
    <2>7. ~(k = x /\ down /\ ~told[x]) => Rises(k)' \subseteq Rises(k)
      <3> SUFFICES ASSUME NEW i \in Rises(k)', i \notin Rises(k)
                   PROVE  k = x /\ down /\ ~told[x]
        BY Zenon
      <3>0. i = n + 1 /\ i \in 1..n + 1 /\ i - 1 = n
        BY <2>2, <2>6
      <3>1. queue'[i].key = k /\ IsDown(queue'[i]) /\ UpBefore(k, i)'
        BY DEF Rises, IsDown
      <3>2. k = x /\ down
        BY <2>2, <2>3, <3>0, <3>1 DEF IsDown
      <3>5. UpBefore(k, i)
        BY <2>4, <3>0, <3>1
      <3>3. WillBe(k, told[k])
        BY DEF Told
      <3>4. ~told[k]
        BY <3>0, <3>5, <3>3, <2>2 DEF UpBefore, WillBe, LastAbout, n
      <3> QED BY <3>2, <3>4
    <2> QED BY <1>2, <2>6, <2>7, <1>0, OneMore
  <1> QED BY <1>1, <1>2

(* A dispatched message is a rise no more, and only a rise is seen.        *)
LEMMA RisesAtDispatch ==
    ASSUME TypeOK, Dispatch, NEW k \in Inputs
    PROVE  /\ Cardinality(Rises(k))' \in Nat
           /\ Cardinality(Rises(k))' + Seen(k)' <= Cardinality(Rises(k)) + Seen(k)
  <1>1. PICK m \in Message :
              /\ m = queue[1] /\ m.key \in Inputs /\ IsDown(m) \in BOOLEAN
              /\ key_states' = set_key_state(m.key, IsDown(m))
              /\ messages' = [messages EXCEPT ![m.key] = IF @ = 0 THEN 1 ELSE 2]
              /\ queue' \in Seq(Message) /\ Len(queue) \in Nat \ {0}
              /\ Len(queue') = Len(queue) - 1
              /\ \A i \in 1..Len(queue) - 1 : queue'[i] = queue[i + 1]
              /\ UNCHANGED <<device, receives, pc, told, lost, start, presses, reported>>
              /\ pc = "poll"
    BY DispatchEffect
  <1> DEFINE n == Len(queue)
             Rest == Rises(k) \ {1}
             shift == [i \in Rises(k)' |-> i + 1]
  <1>2. /\ n \in Nat \ {0} /\ Len(queue') = n - 1
        /\ \A i \in 1..n - 1 : queue'[i] = queue[i + 1]
    BY <1>1
  <1>3. IsFiniteSet(Rises(k)) /\ Cardinality(Rises(k)) \in Nat
    BY RisesFinite
  <1>4. /\ m.key = k => key_states'[k].is_down = IsDown(m)
                         /\ key_states'[k].changed = (IsDown(m) # key_states[k].is_down)
        /\ m.key # k => key_states'[k] = key_states[k]
    BY <1>1, SetType DEF TypeOK
  <1> HIDE DEF n
  <1>5. ASSUME NEW i \in 1..n - 1, UpBefore(k, i)' PROVE UpBefore(k, i + 1)
    <2>1. \A l \in 2..i : l - 1 \in 1..i - 1 /\ l - 1 \in 1..n - 1 /\ queue'[l - 1] = queue[l]
      <3> SUFFICES ASSUME NEW l \in 2..i
                   PROVE  l - 1 \in 1..i - 1 /\ l - 1 \in 1..n - 1 /\ queue'[l - 1] = queue[l]
        OBVIOUS
      <3>1. l - 1 \in 1..i - 1 /\ l - 1 \in 1..n - 1 /\ l - 1 + 1 = l
        BY <1>2
      <3> QED BY <1>2, <3>1
    <2>2. i \in Nat \ {0} /\ i + 1 - 1 = i
      BY <1>2
    <2>3. CASE \E j \in 1..i - 1 : /\ queue'[j].key = k /\ ~IsDown(queue'[j])
                                  /\ \A l \in j + 1..i - 1 : queue'[l].key # k
      <3>1. PICK j \in 1..i - 1 : /\ queue'[j].key = k /\ ~IsDown(queue'[j])
                                  /\ \A l \in j + 1..i - 1 : queue'[l].key # k
        BY <2>3
      <3>2. j + 1 \in 1..i /\ j \in 1..n - 1 /\ queue'[j] = queue[j + 1]
        BY <1>2, <2>2
      <3>3. ASSUME NEW l \in j + 2..i PROVE queue[l].key # k
        <4>1. l \in 2..i /\ l - 1 \in j + 1..i - 1
          BY <2>2
        <4> QED BY <2>1, <3>1, <4>1
      <3>4. j + 1 + 1 = j + 2
        BY <2>2
      <3> QED BY <2>2, <3>1, <3>2, <3>3, <3>4 DEF UpBefore
    <2>4. CASE /\ \A j \in 1..i - 1 : queue'[j].key # k
               /\ ~is_key_down(k)'
      <3>1. \A l \in 2..i : queue[l].key # k
        BY <2>1, <2>4
      <3>2. CASE m.key = k
        <4>1. queue[1].key = k /\ ~IsDown(queue[1])
          BY <1>1, <1>4, <2>4, <3>2 DEF is_key_down
        <4>2. 1 \in 1..i /\ 1 + 1 = 2
          BY <2>2
        <4> QED BY <2>2, <3>1, <4>1, <4>2 DEF UpBefore
      <3>3. CASE m.key # k
        <4>1. \A l \in 1..i : l = 1 \/ l \in 2..i
          BY <2>2
        <4>2. \A l \in 1..i : queue[l].key # k
          BY <1>1, <3>1, <3>3, <4>1
        <4>3. ~is_key_down(k)
          BY <1>4, <2>4, <3>3 DEF is_key_down
        <4> QED BY <2>2, <4>2, <4>3 DEF UpBefore
      <3> QED BY <3>2, <3>3
    <2> QED BY <1>5, <2>3, <2>4 DEF UpBefore
  <1>6. ASSUME NEW i \in Rises(k)' PROVE i \in Nat /\ i + 1 \in Rest
    <2>1. i \in 1..n - 1 /\ queue'[i].key = k /\ IsDown(queue'[i]) /\ UpBefore(k, i)'
      BY <1>2 DEF Rises, IsDown
    <2>2. i + 1 \in 1..n /\ i + 1 # 1 /\ queue'[i] = queue[i + 1]
      BY <1>2, <2>1
    <2>3. UpBefore(k, i + 1)
      BY <1>5, <2>1
    <2> QED BY <2>1, <2>2, <2>3 DEF Rises, IsDown, n
  <1>7. shift \in [Rises(k)' -> Rest]
    BY <1>6
  <1>8. shift \in Injection(Rises(k)', Rest)
    BY <1>6, <1>7 DEF Injection, IsInjective
  <1>9. /\ IsFiniteSet(Rest)
        /\ Cardinality(Rest) = IF 1 \in Rises(k) THEN Cardinality(Rises(k)) - 1
                                ELSE Cardinality(Rises(k))
    BY <1>3, FS_RemoveElement
  <1> HIDE DEF shift, Rest
  <1>10. IsFiniteSet(Rises(k)') /\ Cardinality(Rises(k)') <= Cardinality(Rest)
    BY <1>8, <1>9, FS_Injection
  <1>11. Cardinality(Rises(k)') \in Nat /\ Cardinality(Rest) \in Nat
    BY <1>9, <1>10, FS_CardinalityType
  <1>12. CASE m.key = k /\ IsDown(m) /\ ~key_states[k].is_down
    <2>1. \A j \in 1..0 : queue[j].key # k
      OBVIOUS
    <2>2. 1 \in Rises(k)
      <3>1. 1 \in 1..Len(queue) /\ 1 - 1 = 0
        BY <1>2 DEF n
      <3> QED BY <1>1, <1>12, <2>1, <3>1 DEF Rises, UpBefore, is_key_down
    <2>3. Seen(k)' \in {0, 1} /\ Seen(k) \in {0, 1}
      BY DEF Seen
    <2> QED BY <1>3, <1>9, <1>10, <1>11, <2>2, <2>3
  <1>13. CASE ~(m.key = k /\ IsDown(m) /\ ~key_states[k].is_down)
    <2>1. is_key_pressed(k)' => is_key_pressed(k)
      <3>1. key_states[k].is_down \in BOOLEAN
        BY DEF TypeOK, Key_State
      <3> QED BY <1>1, <1>4, <1>13, <3>1, Zenon DEF is_key_pressed
    <2>2. Seen(k)' <= Seen(k) /\ Seen(k)' \in {0, 1} /\ Seen(k) \in {0, 1}
      BY <1>1, <2>1 DEF Seen
    <2> QED BY <1>3, <1>9, <1>10, <1>11, <2>2
  <1> QED BY <1>11, <1>12, <1>13

(* A message, or a press without one, costs no more than it brings.        *)
LEMMA PaidAtPost ==
    ASSUME TypeOK, TypeOK', Told, Paid, NEW x \in Inputs, NEW down \in BOOLEAN, Post(x, down),
           device' = [device EXCEPT ![x] = down], UNCHANGED <<key_states, pc, reported>>,
           presses' = IF down /\ ~device[x] THEN [presses EXCEPT ![x] = @ + 1] ELSE presses
    PROVE  Paid'
  <1> SUFFICES ASSUME NEW k \in Inputs
               PROVE  reported[k] + Seen(k) + Cardinality(Rises(k))' + Silent(k)' <= presses'[k]
    BY DEF Paid, Seen, is_key_pressed
  <1>1. /\ Cardinality(Rises(k))' <= Cardinality(Rises(k)) + 1
        /\ ~(k = x /\ down /\ ~told[x] /\ Received(x)) =>
               Cardinality(Rises(k))' <= Cardinality(Rises(k))
    BY RisesAtPost
  <1>2. /\ Cardinality(Rises(k)) \in Nat /\ Cardinality(Rises(k))' \in Nat
        /\ reported[k] \in Nat /\ presses[k] \in Nat
        /\ Seen(k) \in {0, 1} /\ Silent(k) \in {0, 1} /\ Silent(k)' \in {0, 1}
    <2>1. Cardinality(Rises(k)) \in Nat
      BY RisesFinite
    <2>2. Len(queue') \in Nat /\ Rises(k)' \in SUBSET (1..Len(queue'))
      BY DEF TypeOK, Rises
    <2>3. IsFiniteSet(1..Len(queue'))
      BY <2>2, FS_Interval
    <2>4. Cardinality(Rises(k)') \in Nat
      BY <2>2, <2>3, FS_Subset, FS_CardinalityType
    <2> QED BY <2>1, <2>4 DEF TypeOK, Seen, Silent
  <1>3. reported[k] + Seen(k) + Cardinality(Rises(k)) + Silent(k) <= presses[k]
    BY DEF Paid
  <1>4. CASE k # x
    <2>1. Silent(k)' = Silent(k) /\ presses'[k] = presses[k]
      BY <1>4 DEF Silent, TypeOK, Post
    <2> QED BY <1>1, <1>2, <1>3, <1>4, <2>1
  <1>5. CASE k = x /\ ~down
    <2>1. Silent(k)' = 0 /\ presses'[k] = presses[k]
      BY <1>5 DEF Silent, TypeOK
    <2> QED BY <1>1, <1>2, <1>3, <1>5, <2>1
  <1>6. CASE k = x /\ down /\ Received(x)
    <2>1. Silent(k)' = 0
      BY <1>6 DEF Silent, TypeOK, Post
    <2>2. CASE device[x]
      <3>1. presses'[k] = presses[k] /\ (~told[x] => Silent(k) = 1)
        BY <1>6, <2>2 DEF Silent, TypeOK
      <3>2. CASE told[x]
        BY <1>1, <1>2, <1>3, <1>6, <2>1, <3>1, <3>2
      <3>3. CASE ~told[x]
        BY <1>1, <1>2, <1>3, <1>6, <2>1, <3>1, <3>3
      <3> QED BY <3>2, <3>3
    <2>3. CASE ~device[x]
      <3>1. presses'[k] = presses[k] + 1
        BY <1>6, <2>3 DEF TypeOK
      <3> QED BY <1>1, <1>2, <1>3, <2>1, <3>1
    <2> QED BY <2>2, <2>3
  <1>7. CASE k = x /\ down /\ ~Received(x)
    <2>1. UNCHANGED told
      BY <1>7 DEF Post
    <2>2. CASE device[x]
      <3>1. presses'[k] = presses[k] /\ Silent(k)' = Silent(k)
        BY <1>7, <2>1, <2>2 DEF Silent, TypeOK
      <3> QED BY <1>1, <1>2, <1>3, <1>7, <3>1
    <2>3. CASE ~device[x]
      <3>1. presses'[k] = presses[k] + 1 /\ Silent(k) = 0
        BY <1>7, <2>3 DEF Silent, TypeOK
      <3> QED BY <1>1, <1>2, <1>3, <1>7, <3>1
    <2> QED BY <2>2, <2>3
  <1> QED BY <1>4, <1>5, <1>6, <1>7

LEMMA PaidStep ==
    ASSUME TypeOK, TypeOK', Told, Paid, [Next]_vars
    PROVE  Paid'
  <1>0. ASSUME NEW k \in Inputs
        PROVE  /\ reported[k] + Seen(k) + Cardinality(Rises(k)) + Silent(k) <= presses[k]
               /\ Cardinality(Rises(k)) \in Nat /\ reported[k] \in Nat /\ presses[k] \in Nat
               /\ Seen(k) \in {0, 1} /\ Seen(k)' \in {0, 1} /\ Silent(k) \in {0, 1}
    BY RisesFinite DEF Paid, TypeOK, Seen, Silent
  <1>1. ASSUME NEW k \in Inputs, Press(k) PROVE Paid'
    BY <1>1, PaidAtPost DEF Press
  <1>2. ASSUME NEW k \in Inputs, Release(k) PROVE Paid'
    BY <1>2, PaidAtPost DEF Release
  <1>3. ASSUME NEW k \in Keys, Repeat(k) PROVE Paid'
    <2>1. k \in Inputs /\ device' = [device EXCEPT ![k] = TRUE] /\ device[k]
      BY <1>3 DEF Repeat, Inputs, TypeOK
    <2> QED BY <1>3, <2>1, PaidAtPost DEF Repeat
  <1>4. CASE UNCHANGED <<device, queue, key_states, pc, told, presses, reported>>
    BY <1>4 DEF Paid, Seen, Silent, Rises, UpBefore, is_key_pressed, is_key_down
  <1>5. CASE BeginPoll
    <2> SUFFICES ASSUME NEW k \in Inputs
                 PROVE  (reported[k] + Seen(k) + Cardinality(Rises(k)) + Silent(k) <= presses[k])'
      BY DEF Paid
    <2>1. is_key_down(k)' = is_key_down(k) /\ ~is_key_pressed(k)'
      BY <1>5, ClearType DEF BeginPoll, TypeOK, is_key_down, is_key_pressed
    <2>2. Rises(k)' = Rises(k)
      BY <1>5, <2>1 DEF BeginPoll, Rises, UpBefore
    <2>3. Seen(k)' = 0 /\ Silent(k)' = Silent(k)
      BY <1>5, <2>1 DEF BeginPoll, Seen, Silent
    <2> QED BY <1>0, <1>5, <2>2, <2>3 DEF BeginPoll
  <1>6. CASE Dispatch
    <2> SUFFICES ASSUME NEW k \in Inputs
                 PROVE  (reported[k] + Seen(k) + Cardinality(Rises(k)) + Silent(k) <= presses[k])'
      BY DEF Paid
    <2>1. UNCHANGED <<reported, presses, device, told>>
      BY <1>6 DEF Dispatch
    <2>2. Silent(k)' = Silent(k)
      BY <2>1 DEF Silent
    <2>3. /\ Cardinality(Rises(k))' \in Nat
          /\ Cardinality(Rises(k))' + Seen(k)' <= Cardinality(Rises(k)) + Seen(k)
      BY <1>6, RisesAtDispatch
    <2> QED BY <1>0, <2>1, <2>2, <2>3
  <1>7. CASE EndPoll
    <2> SUFFICES ASSUME NEW k \in Inputs
                 PROVE  (reported[k] + Seen(k) + Cardinality(Rises(k)) + Silent(k) <= presses[k])'
      BY DEF Paid
    <2>1. Rises(k)' = Rises(k) /\ Silent(k)' = Silent(k)
      BY <1>7 DEF EndPoll, Rises, UpBefore, is_key_down, Silent
    <2>2. Seen(k)' = 0 /\ reported'[k] = reported[k] + Seen(k)
      BY <1>7 DEF EndPoll, Seen
    <2>3. UNCHANGED presses
      BY <1>7 DEF EndPoll
    <2> QED BY <1>0, <2>1, <2>2, <2>3
  <1> QED BY <1>1, <1>2, <1>3, <1>4, <1>5, <1>6, <1>7 DEF Next, ChangeFocus, history, vars

(* A press is acted on once (keyboard.cpp:9-11, 17-29).                    *)
THEOREM PressesAreReportedOnce == Spec => []PressedOncePerPress
  <1>1. Init => Paid
    <2> SUFFICES ASSUME Init, NEW k \in Inputs
                 PROVE  reported[k] + Seen(k) + Cardinality(Rises(k)) + Silent(k) <= presses[k]
      BY DEF Paid
    <2>1. Rises(k) = {}
      BY DEF Init, Rises
    <2>2. reported[k] = 0 /\ presses[k] = 0 /\ Seen(k) = 0 /\ Silent(k) = 0
      BY DEF Init, Seen, Silent
    <2> QED BY <2>1, <2>2, FS_EmptySet
  <1>2. TypeOK /\ TypeOK' /\ Told /\ Paid /\ [Next]_vars => Paid'
    BY PaidStep
  <1>3. TypeOK /\ Paid => PressedOncePerPress
    <2> SUFFICES ASSUME TypeOK, Paid, NEW k \in Inputs PROVE reported[k] <= presses[k]
      BY DEF PressedOncePerPress
    <2>1. /\ reported[k] + Seen(k) + Cardinality(Rises(k)) + Silent(k) <= presses[k]
          /\ Cardinality(Rises(k)) \in Nat /\ reported[k] \in Nat /\ presses[k] \in Nat
          /\ Seen(k) \in {0, 1} /\ Silent(k) \in {0, 1}
      BY RisesFinite DEF Paid, TypeOK, Seen, Silent
    <2> QED BY <2>1
  <1>4. Init => Told
    BY DEF Init, Told, WillBe, LastAbout, is_key_down
  <1>5. TypeOK /\ Told /\ [Next]_vars => Told'
    BY ToldStep
  <1> QED BY <1>1, <1>2, <1>3, <1>4, <1>5, TypeCorrect, PTL DEF Spec
=============================================================================
