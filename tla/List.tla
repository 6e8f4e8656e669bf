-------------------------------- MODULE List --------------------------------
(***************************************************************************)
(* What the Array template promises its users: a list of values that can   *)
(* be added to at its end, shortened, lengthened by values nobody set, and *)
(* cut at any place.  call is the last call with its argument.             *)
(***************************************************************************)
EXTENDS Integers, Sequences

CONSTANTS Values

VARIABLES list, call

vars == <<list, call>>

Called(op, arg) == call' = [op |-> op, arg |-> arg]

Init == list = <<>> /\ call = [op |-> "none", arg |-> 0]

Add == \E v \in Values : Called("add", v) /\ list' = Append(list, v)

(* What is in the list stays there as far as it has room.                  *)
Resize ==
    /\ call'.op = "resize"
    /\ Len(list') = call'.arg
    /\ \A i \in 1..Len(list) : i <= Len(list') => list'[i] = list[i]

Reserve == call'.op = "reserve" /\ UNCHANGED list

(* The list without its element at n. *)
Cut(l, n) == [i \in 1..Len(l) - 1 |-> IF i < n THEN l[i] ELSE l[i + 1]]

RemoveAt == \E n \in 1..Len(list) : Called("remove_by_index", n - 1) /\ list' = Cut(list, n)

RemoveValue ==
    \E v \in Values :
        /\ Called("remove_by_value", v)
        /\ \/ /\ \A k \in 1..Len(list) : list[k] # v
              /\ UNCHANGED list
           \/ \E n \in 1..Len(list) :
                 /\ list[n] = v /\ \A k \in 1..n - 1 : list[k] # v
                 /\ list' = Cut(list, n)

Clear == Called("deallocate", 0) /\ list' = <<>>

Next == Add \/ Resize \/ Reserve \/ RemoveAt \/ RemoveValue \/ Clear

Spec == Init /\ [][Next]_vars
=============================================================================
