------------------------------- MODULE Strings -------------------------------
(***************************************************************************)
(* The functions of my_string.cpp that walk over a String: a pointer into  *)
(* text somebody else owns, and a length.  The text is a sequence, so the  *)
(* pointer is a position in it.  Every look at a character goes through    *)
(* operator[] or get, which assert that it lies inside the String; a build *)
(* with assertions stops there.                                            *)
(*                                                                         *)
(* Characters are told apart as far as the functions do: "x" stands for    *)
(* all that are neither spaces nor ends of lines.                          *)
(***************************************************************************)
EXTENDS Integers, Sequences, SequencesExt

CONSTANTS Ops,      \* the functions that are called
          MaxLength \* bound: the length of the text

ASSUME BoundsAssumption == MaxLength \in Nat

VARIABLES text,
          s,             \* the String the program keeps
          arg,           \* what the running function was called with
          string_result, \* its local String result, then what it returns
          op, pc

stringsVars == <<text, s, arg, string_result, op, pc>>

Chars == {"x", " ", "\n", "\r"}
String(data, length) == [data |-> data, length |-> length]
Empty == String(1, 0)

is_empty(str) == str.length <= 0

is_space(c) == c \in {" ", "\n"}

(* operator[] and get count from 0.                                        *)
At(str, index) == text[str.data + index]
Asserted(str, index) == 0 <= index /\ index < str.length

advance(str) == IF is_empty(str) THEN str ELSE String(str.data + 1, str.length - 1)

StringsInit ==
    /\ text \in BoundedSeq(Chars, MaxLength)
    /\ s = String(1, Len(text))
    /\ arg = s /\ string_result = Empty
    /\ op = "none" /\ pc = "idle"

Call(f) ==
    /\ pc = "idle"
    /\ op' = f /\ arg' = s
    /\ IF is_empty(s) THEN string_result' = Empty /\ UNCHANGED pc
                      ELSE string_result' = s /\ pc' = "loop"
    /\ UNCHANGED <<text, s>>

(* A look at the character at index of str fails its assertion. *)
Break(str, index) ==
    /\ ~Asserted(str, index)
    /\ pc' = "break"
    /\ UNCHANGED <<text, s, arg, string_result, op>>

-----------------------------------------------------------------------------
EatSpaces ==
    /\ pc = "loop" /\ op = "eat_spaces"
    /\ \/ Break(string_result, 0)
       \/ /\ Asserted(string_result, 0)
          /\ IF is_space(At(string_result, 0))
             THEN string_result' = advance(string_result) /\ UNCHANGED <<s, pc>>
             ELSE s' = string_result /\ pc' = "idle" /\ UNCHANGED string_result
          /\ UNCHANGED <<text, arg, op>>

EatTrailingSpaces ==
    /\ pc = "loop" /\ op = "eat_trailing_spaces"
    /\ \/ Break(string_result, string_result.length - 1)
       \/ /\ Asserted(string_result, string_result.length - 1)
          /\ IF is_space(At(string_result, string_result.length - 1))
             THEN /\ string_result' = String(string_result.data, string_result.length - 1)
                  /\ UNCHANGED <<s, pc>>
             ELSE s' = string_result /\ pc' = "idle" /\ UNCHANGED string_result
          /\ UNCHANGED <<text, arg, op>>

(* consume_next_line moves the String it was given past the end of the     *)
(* line.  The test for a second character of that end asks one character   *)
(* to be both of them, so it never takes one.                              *)
EndLine_KeepsEnd(str) == str

EndLine(str) ==
    LET rest == advance(str)
    IN  IF rest.length > 0 /\ At(rest, 0) = "\r" /\ At(rest, 0) = "\n" THEN advance(rest) ELSE rest

ConsumeNextLine ==
    /\ pc = "loop" /\ op = "consume_next_line"
    /\ \/ Break(s, 0)
       \/ /\ Asserted(s, 0)
          /\ IF At(s, 0) \notin {"\n", "\r"}
             THEN s' = advance(s) /\ UNCHANGED <<string_result, pc>>
             ELSE /\ string_result' = String(string_result.data, string_result.length - s.length)
                  /\ s' = EndLine(s)
                  /\ pc' = "idle"
          /\ UNCHANGED <<text, arg, op>>

StringsNext ==
    \/ \E f \in Ops : Call(f)
    \/ EatSpaces \/ EatTrailingSpaces \/ ConsumeNextLine

StringsSpec == StringsInit /\ [][StringsNext]_stringsVars

-----------------------------------------------------------------------------
CharsOf(str) == SubSeq(text, str.data, str.data + str.length - 1)
Spaces(seq) == \A i \in DOMAIN seq : seq[i] \in {" ", "\n"}
Returned(f) == pc = "idle" /\ op = f /\ arg.length > 0

(* Every String the functions make lies in the text.                       *)
StringsTypeOK ==
    /\ text \in Seq(Chars) /\ Len(text) <= MaxLength
    /\ \A str \in {s, arg, string_result} :
          str.data \in 1..Len(text) + 1 /\ str.length \in 0..Len(text) + 1 - str.data
    /\ op \in Ops \cup {"none"} /\ pc \in {"idle", "loop", "break"}

(* eat_spaces and eat_trailing_spaces take off spaces only, and all of     *)
(* them at their end; a carriage return is no space to them                *)
(* (my_string.cpp:58-78, cstrutils.cpp:38-50).                             *)
SpacesEaten ==
    /\ Returned("eat_spaces") =>
          \E k \in 0..arg.length :
             /\ CharsOf(arg) = SubSeq(CharsOf(arg), 1, k) \o CharsOf(string_result)
             /\ Spaces(SubSeq(CharsOf(arg), 1, k))
             /\ string_result.length > 0 /\ At(string_result, 0) \in {"x", "\r"}
    /\ Returned("eat_trailing_spaces") =>
          \E k \in 0..arg.length :
             /\ CharsOf(arg) = CharsOf(string_result) \o SubSeq(CharsOf(arg), k + 1, arg.length)
             /\ Spaces(SubSeq(CharsOf(arg), k + 1, arg.length))
             /\ string_result.length > 0
             /\ At(string_result, string_result.length - 1) \in {"x", "\r"}

(* consume_next_line splits the String at its first end of line: the line  *)
(* has none, exactly one character is dropped and the rest is kept, so a   *)
(* CR LF makes an empty line of its own (my_string.cpp:80-104).            *)
LineConsumed ==
    Returned("consume_next_line") =>
        \E e \in {"\n", "\r"} :
            /\ CharsOf(arg) = CharsOf(string_result) \o <<e>> \o CharsOf(s)
            /\ \A i \in 1..string_result.length : CharsOf(string_result)[i] \notin {"\n", "\r"}

(* The assertions fail for no other reason than these: there is nothing    *)
(* but spaces to eat, or no end of line to find.                           *)
BreaksExplained ==
    pc = "break" =>
        \/ op \in {"eat_spaces", "eat_trailing_spaces"} /\ Spaces(CharsOf(arg))
        \/ op = "consume_next_line" /\ \A i \in 1..arg.length : CharsOf(arg)[i] \notin {"\n", "\r"}

(* A loop that returns has taken off exactly what it is for, and one that  *)
(* does not had nothing to stop at.                                        *)
LoopsExact == SpacesEaten /\ LineConsumed /\ BreaksExplained

(* my_string.h:14-15, 26-27: the index of a character is inside the String.*)
IndexAsserted == pc # "break"
=============================================================================
