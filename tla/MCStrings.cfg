CONSTANTS
    Ops = {"eat_spaces", "eat_trailing_spaces", "consume_next_line"}
    MaxLength = 5
SPECIFICATION StringsSpec
INVARIANTS LoopsExact
\* A failed assertion stops the program.
CHECK_DEADLOCK FALSE
