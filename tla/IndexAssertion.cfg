CONSTANTS
    Ops = {"eat_spaces", "eat_trailing_spaces", "consume_next_line"}
    MaxLength = 4
SPECIFICATION StringsSpec
INVARIANTS IndexAsserted
CHECK_DEADLOCK FALSE
