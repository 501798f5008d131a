------------------------------ MODULE MCTokens ------------------------------
(* Instances of Tokens for TLC: every value of up to three characters on two *)
(* lines, of which either may be another header or a line of the body.       *)
EXTENDS Tokens

CONSTANT MaxLength   \* characters of a value

MCLetters == {"a", "A", "b"}
MCFold == [c \in MCLetters |-> IF c = "A" THEN "a" ELSE c]
MCSep == ","

Values(n) == UNION {[1..len -> MCLetters \cup {MCSep}] : len \in 0..n}

Header(v) == [wanted |-> TRUE, header |-> TRUE, value |-> v]
Other == [wanted |-> FALSE, header |-> TRUE, value |-> <<"a">>]
Body(v) == [wanted |-> TRUE, header |-> FALSE, value |-> v]

MCLines ==
    {Header(v) : v \in Values(MaxLength)} \cup {Other} \cup {Body(v) : v \in Values(1)}
(* Headers come before the body. *)
MCSources == {L \in [1..2 -> MCLines] : L[1].header \/ ~L[2].header}

=============================================================================
