------------------------------ MODULE MCLogger ------------------------------
EXTENDS Logger

Characters ==
    {"a", "b", "d", "x", "-", Junk} \cup Range(digitsHex)
    \cup Range(log_level_name) \cup Range(log_level_font_style_start)
    \cup {"time ", " ", "func", " - ", "file", ":", "\n", "reset"}

\* The opening takes 8 of the 25 characters: behind the long string a double
\* of 3 ends where the buffer ends, and its NUL does not fit.
StreamedItems == {Str(<<"a">>), Str([i \in 1..14 |-> "b"]),
                  Integer(-128), Pointer(255), Double(10), Double(3)}
=============================================================================
