------------------------------ MODULE MCCodecs ------------------------------
EXTENDS Codecs

Run(n) == [i \in 1..n |-> (i * 5) % 256]

\* First bytes of every length, a continuation, a line feed, a dot, '=' and runs that
\* end just before, at and behind the places where a block is full.
MCPieces == {<<c>> : c \in {46, 10, 61, 128, 195, 226, 240, 248, 252, 255}}
            \cup {Run(n) : n \in {8, 55, 63, 64}} \cup {[i \in 1..16 |-> 3]}

MCWideChars == {65, 127, 128, 2^11 - 1, 2^11, 2^16 - 1, 2^16, 2^21 - 1, 2^21, 2^26 - 1, 2^26}
=============================================================================
