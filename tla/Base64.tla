------------------------------- MODULE Base64 -------------------------------
(***************************************************************************)
(* Foundation::Base64, over sequences of bytes.  encode is written three   *)
(* times (for a file, for signed and for unsigned characters) and decode   *)
(* twice, each time with the same arithmetic.                              *)
(***************************************************************************)
EXTENDS Integers, Sequences

\* The character of six bits, and the six bits of a character: 0 for one that
\* is not in the alphabet, as '=' is.
bstr == [v \in 0..63 |-> CASE v < 26 -> 65 + v        [] v \in 26..51 -> 71 + v
                           [] v \in 52..61 -> v - 4   [] v = 62 -> 43 [] v = 63 -> 47]

rstr == [c \in 0..127 |-> CASE c \in 65..90 -> c - 65  [] c \in 97..122 -> c - 71
                            [] c \in 48..57 -> c + 4   [] c = 43 -> 62 [] c = 47 -> 63 [] OTHER -> 0]

Equals == 61
LineFeed == 10
CarriageReturn == 13

\* Mutant: one '=' at most.
QuartetPaddingOnce(input, i) ==
  LET remain == Len(input) - i
      b(k) == IF k < remain THEN input[i + k + 1] ELSE 0
  IN  <<bstr[b(0) \div 4],
        bstr[(b(0) % 4) * 16 + b(1) \div 16],
        bstr[(b(1) % 16) * 4 + b(2) \div 64],
        IF remain <= 2 THEN Equals ELSE bstr[b(2) % 64]>>

\* The four characters of the up to three bytes from index i.
Quartet(input, i) ==
  LET remain == Len(input) - i
      b(k) == IF k < remain THEN input[i + k + 1] ELSE 0
  IN  <<bstr[b(0) \div 4],
        bstr[(b(0) % 4) * 16 + b(1) \div 16],
        IF remain = 1 THEN Equals ELSE bstr[(b(1) % 16) * 4 + b(2) \div 64],
        IF remain <= 2 THEN Equals ELSE bstr[b(2) % 64]>>

encode(input, add_crlf) ==
  LET out[g \in 0..((Len(input) + 2) \div 3)] ==
        IF g = 0 THEN <<>>
        ELSE LET o == 4 * (g - 1)
                 break == add_crlf /\ o # 0 /\ o % 76 = 0
             IN  out[g - 1] \o (IF break THEN <<LineFeed>> ELSE <<>>) \o Quartet(input, 3 * (g - 1))
  IN  out[(Len(input) + 2) \div 3]

(***************************************************************************)
(* Decoding reads four characters without asking whether they are there.   *)
(* Just behind the text stands a zero; what lies further, and the table    *)
(* outside 0..127, where a character above 127 leads, yields any value:    *)
(* stray.                                                                  *)
(***************************************************************************)
At(text, i, stray) ==
  CASE i < Len(text) -> text[i + 1] [] i = Len(text) -> 0 [] OTHER -> stray

Bits(c, stray) == IF c \in DOMAIN rstr THEN rstr[c] ELSE stray % 64

Triple(text, i, stray) ==
  LET c(k) == At(text, i + k, stray)
      r(k) == Bits(c(k), stray)
  IN  <<r(0) * 4 + r(1) \div 16>>
      \o (IF c(2) = Equals THEN <<>> ELSE <<(r(1) % 16) * 16 + r(2) \div 4>>)
      \o (IF c(3) = Equals THEN <<>> ELSE <<(r(2) % 4) * 64 + r(3)>>)

decode(text, stray) ==
  LET from[i \in 0..(Len(text) + 3)] ==
        IF i >= Len(text) THEN <<>>
        ELSE IF text[i + 1] \in {LineFeed, CarriageReturn} THEN from[i + 1]
        ELSE Triple(text, i, stray) \o from[i + 4]
  IN  from[0]

\* A text that decode leaves: it ends inside four characters.
ReadsPastEnd(text) ==
  LET from[i \in 0..(Len(text) + 3)] ==
        IF i >= Len(text) THEN i > Len(text)
        ELSE IF text[i + 1] \in {LineFeed, CarriageReturn} THEN from[i + 1]
        ELSE from[i + 4]
  IN  from[0]

\* The length of the output, from the text alone.
decode_length(text) ==
  LET l == Len(text) IN
  IF l = 0 \/ l % 4 # 0 THEN 0
  ELSE 3 * (l \div 4 - 1) + 1
       + (IF text[l - 1] # Equals THEN 1 ELSE 0) + (IF text[l] # Equals THEN 1 ELSE 0)
=============================================================================
