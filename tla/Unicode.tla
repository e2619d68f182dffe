------------------------------- MODULE Unicode -------------------------------
(***************************************************************************)
(* Foundation::wstring2string and string2wstring (Unicode.cpp), and utf8len *)
(* of the scripts (stringex.lua), which counts the characters of the same  *)
(* texts.  A wide character has 16 or 32 bits, as the platform has it.     *)
(***************************************************************************)
EXTENDS Integers, Sequences

\* Bits of a wide character above k.
Above(ch, k) == ch \div 2^k

\* Six bits of a wide character, in a byte that continues one.
Rest(ch, k) == 128 + (Above(ch, k) % 64)

\* The bytes of one wide character.  The sixth byte is forgotten where there
\* should be six, and from 0x8000000 on there are none.
CharBytes(ch) ==
  CASE ch < 128 -> <<ch>>
    [] ch \in 128..(2^11 - 1) -> <<192 + Above(ch, 6), Rest(ch, 0)>>
    [] ch \in 2^11..(2^16 - 1) -> <<224 + Above(ch, 12), Rest(ch, 6), Rest(ch, 0)>>
    [] ch \in 2^16..(2^21 - 1) -> <<240 + Above(ch, 18), Rest(ch, 12), Rest(ch, 6), Rest(ch, 0)>>
    [] ch \in 2^21..(2^26 - 1) ->
         <<248 + Above(ch, 24), Rest(ch, 18), Rest(ch, 12), Rest(ch, 6), Rest(ch, 0)>>
    [] ch \in 2^26..(2^27 - 1) ->
         <<252 + Above(ch, 30), Rest(ch, 18), Rest(ch, 12), Rest(ch, 6), Rest(ch, 0)>>
    [] OTHER -> <<>>

wstring2string(wide) ==
  LET out[i \in 0..Len(wide)] == IF i = 0 THEN <<>> ELSE out[i - 1] \o CharBytes(wide[i])
  IN  out[Len(wide)]

\* The number of bytes a first byte announces; one for a stray continuation.
Announced(b) ==
  CASE b >= 252 -> 6 [] b \in 248..251 -> 5 [] b \in 240..247 -> 4
    [] b \in 224..239 -> 3 [] b \in 192..223 -> 2 [] OTHER -> 1

\* A text is read without a look at its end: a zero stands there, and then
\* whatever lies in memory.
At(text, i, stray) ==
  CASE i < Len(text) -> text[i + 1] [] i = Len(text) -> 0 [] OTHER -> stray

\* A single byte is a signed char; a wide character of 16 bits keeps the lower half.
WideChar(text, i, wideBits, stray) ==
  LET n == Announced(text[i + 1])
      value[k \in 1..n] == IF k = 1 THEN text[i + 1] % 2^(7 - n)
                           ELSE value[k - 1] * 64 + (At(text, i + k - 1, stray) % 64)
      ch == IF n > 1 THEN value[n] ELSE IF text[i + 1] > 127 THEN text[i + 1] - 256 ELSE text[i + 1]
  IN  IF wideBits = 16 THEN ch % 2^16 ELSE ch

string2wstring(text, wideBits, stray) ==
  LET from[i \in 0..(Len(text) + 5)] ==
        IF i >= Len(text) THEN <<>>
        ELSE <<WideChar(text, i, wideBits, stray)>> \o from[i + Announced(text[i + 1])]
  IN  from[0]

\* A text whose last character is cut: the conversion reads behind it.
ReadsPastEnd(text) ==
  LET from[i \in 0..(Len(text) + 5)] ==
        IF i >= Len(text) THEN i > Len(text) ELSE from[i + Announced(text[i + 1])]
  IN  from[0]

(***************************************************************************)
(* utf8len walks from the front with the number of bytes left, in steps of *)
(* the highest arr[i] a byte reaches; past the end byte() answers nil and   *)
(* the comparison raises an error.                                         *)
(***************************************************************************)
Raises == -1

\* Mutant: the table ends with five bytes.
arrOfFive == <<0, 192, 224, 240, 248, 256>>

arr == <<0, 192, 224, 240, 248, 252>>

Step(tmp) == CHOOSE i \in 1..6 : arr[i] <= tmp /\ \A k \in (i + 1)..6 : tmp < arr[k]

utf8len(text) ==
  LET count[left \in -5..Len(text)] ==
        CASE left = 0 -> 0
          [] left < 0 -> Raises
          [] OTHER -> LET n == count[left - Step(text[Len(text) - left + 1])]
                      IN  IF n = Raises THEN Raises ELSE n + 1
  IN  count[Len(text)]
=============================================================================
