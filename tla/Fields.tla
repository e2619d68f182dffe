------------------------------- MODULE Fields -------------------------------
(***************************************************************************)
(* Three ways to cut a text at a separator: split and SplitIterator of the  *)
(* scripts (stringex.lua) and Functional::split (Functional.cpp).           *)
(***************************************************************************)
EXTENDS Integers, Sequences, FiniteSets

\* The first place from pos on where the separator itself stands, or 0.
Find(str, separator, pos) ==
  LET places == {i \in pos..Len(str) : str[i] = separator} IN
  IF places = {} THEN 0 ELSE CHOOSE i \in places : \A k \in places : i <= k

\* split(str, delimiter): what is behind the last separator is a field too.
split(str, delimiter) ==
  LET from[pos \in 1..(Len(str) + 1)] ==
        LET st == Find(str, delimiter, pos)
        IN  IF st = 0 THEN <<SubSeq(str, pos, Len(str))>>
            ELSE <<SubSeq(str, pos, st - 1)>> \o from[st + 1]
  IN  from[1]

\* string.find without its fourth argument takes the separator for a pattern:
\* '.' is any character, '^' the place where the search begins and '$' the end,
\* both without a character of their own; '%', '(' and '[' alone are no pattern.
\* Any other character stands for itself.
AnyCharacter == 46
Places == {94, 36}
NoPatterns == {37, 40, 91}
FindPattern(str, separator, pos) ==
  IF separator = AnyCharacter THEN IF pos <= Len(str) THEN pos ELSE 0
  ELSE Find(str, separator, pos)

Raises == "error"    \* find raises an error
Endless == "endless" \* the iterator never answers nil

\* SplitIterator(szFullString, szSeparator), called until it answers nil.  The
\* last field is not given when it starts at the last character or behind.  A
\* place is found at every call, as the find of Lua 5.1, whose module() the
\* scripts use, begins at the end of the text when it is told to begin behind.
SplitIterator(szFullString, szSeparator) ==
  LET nStrLen == Len(szFullString)
      from[nFindStartIndex \in 1..(nStrLen + 1)] ==
        LET nFindLastIndex == FindPattern(szFullString, szSeparator, nFindStartIndex) IN
        CASE nFindLastIndex # 0 ->
               <<SubSeq(szFullString, nFindStartIndex, nFindLastIndex - 1)>> \o from[nFindLastIndex + 1]
          [] nFindLastIndex = 0 /\ nFindStartIndex >= nStrLen -> <<>>
          [] OTHER -> <<SubSeq(szFullString, nFindStartIndex, nStrLen)>>
  IN  CASE szSeparator \in NoPatterns -> Raises
        [] szSeparator \in Places -> Endless
        [] OTHER -> from[1]

\* Functional::split: getline answers until the text is used up, so behind a
\* separator at the end there is no field.
getlineSplit(s, delim) ==
  LET from[pos \in 1..(Len(s) + 1)] ==
        LET st == Find(s, delim, pos) IN
        CASE pos > Len(s) -> <<>>
          [] pos <= Len(s) /\ st = 0 -> <<SubSeq(s, pos, Len(s))>>
          [] OTHER -> <<SubSeq(s, pos, st - 1)>> \o from[st + 1]
  IN  from[1]

\* The fields with the separator between them.
Joined(fields, separator) ==
  LET piece(i) == IF i = 1 THEN fields[i] ELSE <<separator>> \o fields[i]
      text[i \in 0..Len(fields)] == IF i = 0 THEN <<>> ELSE text[i - 1] \o piece(i)
  IN  text[Len(fields)]
=============================================================================
