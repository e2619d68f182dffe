------------------------------- MODULE Codecs -------------------------------
(***************************************************************************)
(* The pure functions over bytes, on a message that grows piece by piece,   *)
(* as a program hands it to md5_append; a message made of whole wide        *)
(* characters is the conversion of a wide text.                             *)
(***************************************************************************)
EXTENDS Integers, Sequences

CONSTANTS
  Pieces,      \* raw bytes the program appends
  WideChars,   \* characters of wide texts
  Separators,  \* the characters that end a field
  MaxPieces    \* bound: pieces and characters of one message

B == INSTANCE Base64
U == INSTANCE Unicode
D == INSTANCE Digests
A == INSTANCE Aes
F == INSTANCE Fields

ASSUME CodecsAssumption ==
  /\ Pieces \subseteq Seq(0..255) /\ WideChars \subseteq 0..(2^27 - 1)
  /\ Separators \subseteq 0..255 /\ MaxPieces \in Nat

VARIABLES
  message,     \* the bytes so far
  wide,        \* the wide text they come from, or Raw
  pms,         \* the md5_state_t that was given the same pieces
  pieces       \* the number of pieces so far

messageVars == <<message, wide, pms, pieces>>

Raw == <<-1>>

MessageInit ==
  /\ message = <<>>
  /\ wide = <<>>
  /\ pms = D!md5_init
  /\ pieces = 0

AppendPiece(p) ==
  /\ pieces < MaxPieces /\ pieces' = pieces + 1
  /\ message' = message \o p
  /\ wide' = Raw
  /\ pms' = D!md5_append(pms, p)

AppendWide(ch) ==
  /\ pieces < MaxPieces /\ pieces' = pieces + 1
  /\ wide # Raw
  /\ wide' = Append(wide, ch)
  /\ message' = U!wstring2string(wide')
  /\ pms' = D!md5_append(pms, U!CharBytes(ch))

MessageNext ==
  (\E p \in Pieces : AppendPiece(p)) \/ (\E ch \in WideChars : AppendWide(ch))

Messages == MessageInit /\ [][MessageNext]_messageVars

-----------------------------------------------------------------------------
\* Decoding what was encoded gives the message back, with line feeds and
\* without, never reads behind the text, and decode_length knows the length
\* of a text without line feeds.
Base64IsUndone ==
  /\ \A add_crlf \in BOOLEAN :
       LET text == B!encode(message, add_crlf)
       IN  B!decode(text, 77) = message /\ ~B!ReadsPastEnd(text)
  /\ B!decode_length(B!encode(message, FALSE)) = Len(message)

\* A wide text comes back from its bytes, in either width it fits in, as long
\* as no character needs six bytes.
WideTextComesBack ==
  wide # Raw => \A wideBits \in {16, 32} :
    (\A i \in DOMAIN wide : wide[i] < (IF wideBits = 16 THEN 2^16 ELSE 2^26)) =>
       U!string2wstring(message, wideBits, 77) = wide

AllButLast(s) == SubSeq(s, 1, Len(s) - 1)

\* The separators that stand for themselves in a pattern.
Literal(separator) ==
  separator \notin F!NoPatterns \cup F!Places \cup {F!AnyCharacter}

\* The fields of split give the text back.  The two others differ from it in
\* the last field alone: getline drops it when it is empty, the iterator also
\* when it has one character.  That is so of any separator in getline, and in
\* the iterator of those its find does not take for something else.
FieldsRejoin ==
  \A separator \in Separators :
    LET fields == F!split(message, separator)
        last == Len(fields[Len(fields)])
    IN  /\ F!Joined(fields, separator) = message
        /\ F!getlineSplit(message, separator) = IF last = 0 THEN AllButLast(fields) ELSE fields
        /\ Literal(separator) =>
             F!SplitIterator(message, separator) = IF last <= 1 THEN AllButLast(fields) ELSE fields

\* Two texts in the program and its scripts that must mean the same: utf8len
\* counts the characters of every text the program can convert inside its
\* bounds, and refuses the others; a wide text of characters below 2^26 comes
\* back, through 16 bits below 2^16; fields rejoin.
TextsAgree ==
  /\ U!utf8len(message) = IF U!ReadsPastEnd(message) THEN U!Raises
                          ELSE Len(U!string2wstring(message, 32, 77))
  /\ WideTextComesBack
  /\ FieldsRejoin

\* In whatever pieces a message arrives, MD5 compresses the blocks of the
\* padded message and nothing that lay in its buffer; so does Sha1 at once,
\* as long as the number of bits is one that its int holds.
DigestsSeeThePaddedMessage ==
  LET bits == 8 * Len(message) IN
  /\ D!md5_finish(pms).blocks = D!BlocksOf(D!Padded(message, D!LowFirst(bits)))
  /\ D!md5_hash_string(message).blocks = D!md5_finish(pms).blocks
  /\ Len(message) < 2^28 =>
       D!calc(message) = D!BlocksOf(D!Padded(message, D!HighFirst(bits)))

\* What aesEncrypt wrote, aesDecrypt gives back where there is room for it and
\* refuses where there is not; neither writes more than it has room for.
CipherIsUndone ==
  LET n == Len(message)
      rooms == {r \in {0, 15, 16, n - 1, n, n + 15, n + 16} : r >= 0}
  IN  \A outlen \in rooms :
        LET e == A!aesEncrypt(outlen, message) IN
        /\ 16 * Len(e.output) <= outlen
        /\ outlen >= n + 16 => e.ret # A!Failure
        /\ e.ret # A!Failure => \A room \in rooms :
             LET d == A!aesDecrypt(room, e.output, e.ret) IN
             /\ Len(d.output) <= room
             /\ IF room >= n THEN d.ret = n /\ d.output = message ELSE d.ret = A!Failure
=============================================================================
