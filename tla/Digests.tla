------------------------------- MODULE Digests -------------------------------
(***************************************************************************)
(* How MD5 (md5.hpp) and Sha1 (sha1.hpp) cut a message into the blocks they *)
(* compress.  Compression is left out: a digest is determined by the        *)
(* sequence of blocks, which is what the state here collects.               *)
(***************************************************************************)
EXTENDS Integers, Sequences

Block == 64

Zeros(n) == [i \in 1..n |-> 0]

\* Eight bytes of a number, the lowest or the highest first: what is above
\* 2^64 is lost.
LowFirst(n) ==
  LET from[i \in 1..8] == IF i = 1 THEN n ELSE from[i - 1] \div 256
  IN  [i \in 1..8 |-> from[i] % 256]

HighFirst(n) == [i \in 1..8 |-> LowFirst(n)[9 - i]]

\* The whole blocks of a sequence of bytes.
BlocksOf(s) == [i \in 1..(Len(s) \div Block) |-> SubSeq(s, Block * (i - 1) + 1, Block * i)]

(***************************************************************************)
(* MD5: a message comes in pieces.  buf holds a partial block, and below    *)
(* and behind it what earlier blocks left.  count is the number of bits, in *)
(* two words: LowFirst keeps of it what they keep.                          *)
(***************************************************************************)
md5_init == [count |-> 0, buf |-> Zeros(Block), blocks |-> <<>>]

md5_process(pms, data) == [pms EXCEPT !.blocks = Append(@, data)]

\* memcpy(pms->buf + offset, p, n)
Copied(buf, offset, p) ==
  [i \in 1..Block |-> IF i - offset \in DOMAIN p THEN p[i - offset] ELSE buf[i]]

md5_append(pms, data) ==
  LET nbytes == Len(data)
      offset == (pms.count \div 8) % Block
      copy == IF offset + nbytes > Block THEN Block - offset ELSE nbytes
      counted == [pms EXCEPT !.count = @ + 8 * nbytes]
      partial == [counted EXCEPT !.buf = Copied(@, offset, SubSeq(data, 1, copy))]
      begun == IF offset = 0 THEN counted ELSE md5_process(partial, partial.buf)
      p == IF offset = 0 THEN data ELSE SubSeq(data, copy + 1, nbytes)
      done == [begun EXCEPT !.blocks = @ \o BlocksOf(p)]
      left == Len(p) % Block
  IN  CASE nbytes = 0 -> pms
        [] nbytes > 0 /\ offset > 0 /\ offset + copy < Block -> partial
        [] OTHER -> IF left = 0 THEN done
                    ELSE [done EXCEPT !.buf = Copied(@, 0, SubSeq(p, Len(p) - left + 1, Len(p)))]

\* Mutant: the length is taken after the padding.
md5_finishCountingPadding(pms) ==
  LET pad == <<128>> \o Zeros(Block - 1)
      padded == md5_append(pms, SubSeq(pad, 1, ((55 - pms.count \div 8) % Block) + 1))
  IN  md5_append(padded, LowFirst(padded.count))

\* The length is saved before the padding is appended, and appended after it.
md5_finish(pms) ==
  LET data == LowFirst(pms.count)
      pad == <<128>> \o Zeros(Block - 1)
  IN  md5_append(md5_append(pms, SubSeq(pad, 1, ((55 - pms.count \div 8) % Block) + 1)), data)

md5_hash_string(s) == md5_finish(md5_append(md5_init, s))

(***************************************************************************)
(* Sha1 takes the message at once, in words of four bytes, the highest      *)
(* first; a block of words stands for its bytes.                            *)
(***************************************************************************)
calc(src) ==
  LET bytelength == Len(src)
      full == bytelength \div Block
      rest == SubSeq(src, Block * full + 1, bytelength)
      last == rest \o <<128>> \o Zeros(Block - Len(rest) - 1)
      length(b) == SubSeq(b, 1, Block - 4) \o SubSeq(HighFirst(8 * bytelength), 5, 8)
  IN  BlocksOf(src)
      \o (IF Len(rest) >= 56 THEN <<last, length(Zeros(Block))>> ELSE <<length(last)>>)

(***************************************************************************)
(* The definition both follow: the message, a one bit, as few zeros as      *)
(* leave room for the length in the last block, and the length.             *)
(***************************************************************************)
Padded(message, length) ==
  LET zeros == CHOOSE n \in 0..(Block - 1) : (Len(message) + 1 + n + 8) % Block = 0
  IN  message \o <<128>> \o Zeros(zeros) \o length
=============================================================================
