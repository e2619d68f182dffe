--------------------------------- MODULE Aes ---------------------------------
(***************************************************************************)
(* aesEncrypt and aesDecrypt of aes.cpp: block after block of 16 bytes, with *)
(* a padding that says how long it is.  The cipher itself (its tables, key   *)
(* schedules and rounds) stands for one bijection of blocks, Sealed.         *)
(***************************************************************************)
EXTENDS Integers, Sequences

BLOCK_SIZE == 16
Failure == -1

Sealed(block) == [sealed |-> block]
Opened(block) == block.sealed

Least(m, n) == IF m < n THEN m ELSE n

\* Mutant: no block of padding behind a full block.
BlocksWithoutPadding(input) ==
  LET inlen == Len(input)
      count == (inlen + BLOCK_SIZE - 1) \div BLOCK_SIZE
      lack == BLOCK_SIZE - (inlen % BLOCK_SIZE)
      padded == input \o [i \in 1..lack |-> lack]
  IN  [k \in 1..count |-> SubSeq(padded, BLOCK_SIZE * (k - 1) + 1, BLOCK_SIZE * k)]

\* The blocks of an input: what lacks in the last one is filled with the
\* number of bytes that lack; behind a last full block comes one of padding.
\* An empty input has no block.
Blocks(input) ==
  LET inlen == Len(input)
      count == IF inlen = 0 THEN 0 ELSE inlen \div BLOCK_SIZE + 1
      lack == BLOCK_SIZE - (inlen % BLOCK_SIZE)
      padded == input \o [i \in 1..lack |-> lack]
  IN  [k \in 1..count |-> SubSeq(padded, BLOCK_SIZE * (k - 1) + 1, BLOCK_SIZE * k)]

\* What is written before the room runs out stays written.
aesEncrypt(outlen, input) ==
  LET blocks == Blocks(input)
      fit == Least(Len(blocks), outlen \div BLOCK_SIZE)
  IN  [output |-> [k \in 1..fit |-> Sealed(blocks[k])],
       ret |-> IF fit < Len(blocks) THEN Failure ELSE BLOCK_SIZE * fit]

\* input is the blocks among inlen bytes; bytes beyond the last whole block
\* make the call fail, after the last whole block was taken for the last one.
aesDecrypt(outlen, input, inlen) ==
  LET whole == inlen \div BLOCK_SIZE
      after[k \in 0..whole] ==
        IF k = 0 THEN [output |-> <<>>, failed |-> FALSE]
        ELSE LET before == after[k - 1]
                 plaintext == Opened(input[k])
                 padlen == plaintext[BLOCK_SIZE]
                 isLast == k = whole
                 datalen == IF isLast THEN BLOCK_SIZE - padlen ELSE BLOCK_SIZE
             IN  IF \/ before.failed
                    \/ isLast /\ padlen \notin 1..16
                    \/ outlen - Len(before.output) < datalen
                 THEN [before EXCEPT !.failed = TRUE]
                 ELSE [before EXCEPT !.output = @ \o SubSeq(plaintext, 1, datalen)]
      done == after[whole]
  IN  [output |-> done.output,
       ret |-> IF done.failed \/ inlen % BLOCK_SIZE # 0 THEN Failure ELSE Len(done.output)]
=============================================================================
