---------------------------- MODULE ContextBuffer ----------------------------
(***************************************************************************)
(* NetworkContext of StudyServer: the buffer of one overlapped operation.  *)
(* Bytes from read up to write are unread; positions are C++ ints, so       *)
(* DataSize may be negative.  A byte is any member of Cell: the properties  *)
(* only tell bytes of different packets apart.                             *)
(***************************************************************************)
EXTENDS Integers, Sequences

CONSTANTS Cap,    \* mBuffer.size(): 8096 in the code
          Cell,   \* the values a byte may have
          Zero    \* the byte mBuffer.fill(0) writes

Context == [data : [0..(Cap - 1) -> Cell], read : 0..Cap, write : 0..Cap]

RemainSize(c) == Cap - c.write
DataSize(c) == c.write - c.read

EmptyContext ==
  [data |-> [k \in 0..(Cap - 1) |-> Zero], read |-> 0, write |-> 0]

(* The bytes between the two positions, as a sequence. *)
Unread(c) == [k \in 1..DataSize(c) |-> c.data[c.read + k - 1]]

(* memmove of the unread bytes to the front. *)
MoveToFront(c) ==
  [k \in 0..(Cap - 1) |-> IF k < DataSize(c) THEN c.data[c.read + k]
                                             ELSE c.data[k]]

(* The bytes move to the front and write follows them; read stays. *)
AlignBuffer(c) ==
  IF c.read = 0 THEN c
  ELSE IF c.read < c.write
       THEN [c EXCEPT !.data = MoveToFront(c), !.write = c.write - c.read]
       ELSE EmptyContext

(* Write(void*, size_t) aligns when s does not fit, and fails when it still *)
(* does not fit: the alignment stays done.                                 *)
MakeRoom(c, n) == IF n > RemainSize(c) THEN AlignBuffer(c) ELSE c
Fits(c, n) == n <= RemainSize(MakeRoom(c, n))

PutBytes(c, s) ==
  [c EXCEPT !.data = [k \in 0..(Cap - 1) |->
                        IF k \in c.write..(c.write + Len(s) - 1)
                        THEN s[k - c.write + 1] ELSE c.data[k]],
            !.write = c.write + Len(s)]

Write(c, s) == PutBytes(MakeRoom(c, Len(s)), s)

(* Write(int) and Read(int): the positions move when the bytes are there. *)
CanWrite(c, n) == n <= RemainSize(c)
WriteDone(c, n) == IF CanWrite(c, n) THEN [c EXCEPT !.write = @ + n] ELSE c

CanRead(c, n) == n <= DataSize(c)
ReadDone(c, n) == IF CanRead(c, n) THEN [c EXCEPT !.read = @ + n] ELSE c
=============================================================================
