------------------------------- MODULE Buffer -------------------------------
(***************************************************************************)
(* The byte buffer of a connection (buffer.hh, buffer.cc) as operators on  *)
(* its size and two indices; the bytes themselves are left out.  size_t    *)
(* arithmetic is modulo Word.  What an operation can end in besides a      *)
(* buffer is its fault: a failed assertion, std::length_error, or a write  *)
(* beyond the vector.                                                      *)
(***************************************************************************)
EXTENDS Integers

CONSTANTS PRETEND_SIZE, INIT_SIZE,
          EXTRA_SIZE,  \* read_socket's array on the stack
          Word         \* 2^w, for a size_t of w bits

ASSUME BufferAssumption ==
  /\ {PRETEND_SIZE, INIT_SIZE, EXTRA_SIZE, Word} \subseteq Nat \ {0}
  /\ PRETEND_SIZE + INIT_SIZE + EXTRA_SIZE < Word \div 2

Size == 0 .. Word - 1
Buffers == [size : Size, read : Size, write : Size]

Plus(a, b) == (a + b) % Word
Minus(a, b) == (a - b) % Word
MaxSize == Word \div 2 - 1         \* vector::max_size()

NewBuffer == [size |-> PRETEND_SIZE + INIT_SIZE, read |-> PRETEND_SIZE, write |-> PRETEND_SIZE]

writeable_bytes(b) == Minus(b.size, b.write)
readable_bytes(b) == Minus(b.write, b.read)
prependable_bytes(b) == b.read

Fails(b, fault) == [buf |-> b, fault |-> fault]
Returns(b) == Fails(b, "none")

\* Growing keeps the size asked for, not the content; moving down recomputes
\* write_idx_ from the writable bytes, and asserts what then holds.
make_space(b, size) ==
  LET wanted == Plus(size, PRETEND_SIZE)
      moved == [b EXCEPT !.read = PRETEND_SIZE,
                         !.write = Plus(PRETEND_SIZE, writeable_bytes(b))]
  IN
  IF Plus(prependable_bytes(b), writeable_bytes(b)) < wanted
  THEN IF wanted > MaxSize THEN Fails(b, "length_error")
                           ELSE Returns([b EXCEPT !.size = wanted])
  ELSE IF writeable_bytes(moved) = writeable_bytes(b) THEN Returns(moved)
                                                      ELSE Fails(moved, "assertion")

\* The assertion is strict: room for exactly `size' is not enough.
ensure_writeable_bytes(b, size) ==
  LET made == IF writeable_bytes(b) < size THEN make_space(b, size) ELSE Returns(b) IN
  IF made.fault # "none" \/ writeable_bytes(made.buf) > size
  THEN made
  ELSE Fails(made.buf, "assertion")

\* The data is copied to write_idx_, which stays.
append(b, len) ==
  LET ensured == ensure_writeable_bytes(b, len) IN
  IF ensured.fault = "none" /\ ensured.buf.write + len > ensured.buf.size
  THEN Fails(ensured.buf, "overflow")
  ELSE ensured

\* Mutation: no assertion, and the index grows past the width of size_t.
retrieve_Unchecked(b, len) == Returns([b EXCEPT !.read = b.read + len])

retrieve(b, len) ==
  IF len < readable_bytes(b) THEN Returns([b EXCEPT !.read = Plus(b.read, len)])
                             ELSE Fails(b, "assertion")

\* Mutation: only one index is reset.
retrieve_all_KeepsWrite(b) == [b EXCEPT !.read = PRETEND_SIZE]

retrieve_all(b) == [b EXCEPT !.read = PRETEND_SIZE, !.write = PRETEND_SIZE]

\* total is readv's result as a size_t, so a failure is Word - 1.
read_socket(b, total) ==
  IF total = 0 THEN Returns(b)
  ELSE IF writeable_bytes(b) > total
  THEN Returns([b EXCEPT !.write = Plus(b.write, total)])
  ELSE append([b EXCEPT !.write = b.size], Minus(total, writeable_bytes(b)))
=============================================================================
