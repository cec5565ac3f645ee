---------------------------- MODULE BloomSizing ----------------------------
(***************************************************************************)
(* How large the filter of a tournament and its account are (utils.rs).    *)
(*                                                                         *)
(* A precision is the rate of false positives in millionths.  The code     *)
(* computes in f64; the operators give the same numbers with integers, for *)
(* every precision and for every number of participants that the limit     *)
(* lets through:                                                           *)
(*   - 8080 * 8 * ln 2 = 44805.03..., and the fraction is too small to     *)
(*     make a difference when it is divided by a number of slices;         *)
(*   - n / ln 2 and n * 36744 / 25469 have the same ceiling for every n up *)
(*     to 44805, and the product stays below 2^31.                         *)
(***************************************************************************)
EXTENDS Naturals

Scale == 1000000      \* a precision of one: every lookup a false positive
U16Max == 65535
Overhead == 76

CeilDiv(a, b) == (a + b - 1) \div b

\* ceil(log2(1 / fp)) for 0 < fp < 1: the hash functions of the filter.
NumSlices(precision) ==
  CHOOSE k \in 1..20 :
    /\ 2^k >= CeilDiv(Scale, precision)
    /\ \A j \in 0..(k - 1) : 2^j < CeilDiv(Scale, precision)

\* Faulty: the room is not divided among the slices.
MaxParticipantsOneSlice(precision) == 44805

\* max_participants_count.  At a precision of one the logarithm is zero and the
\* quotient infinite, above one it is not positive, and at zero the number of slices
\* is infinite: the cast to u16 saturates.
MaxParticipants(precision) ==
  IF 0 < precision /\ precision < Scale THEN 44805 \div NumSlices(precision)
  ELSE IF precision = Scale THEN U16Max ELSE 0

\* slice_len_bits: ceil(n / ln 2).
SliceLen(n) == CeilDiv(n * 36744, 25469)

\* buffer_bytes, for the code that sizes the account and, with the same formula,
\* for the library that allocates the filter.
BufferBytes(n, precision) == (NumSlices(precision) * SliceLen(n) + 7) \div 8

\* What calculate_bloom_memory returns.
FilterMemory(n, precision) == Overhead + BufferBytes(n, precision)

\* The space of the account: the discriminator comes on top.
AccountSpace(n, precision) == 8 + FilterMemory(n, precision)

\* The constructor of the library's filter asserts this.
BloomCreated(precision) == 0 < precision /\ precision < Scale

\* The two things creation asks of the filter: the check of calculate_bloom_memory
\* and the constructor in initialize_bloom_filter.
FilterAccepted(n, precision) == n <= MaxParticipants(precision) /\ BloomCreated(precision)

\* The discriminator, the length of the data, the fields of the filter and its
\* bits: what the account holds from the first key on.
StoredBytes(n, precision) == 8 + 4 + 72 + BufferBytes(n, precision)
=============================================================================
