------------------------- MODULE MCExtendedAddress -------------------------
(* ExtendedAddress over Z_11 with generator 2, 2-bit checksums (a 4-bit    *)
(* hash64) and stand-in hash functions that depend on every input field.   *)
EXTENDS ExtendedAddress

\* Left half of sha512 as a scalar: depends on the tag, the key and the index.
MCSha512Left(x) == ((IF x[1] = "pub" THEN 3 ELSE 7) + 5 * x[2] + x[3]) % P

\* Right half of sha512 as a chain code.
MCSha512Right(x) == (x[2] + 2 * x[3] + (IF x[1] = "pub" THEN 0 ELSE 1)) % 3

\* hash64 of the first n bytes of <<pub, chain code>>.
MCHash64(bytes, n) == (13 * bytes[1] + 7 * bytes[2] + n) % 2^(2 * CheckBits)
=============================================================================
