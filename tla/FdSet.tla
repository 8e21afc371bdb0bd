------------------------------- MODULE FdSet -------------------------------
(***************************************************************************)
(* The descriptor sets of PowerNet/include/sys/select.h, as far as PowerNet *)
(* uses them: select() looks at one word of the array, fds_bits[0], and no  *)
(* caller ever puts more than one descriptor in a set.  A set is therefore  *)
(* the first word that FD_ZERO followed by FD_SET(d, &set) leaves.          *)
(***************************************************************************)
EXTENDS Integers

\* 8 * sizeof(long) on the 68K and PowerPC targets.
BitsPerWord == 32

\* 1UL << d for the bits of a word below the top one: 2^31 is beyond the
\* integers of the model checker, and no program here opens 32 sockets.
Bit == << 1, 2, 4, 8, 16, 32, 64, 128, 256, 512, 1024, 2048, 4096, 8192,
          16384, 32768, 65536, 131072, 262144, 524288, 1048576, 2097152,
          4194304, 8388608, 16777216, 33554432, 67108864, 134217728,
          268435456, 536870912, 1073741824 >>

\* fds_bits[0] after FD_ZERO(&set); FD_SET(d, &set).
Word0(d) == IF d \div BitsPerWord = 0 THEN Bit[(d % BitsPerWord) + 1] ELSE 0
=============================================================================
