------------------------------ MODULE InetAddr ------------------------------
(***************************************************************************)
(* inet_addr() of PowerNet/src/arpa/netinet.cpp: the loop over the four      *)
(* parts of an address, with its early returns.                             *)
(*                                                                         *)
(* A text is the sequence of its fields, what stands between the dots.  How *)
(* a field is spelled gives its base ("0x": 16, "0": 8, anything else: 10)   *)
(* and the digits after that; junk is a character that is no digit in any    *)
(* base.  The empty string is one field without digits.                     *)
(*                                                                         *)
(* An unsigned long is the pair of its 16-bit halves.                       *)
(***************************************************************************)
EXTENDS Integers, Sequences

CONSTANTS
  Fields,            \* the fields texts are made of
  MaxFields          \* bound: fields of a text

Half == 65536
Long == (0..(Half - 1)) \X (0..(Half - 1))
Field == [base : {8, 10, 16}, digits : Seq(0..15), junk : BOOLEAN]

\* What can stand between two dots: a letter is a digit after "0x" only, and
\* a field that starts with 0 is not decimal.
Spelling ==
  { f \in Field : /\ f.base # 16 => \A k \in DOMAIN f.digits : f.digits[k] <= 9
                 /\ f.base = 10 /\ f.digits # << >> => f.digits[1] # 0 }

ASSUME FieldsAssumption == Fields \subseteq Spelling
ASSUME MaxFieldsAssumption == MaxFields \in Nat

Texts == UNION { [1..n -> Fields] : n \in 1..MaxFields }

VARIABLES text, i, parts, result
vars == <<text, i, parts, result>>

Pending == "pending"                        \* no result yet
INADDR_NONE == << Half - 1, Half - 1 >>     \* 0xFFFFFFFF
EmptyText == << [base |-> 10, digits |-> << >>, junk |-> FALSE] >>

TypeOK ==
  /\ text \in Seq(Field) /\ i \in 0..4
  /\ parts \in Seq(Long) /\ Len(parts) = i
  /\ result = Pending \/ result \in Long

Init ==
  /\ text \in Texts
  /\ i = 0 /\ parts = << >>
  /\ result = IF text = EmptyText THEN INADDR_NONE ELSE Pending

----------------------------------------------------------------------------
\* (val * base) + n in 32 bits.  [mutant: it does not wrap around]
TimesPlusWide(val, base, n) ==
  << val[1] * base + (val[2] * base + n) \div Half, (val[2] * base + n) % Half >>
TimesPlus(val, base, n) ==
  << (val[1] * base + (val[2] * base + n) \div Half) % Half, (val[2] * base + n) % Half >>

\* The digits of a field, read from left to right.
Value(f) ==
  LET val[k \in 0..Len(f.digits)] ==
        IF k = 0 THEN << 0, 0 >> ELSE TimesPlus(val[k - 1], f.base, f.digits[k])
  IN val[Len(f.digits)]

\* The field at cp: at the end of the text, an empty one.
Current == IF i < Len(text) THEN text[i + 1] ELSE EmptyText[1]

\* What stops the reading of a field.  [mutant: the digit is not compared with
\* the base]
StoppedByJunk(f) == f.junk
Stopped(f) == f.junk \/ \E k \in DOMAIN f.digits : f.digits[k] >= f.base

\* a | b, of 8 bits and of 16.
BitOr(a, b, p) == IF (a \div p) % 2 = 1 \/ (b \div p) % 2 = 1 THEN p ELSE 0
OrByte(a, b) ==
  BitOr(a, b, 1) + BitOr(a, b, 2) + BitOr(a, b, 4) + BitOr(a, b, 8)
  + BitOr(a, b, 16) + BitOr(a, b, 32) + BitOr(a, b, 64) + BitOr(a, b, 128)
Or(a, b) == OrByte(a \div 256, b \div 256) * 256 + OrByte(a % 256, b % 256)

\* The four parts, shifted into their places.  [mutant: from the right]
JoinReversed(p) ==
  << Or(Or(Or((p[4][2] % 256) * 256, p[3][2]), (p[2][1] % 256) * 256 + p[2][2] \div 256),
        p[1][1]),
     Or((p[2][2] % 256) * 256, p[1][2]) >>
Join(p) ==
  << Or(Or(Or((p[1][2] % 256) * 256, p[2][2]), (p[3][1] % 256) * 256 + p[3][2] \div 256),
        p[4][1]),
     Or((p[3][2] % 256) * 256, p[4][2]) >>

\* An invalid character, or a fourth dot.
Reject ==
  /\ result = Pending /\ i < 4
  /\ Stopped(Current) \/ (i = 3 /\ Len(text) > 4)
  /\ result' = INADDR_NONE
  /\ UNCHANGED <<text, i, parts>>

NextPart ==
  /\ result = Pending /\ i < 4
  /\ ~Stopped(Current) /\ ~(i = 3 /\ Len(text) > 4)
  /\ parts' = Append(parts, Value(Current)) /\ i' = i + 1
  /\ UNCHANGED <<text, result>>

\* The check for missing parts follows a loop that is left with i = 4 only.
Finish ==
  /\ result = Pending /\ i = 4
  /\ result' = Join(parts)
  /\ UNCHANGED <<text, i, parts>>

Next == Reject \/ NextPart \/ Finish

Spec == Init /\ [][Next]_vars

----------------------------------------------------------------------------
\* The natural number a field spells, for a field of few digits, and the fields
\* that are the parts of an address in the usual notation.
Spelled(f) ==
  LET upto[k \in 0..Len(f.digits)] ==
        IF k = 0 THEN 0 ELSE upto[k - 1] * f.base + f.digits[k]
  IN upto[Len(f.digits)]

Wellformed(f) == ~f.junk /\ \A k \in DOMAIN f.digits : f.digits[k] < f.base
Octet(f) ==
  /\ Wellformed(f) /\ Len(f.digits) <= 3 /\ Spelled(f) < 256
  /\ f.base = 10 => f.digits # << >>

\* The usual notation is read as usual: a.b.c.d, each in any of the three bases,
\* is the number whose bytes are a, b, c and d (netinet.cpp:16-57).
DottedQuadRead ==
  Len(text) = 4 /\ (\A k \in 1..4 : Octet(text[k])) /\ result # Pending =>
    result = << Spelled(text[1]) * 256 + Spelled(text[2]),
                Spelled(text[3]) * 256 + Spelled(text[4]) >>

\* A text with a wrong character anywhere, or with a dot too many, is rejected,
\* however far the loop came (netinet.cpp:36-49).
MalformedRejected ==
  result # Pending /\ (Len(text) > 4 \/ \E k \in DOMAIN text : ~Wellformed(text[k]))
    => result = INADDR_NONE
=============================================================================
