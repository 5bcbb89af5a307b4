----------------------------- MODULE ParseSize -----------------------------
(***************************************************************************)
(* parse_size() of src/http/src/headers_receive.c, the conversion of a     *)
(* Content-Length header value into a size_t, modelled by what it does:    *)
(* leading isspace() characters are skipped, the first remaining character *)
(* must be a digit or '+', and the rest is handed to strtoull(in, &end, 0) *)
(* whose result is accepted only when errno stays 0, the whole value was   *)
(* consumed and the number fits in size_t.                                 *)
(*                                                                         *)
(* strtoull with base 0 is modelled as C specifies it: an optional sign,   *)
(* then "0x"/"0X" followed by a hex digit selects base 16, a leading "0"   *)
(* selects base 8, anything else base 10; the longest run of digits valid  *)
(* in that base is converted; no digit at all leaves end at the start of   *)
(* the input; a value above ULLONG_MAX sets ERANGE; a '-' negates modulo   *)
(* 2^ULLWidth.  Widths are constants so that overflow is reachable.        *)
(*                                                                         *)
(* RefParseSize is the reading of spec.md section 4.2: a whitespace-led,   *)
(* optionally '+'-signed, decimal non-negative integer no larger than the  *)
(* platform's addressable size, with nothing after it.                     *)
(***************************************************************************)
EXTENDS Integers, Sequences, SequencesExt

CONSTANTS
  ULLWidth,    \* bits of unsigned long long
  SizeWidth    \* bits of size_t

ASSUME ULLWidth \in Nat \ {0} /\ SizeWidth \in 1..ULLWidth

ULLMax  == 2^ULLWidth - 1
SIZE_MAX == 2^SizeWidth - 1

\* The digits strtoull knows, in the order of their values.
DecDigits == <<"0", "1", "2", "3", "4", "5", "6", "7", "8", "9">>
HexDigits == DecDigits \o <<"a", "b", "c", "d", "e", "f">>

DigitValue == [c \in ToSet(HexDigits) |->
                 CHOOSE i \in 0..15 : HexDigits[i + 1] = c]

\* isdigit(c), and "c is a digit of the given base" as strtoull sees it.
isdigit(c) == c \in ToSet(DecDigits)
IsDigitOf(c, base) == c \in ToSet(HexDigits) /\ DigitValue[c] < base
isspace(c) == c \in {" ", "\t"}

\* The number a run of digits of the given base denotes.
Value(digits, base) == FoldLeft(LAMBDA acc, c : acc * base + DigitValue[c], 0, digits)

RECURSIVE SkipSpaces(_)
SkipSpaces(s) == IF s # <<>> /\ isspace(Head(s)) THEN SkipSpaces(Tail(s)) ELSE s

\* strtoull(nptr, &endptr, 0): the value, what endptr points at, and errno.
strtoull(nptr) ==
  LET t     == SkipSpaces(nptr)
      neg   == t # <<>> /\ Head(t) = "-"
      u     == IF t # <<>> /\ Head(t) \in {"+", "-"} THEN Tail(t) ELSE t
      hex   == Len(u) >= 3 /\ u[1] = "0" /\ u[2] \in {"x", "X"} /\ IsDigitOf(u[3], 16)
      base  == IF hex THEN 16 ELSE IF u # <<>> /\ Head(u) = "0" THEN 8 ELSE 10
      body  == IF hex THEN SubSeq(u, 3, Len(u)) ELSE u
      stop  == SelectInSeq(body, LAMBDA c : ~IsDigitOf(c, base))
      n     == IF stop = 0 THEN Len(body) ELSE stop - 1
      v     == Value(SubSeq(body, 1, n), base)
  IN  IF n = 0
      THEN [val |-> 0, end |-> nptr, erange |-> FALSE]
      ELSE [val    |-> IF v > ULLMax THEN ULLMax
                       ELSE IF neg THEN (2^ULLWidth - v) % 2^ULLWidth ELSE v,
            end    |-> SubSeq(body, n + 1, Len(body)),
            erange |-> v > ULLMax]

Rejected == [ok |-> FALSE, val |-> 0]

\* Mutant: the isdigit/'+' test of the first character is left out.
ParseSize_no_sign_check(in) ==
  LET s == SkipSpaces(in)
      r == strtoull(s)
  IN  IF s = <<>> THEN Rejected
      ELSE IF r.erange \/ r.end # <<>> \/ r.val > SIZE_MAX THEN Rejected
      ELSE [ok |-> TRUE, val |-> r.val]

\* parse_size(&out, in): ok is "returned 0", val is what *out receives.
ParseSize(in) ==
  LET s == SkipSpaces(in)
      r == strtoull(s)
  IN  IF s = <<>> \/ ~(isdigit(Head(s)) \/ Head(s) = "+") THEN Rejected
      ELSE IF r.erange \/ r.end # <<>> \/ r.val > SIZE_MAX THEN Rejected
      ELSE [ok |-> TRUE, val |-> r.val]

\* The Content-Length reading spec.md section 4.2 asks for.
RefParseSize(in) ==
  LET s == SkipSpaces(in)
      u == IF s # <<>> /\ Head(s) = "+" THEN Tail(s) ELSE s
  IN  IF /\ u # <<>>
         /\ \A i \in 1..Len(u) : isdigit(u[i])
         /\ Value(u, 10) <= SIZE_MAX
      THEN [ok |-> TRUE, val |-> Value(u, 10)]
      ELSE Rejected

=============================================================================
