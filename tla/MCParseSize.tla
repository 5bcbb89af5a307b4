---------------------------- MODULE MCParseSize ----------------------------
(***************************************************************************)
(* Checks parse_size() against the Content-Length reading of spec.md 4.2   *)
(* over every value of at most MaxLen characters drawn from Chars.  The    *)
(* state is the header value received so far; each step receives one more *)
(* character, so every bounded value is a reachable state.                 *)
(***************************************************************************)
EXTENDS ParseSize

CONSTANTS
  Chars,     \* characters a peer may put in a Content-Length value
  MaxLen     \* longest value enumerated

VARIABLE value

Init == value = <<>>

Receive == Len(value) < MaxLen /\ \E c \in Chars : value' = Append(value, c)

Spec == Init /\ [][Receive]_value



\* Digits of the value as parse_size hands them to strtoull: leading
\* white space and one '+' removed.
Unsigned(v) == LET s == SkipSpaces(v)
               IN  IF s # <<>> /\ Head(s) = "+" THEN Tail(s) ELSE s

\* A value whose digits start with "0" followed by more characters: the
\* only shape for which strtoull's base 0 differs from base 10.
RadixPrefixed(v) == Len(Unsigned(v)) >= 2 /\ Unsigned(v)[1] = "0"

\* parse_size() accepts exactly the values the spec accepts, with the same
\* number, for every value that carries no radix prefix: signs, white
\* space, trailing garbage, and overflow of unsigned long long (errno) and
\* of size_t are all handled as spec.md 4.2 says.
ParseSizeAgreesOffPrefix ==
  ~RadixPrefixed(value) => ParseSize(value) = RefParseSize(value)

\* spec.md 4.2: Content-Length is a non-negative decimal integer; the value
\* parse_size() stores is its decimal reading, and it accepts exactly the
\* decimal values that fit.
ParseSizeIsDecimal == ParseSize(value) = RefParseSize(value)
=============================================================================
