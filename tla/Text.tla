-------------------------------- MODULE Text --------------------------------
(***************************************************************************)
(* Bytes, C strings, and the searches of the C library and of echo_op.c    *)
(* (src/src/echo_op.c, util_cgi.c).                                        *)
(*                                                                         *)
(* A byte is a token: what the code never looks into (a boundary line, the *)
(* word filename=) is one token.  A buffer is a sequence of bytes; a       *)
(* position is an index into it, and 0 stands for a NULL result.           *)
(***************************************************************************)
EXTENDS Integers, Sequences, FiniteSetsExt

CONSTANT Byte  \* every byte, the ones that the code looks for among them

CR == "CR"
LF == "LF"
NUL == "NUL"
Quote == "quote"
Bar == "|"
Backslash == "backslash"
Dot == "."
CRLF == <<CR, LF>>

ASSUME ByteAssumption == {CR, LF, NUL, Quote, Bar, Backslash, Dot} \subseteq Byte

\* The smallest of a set of positions, NULL when there is none
First(S) == IF S = {} THEN 0 ELSE Min(S)

\* The bytes t stand at position p of the buffer s.
At(s, p, t) ==
  /\ p + Len(t) - 1 <= Len(s)
  /\ \A i \in DOMAIN t : s[p + i - 1] = t[i]

\* The end of the C string that starts at p
EndOf(s, p) == Min({q \in p..Len(s) : s[q] = NUL} \cup {Len(s) + 1})

\* The C string that starts at p
CString(s, p) == SubSeq(s, p, EndOf(s, p) - 1)

\* strstr and strchr on the C string that starts at p
strstr(s, p, t) == First({q \in p..(EndOf(s, p) - Len(t)) : At(s, q, t)})
strchr(s, p, c) == strstr(s, p, <<c>>)

\* Mutant: the length taken for a bound that has room to spare.
MutantMemstr(s, p, len, t) ==
  IF t = << >> THEN 0 ELSE First({q \in p..(Len(s) - Len(t) + 1) : At(s, q, t)})

\* memstr: like strstr, but in len bytes of any value.
memstr(s, p, len, t) ==
  IF t = << >> THEN 0 ELSE First({q \in p..(p + len - Len(t)) : At(s, q, t)})
=============================================================================
