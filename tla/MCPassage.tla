----------------------------- MODULE MCPassage ------------------------------
(***************************************************************************)
(* Instances of Passage for TLC.                                           *)
(***************************************************************************)
EXTENDS Passage

File(name, data) == [kind |-> "file", eol |-> CRLF, name |-> name, data |-> data]
Other(data) == [kind |-> "other", eol |-> CRLF, name |-> << >>, data |-> data]

x == "x"
Bytes == STRING

\* Names: empty, with a bar, with an escaped bar, with a backslash at the end,
\* with a line end, of a directory, with a slash and a suffix; a plain one is in
\* SomeFiles.
SomeNames ==
  {<< >>, <<x, Bar, x>>, <<x, Backslash, Bar, x, Dot>>, <<x, Backslash>>,
   <<x, LF, x>>, <<"logs">>, <<x, Slash, x, Dot, "y">>}

SomeDirectories == {<<Dot>>, <<Dot, Dot>>, <<"logs">>}
SomeLeftovers == {<<"y">>}

\* Contents: with line ends that look like the end of a header, and a zero
\* byte; one that is empty is in SomeFiles.
SomeFiles ==
  {File(n, << >>) : n \in SomeNames} \cup {File(<<x>>, <<x, NUL, CR, LF, CR, LF, x>>)}

\* The same with the line ends of Linux, also around a text of Windows
LinuxFiles ==
  {[File(<<x>>, d) EXCEPT !.eol = <<LF>>] : d \in {<<x, LF>>, <<CR, LF, CR, LF, x>>}}

\* Forms with a field, alone or before the file
SomeForms ==
  {[kind |-> k, eol |-> CRLF, name |-> IF k = "field" THEN << >> ELSE <<x, x, x>>,
    data |-> IF k = "field" THEN << >> ELSE <<x>>] : k \in {"field", "fieldAndFile"}}

\* No body, no form, an open quote, no end, an end at once, more than the
\* buffer holds; a body that is cut off
OddRequests ==
  {Other(<< >>), Other(<<x, x>>),
   Other(<<Boundary, CR, LF, FileNameKey, Quote, x, CR, LF>>),
   Other(<<Boundary, CR, LF, FileNameKey, Quote, x, Quote, CR, LF, CR, LF, x>>),
   Other(<<Boundary, CR, LF, FileNameKey, Quote, x, Quote, CR, LF, CR, LF, Boundary>>),
   Other([i \in 1..Size |-> x]),
   [Other(<<x>>) EXCEPT !.kind = "short"]}

AllRequests == SomeFiles \cup LinuxFiles \cup SomeForms \cup OddRequests
TwoForms == SomeForms
BarNames == {File(n, << >>) : n \in SomeNames}

\* They are what the theorem about NameWasSent takes for granted.
ASSUME ProperNames

AllNames == SomeNames \cup {<<x>>, <<x, x, x>>}

SomeIds == {"i1", "i2"}
SomeIdText == [id \in SomeIds |-> <<id>>]
SomeUrlText == [id \in SomeIds |-> <<"http://", id>>]
SomeTimeText == [id \in SomeIds |-> <<"at", id>>]
SomeUser == <<"zhao">>
=============================================================================
