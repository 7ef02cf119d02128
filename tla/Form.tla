-------------------------------- MODULE Form --------------------------------
(***************************************************************************)
(* How an upload worker takes a request apart: the loop of main that reads *)
(* the body (src/src/echo.c) and fiel_source_get (src/src/echo_op.c), which*)
(* finds the file's name and content in it, byte by byte.                  *)
(*                                                                         *)
(* The body goes to text_source, a buffer that outlives the request and of *)
(* which only the first bytes, as many as a pointer has, are cleared.  What*)
(* happens to the file then is module Upload; here it is listed, or not.   *)
(***************************************************************************)
EXTENDS Text

CONSTANTS
  Size,          \* MAX_BUF_SOURCE
  NameSize,      \* MAX_RECV_FILE_NAME
  BoundarySize,  \* MAX_BOUNDARY_BUF
  Requests,      \* the requests that arrive, see Request
  Unopenable,    \* names that no file can have: "." and "..", the directory of
                 \* the logs (module MakeLog) and others in the worker's directory
  Leftovers      \* what a local file may hold before the request

Boundary == "boundary"
Slash == "/"
FileNameKey == "filename="

\* Requests: an HTML form with one file, with one text field, or with a field
\* and a file, as a browser sends it; any other body; fewer bytes than
\* CONTENT_LENGTH says.  `eol` is how its lines end.
Request ==
  [kind : {"file", "field", "fieldAndFile", "other", "short"},
   eol : {CRLF, <<LF>>}, name : Seq(Byte), data : Seq(Byte)]

ASSUME SizeAssumption ==
  Size \in Nat \ {0} /\ NameSize \in Nat \ {0, 1} /\ BoundarySize \in Nat \ {0, 1}
ASSUME TokenAssumption == {Boundary, FileNameKey, Slash, "text", "--"} \subseteq Byte
ASSUME RequestsAssumption == Requests \subseteq Request
ASSUME LeftoversAssumption == Leftovers \subseteq Seq(Byte)

\* The first token of a part is the rest of its Content-Disposition line.
FilePart(r) ==
  <<"text", FileNameKey, Quote>> \o r.name \o <<Quote>> \o r.eol \o r.eol \o r.data \o r.eol
FieldPart(r) == <<"text">> \o r.eol \o r.eol \o <<"text">> \o r.eol
Closing == <<Boundary, "--">>

\* The bytes that arrive for a request
Body(r) ==
  CASE r.kind = "file" -> <<Boundary>> \o r.eol \o FilePart(r) \o Closing \o r.eol
    [] r.kind = "field" -> <<Boundary>> \o r.eol \o FieldPart(r) \o Closing \o r.eol
    [] r.kind = "fieldAndFile" ->
         <<Boundary>> \o r.eol \o FieldPart(r) \o <<Boundary>> \o r.eol
           \o FilePart(r) \o Closing \o r.eol
    [] OTHER -> r.data

VARIABLES
  fpc,      \* where the worker is
  req,      \* the request it serves
  text,     \* text_source
  fileName, \* file_name
  saved,    \* the local file: its name and content
  names     \* history: the names of the files that clients sent

formVars == <<fpc, req, text, fileName, saved, names>>

-----------------------------------------------------------------------------
(* What fiel_source_get finds in the buffer s, of which the body is the    *)
(* first len bytes                                                         *)

\* The name stands between the first two quotes after filename=.  The search
\* for the second does not stop at a NUL.
KeyAt(s) == strstr(s, 1, <<FileNameKey>>)
NameAt(s) == strchr(s, KeyAt(s) + 1, Quote) + 1
NameEnd(s) == First({q \in NameAt(s)..Len(s) : s[q] = Quote})
NameIn(s) == SubSeq(s, NameAt(s), NameEnd(s) - 1)

\* The first line, whatever it is, is the boundary.
LineEnd(s) ==
  IF strstr(s, 1, CRLF) # 0 THEN strstr(s, 1, CRLF) ELSE strstr(s, 1, <<LF>>)
boundary(s) == SubSeq(s, 1, LineEnd(s) - 1)

\* The content starts behind the first empty line, and ends with the line end
\* in front of the next boundary.
IsLinux(s) == strstr(s, LineEnd(s), CRLF \o CRLF) = 0
HeaderEnd(s) ==
  IF IsLinux(s) THEN strstr(s, LineEnd(s), <<LF, LF>>)
  ELSE strstr(s, LineEnd(s), CRLF \o CRLF)
ContentAt(s) == HeaderEnd(s) + (IF IsLinux(s) THEN 2 ELSE 4)

\* Mutant: a strstr, which ends at a zero byte and not at the body's end
MutantContentEnd(s, len) == strstr(s, ContentAt(s), boundary(s))

ContentEnd(s, len) == memstr(s, ContentAt(s), len - (ContentAt(s) - 1), boundary(s))

\* Mutant: the line end in front of the boundary taken for one byte.
MutantContentLength(s, len) == ContentEnd(s, len) - ContentAt(s) - 1

ContentLength(s, len) ==
  ContentEnd(s, len) - ContentAt(s) - (IF IsLinux(s) THEN 1 ELSE 2)

Written(s, len) ==
  SubSeq(s, ContentAt(s), ContentAt(s) + ContentLength(s, len) - 1)

\* What the local file holds after ftruncate and write.  Both refuse a negative
\* length, and open does not truncate: the file keeps what it held.
Content(s, len, old) == IF ContentLength(s, len) < 0 THEN old ELSE Written(s, len)

\* open creates a file or takes the one that is there.  It fails for no name
\* and for the name of a directory; behind a slash it may do either.
MayOpen(name) == name # << >> /\ name \notin Unopenable
MayNotOpen(name) ==
  name = << >> \/ name \in Unopenable \/ \E i \in DOMAIN name : name[i] = Slash

\* The name is copied without a terminator, and the byte behind the next one
\* is cleared: file_name[++i].
Named(old, name) ==
  [i \in 1..NameSize |-> IF i <= Len(name) THEN name[i]
                         ELSE IF i = Len(name) + 2 THEN NUL ELSE old[i]]

\* Mutants: the name buffer not cleared; one byte too many cleared.
MutantClearedName(s) == s
MutantClearedFar(s) == [i \in 1..(NameSize + 1) |-> NUL]

\* The memsets at the end of the loop.  The one of text_source clears
\* sizeof(char *) bytes: less than the boundary it starts with.
ClearedName(s) == [i \in 1..NameSize |-> NUL]
ClearedText(s) == [s EXCEPT ![1] = NUL]

-----------------------------------------------------------------------------

NoRequest == [kind |-> "short", eol |-> CRLF, name |-> << >>, data |-> << >>]

FormInit ==
  /\ fpc = "accept"
  /\ req = NoRequest
  /\ text = [i \in 1..Size |-> NUL]
  /\ fileName = [i \in 1..NameSize |-> NUL]
  /\ saved = [name |-> << >>, content |-> << >>]
  /\ names = {}

\* FCGI_Accept and the loop over getchar.  Nothing keeps a body from running
\* over the end of the buffer, or strstr from doing so when a body fills it:
\* what happens then is undefined, and the model ends.
Accept(r) ==
  /\ fpc = "accept"
  /\ req' = r
  /\ names' = IF r.kind \in {"file", "fieldAndFile"} THEN names \cup {r.name} ELSE names
  /\ IF Len(Body(r)) >= Size
     THEN fpc' = "undefined" /\ text' = text
     ELSE /\ fpc' = IF r.kind = "short" THEN "short" ELSE "parse"
          /\ text' = [i \in 1..Size |-> IF i <= Len(Body(r)) THEN Body(r)[i] ELSE text[i]]
  /\ UNCHANGED <<fileName, saved>>

\* No quote follows filename= and the result of strchr is used, or only one
\* does and the copy runs out of the buffers.
NameUndefined ==
  /\ KeyAt(text) # 0
  /\ \/ strchr(text, KeyAt(text) + 1, Quote) = 0
     \/ NameEnd(text) = 0
     \/ Len(NameIn(text)) + 2 > NameSize

\* A first line longer than the buffer is logged and copied all the same.
BoundaryUndefined ==
  KeyAt(text) # 0 /\ LineEnd(text) # 0 /\ Len(boundary(text)) >= BoundarySize

ParseUndefined ==
  /\ fpc = "parse"
  /\ NameUndefined \/ BoundaryUndefined
  /\ fpc' = "undefined"
  /\ UNCHANGED <<req, text, fileName, saved, names>>

LocalName(s) == CString(Named(fileName, NameIn(s)), 1)

\* There is a filename=, a first line, an empty line, and the boundary again.
Complete(s, len) ==
  /\ KeyAt(s) # 0
  /\ LineEnd(s) # 0
  /\ HeaderEnd(s) # 0
  /\ ContentEnd(s, len) # 0

\* fiel_source_get returns -1 or 1, and the worker ends.
Reject ==
  /\ fpc = "parse"
  /\ ~ NameUndefined /\ ~ BoundaryUndefined
  /\ Complete(text, Len(Body(req))) => MayNotOpen(LocalName(text))
  /\ fpc' = "rejected"
  /\ UNCHANGED <<req, text, fileName, saved, names>>

\* The local file gets a name and a content.
Save ==
  /\ fpc = "parse"
  /\ ~ NameUndefined /\ ~ BoundaryUndefined
  /\ Complete(text, Len(Body(req))) /\ MayOpen(LocalName(text))
  /\ fileName' = Named(fileName, NameIn(text))
  /\ \E old \in Leftovers \cup {<< >>} :
       saved' = [name |-> LocalName(text), content |-> Content(text, Len(Body(req)), old)]
  /\ fpc' = "saved"
  /\ UNCHANGED <<req, text, names>>

\* The file is stored and listed, and the buffers are cleared.
Finish ==
  /\ fpc = "saved"
  /\ fileName' = ClearedName(fileName)
  /\ text' = ClearedText(text)
  /\ fpc' = "accept"
  /\ UNCHANGED <<req, saved, names>>

\* A later step fails, and the worker ends.
Fail ==
  /\ fpc = "saved"
  /\ fpc' = "failed"
  /\ UNCHANGED <<req, text, fileName, saved, names>>

FormNext ==
  \/ \E r \in Requests : Accept(r)
  \/ ParseUndefined \/ Reject \/ Save \/ Finish \/ Fail

FormSpec == FormInit /\ [][FormNext]_formVars
-----------------------------------------------------------------------------
(* Properties *)

FormTypeOK ==
  /\ fpc \in {"accept", "parse", "saved", "short", "rejected", "undefined", "failed"}
  /\ req \in Request
  /\ text \in [1..Size -> Byte]
  /\ fileName \in [1..NameSize -> Byte]
  /\ saved \in [name : Seq(Byte), content : Seq(Byte)]
  /\ names \subseteq Seq(Byte)

\* What a browser sends for a file: a name without quotes and line ends that
\* file_name has room for, and contents in which the boundary does not occur.
Regular(r) ==
  /\ r.kind = "file"
  /\ r.name # << >> /\ Len(r.name) + 2 <= NameSize
  /\ \A i \in DOMAIN r.name : r.name[i] \notin {Quote, NUL, CR, LF}
  /\ \A i \in DOMAIN r.data : r.data[i] # Boundary

\* A browser's file is taken under its name with exactly its bytes, zero bytes
\* and line ends among them, whatever older bodies left behind it in the buffer
\* and an older upload of that name in the local file.
FileTaken ==
  Regular(req) /\ fpc = "saved" =>
    saved = [name |-> req.name, content |-> req.data]

\* It is not refused, and it does not end the worker, if it fits, its lines end
\* with CR LF, and its name is that of a file in the worker's own directory: a
\* name with a slash or the name of a directory may end the worker.
FileAccepted ==
  /\ Regular(req) /\ req.eol = CRLF /\ Len(Body(req)) < Size
  /\ ~ MayNotOpen(req.name)
  => fpc \notin {"rejected", "undefined"}

\* What is saved are bytes of the request being served and never of an older
\* one, although filename=, the first line and the empty line may be found in
\* what an older one left.  Only where the end is too close to the beginning (a
\* negative length) can it be what the local file held before.
OwnBytes ==
  fpc = "saved" =>
    \/ \E p \in 1..Len(Body(req)) : At(Body(req), p, saved.content)
    \/ ContentLength(text, Len(Body(req))) < 0 /\ saved.content \in Leftovers

\* What clients send, for the names to be told apart: no name holds a quote, a
\* zero byte or filename=, no content holds filename=, and a body that is no
\* form holds it only where a form with a field overwrites it.
ProperNames ==
  \A r \in Requests :
    /\ r.kind \in {"file", "fieldAndFile"} =>
         /\ \A i \in DOMAIN r.name : r.name[i] \notin {Quote, NUL, FileNameKey}
         /\ \A i \in DOMAIN r.data : r.data[i] # FileNameKey
    /\ r.kind = "other" =>
         \A f \in Requests : f.kind = "field" =>
           \A i \in DOMAIN r.data : i > Len(Body(f)) => r.data[i] # FileNameKey

\* The name of a form is one that a client sent as such, in this request or an
\* earlier one: no byte of a longer name stands behind it.
NameWasSent == fpc = "saved" /\ req.kind # "other" => saved.name \in names

\* What echo.c and echo_op.c say of fiel_source_get: file_name is the name of
\* the file that was uploaded.
NameIsUploaded == fpc = "saved" => saved.name = req.name

\* ... and what is stored under it is the content of that file.
ContentIsFile ==
  fpc = "saved" /\ req.kind \in {"file", "fieldAndFile"} => saved.content = req.data
=============================================================================
