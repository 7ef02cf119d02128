-------------------------------- MODULE Row ---------------------------------
(***************************************************************************)
(* The rows of FILE_INFO_LIST: file_msg_store_to_redis (src/src/echo_op.c) *)
(* joins a file's id, URL, name, time, user and type with bars, and        *)
(* file_list_to_json_print (src/src/data_op.c) takes the columns out again *)
(* with get_value_by_col (src/src/util_cgi.c), one row after the other     *)
(* with the same buffers.  The writer escapes nothing; the reader knows an *)
(* escaped bar and a line end.                                             *)
(***************************************************************************)
EXTENDS Text

CONSTANTS
  Ids,       \* the files that are listed
  IdText,    \* IdText[id], UrlText[id], TimeText[id]: what FastDFS and the
  UrlText,   \* clock say of a file
  TimeText,
  User,      \* the user, a constant of main
  FileNames  \* the names of files

\* No bar, backslash or line end
Clean(s) == \A i \in DOMAIN s : s[i] \notin {Bar, Backslash, LF, NUL}

ASSUME FieldAssumption ==
  /\ IdText \in [Ids -> Seq(Byte)]
  /\ UrlText \in [Ids -> Seq(Byte)]
  /\ TimeText \in [Ids -> Seq(Byte)]
  /\ User \in Seq(Byte)
  /\ \A id \in Ids : /\ IdText[id] # << >>
                     /\ Clean(IdText[id]) /\ Clean(UrlText[id]) /\ Clean(TimeText[id])
  /\ Clean(User)
ASSUME NullAssumption == "null" \in Byte
ASSUME FileNamesAssumption ==
  FileNames \subseteq {n \in Seq(Byte) : \A i \in DOMAIN n : n[i] # NUL}

VARIABLES
  list,   \* FILE_INFO_LIST, newest first; id and name are history
  rpc,    \* where the listing worker is
  rows,   \* file_list_values
  buffer, \* filename, create_time, file_url, file_id and user
  page    \* the JSON array

rowVars == <<list, rpc, rows, buffer, page>>

-----------------------------------------------------------------------------
(* Writing *)

\* file_suffix_get: what stands behind the last dot, "null" if nothing does.
NoSuffix == <<"null">>
file_suffix_get(n) ==
  LET dots == {i \in DOMAIN n : n[i] = Dot}
      suffix == SubSeq(n, Max(dots) + 1, Len(n))
  IN  IF dots = {} \/ suffix = << >> THEN NoSuffix ELSE suffix

\* Mutants: the columns of the time and the name swapped; no bar behind the
\* user.
MutantRowText(id, name) ==
  IdText[id] \o <<Bar>> \o UrlText[id] \o <<Bar>> \o TimeText[id] \o <<Bar>>
    \o name \o <<Bar>> \o User \o <<Bar>> \o file_suffix_get(name)
MutantRowTextShort(id, name) ==
  IdText[id] \o <<Bar>> \o UrlText[id] \o <<Bar>> \o name \o <<Bar>>
    \o TimeText[id] \o <<Bar>> \o User \o file_suffix_get(name)

\* The value that is pushed
RowText(id, name) ==
  IdText[id] \o <<Bar>> \o UrlText[id] \o <<Bar>> \o name \o <<Bar>>
    \o TimeText[id] \o <<Bar>> \o User \o <<Bar>> \o file_suffix_get(name)

-----------------------------------------------------------------------------
(* Reading *)

\* Where a column ends: at a bar that is not escaped, and at the first line
\* end, where the loop stops.
Ends(s) ==
  {p \in 1..Len(s) :
     /\ s[p] = LF \/ (s[p] = Bar /\ ~ (p > 1 /\ s[p - 1] = Backslash))
     /\ \A q \in 1..(p - 1) : s[q] # LF}

\* The end of column c, for c \in 0..Cardinality(Ends(s))
EndOfColumn(s, c) ==
  IF c = 0 THEN 0
  ELSE CHOOSE p \in Ends(s) : Cardinality({q \in Ends(s) : q <= p}) = c

HasColumn(s, c) == Cardinality(Ends(s)) >= c

\* Fewer columns and no line end: the loop leaves the row.
Leaves(s, c) == ~ HasColumn(s, c) /\ \A p \in 1..Len(s) : s[p] # LF

\* Mutant: the value starts at the bar.
Mutantget_value_by_col(s, c, old) ==
  IF HasColumn(s, c)
  THEN SubSeq(s, EndOfColumn(s, c - 1), EndOfColumn(s, c) - 1)
  ELSE old

\* get_value_by_col for c > 1: a column that is not there leaves the value.
get_value_by_col(s, c, old) ==
  IF HasColumn(s, c)
  THEN SubSeq(s, EndOfColumn(s, c - 1) + 1, EndOfColumn(s, c) - 1)
  ELSE old

\* For c = 1 its loop runs to the first bar, or to the first byte behind a
\* backslash; `before` is the byte in front of the row.
FirstColumn(s, before) ==
  LET stop == {p \in 1..Len(s) :
                 s[p] = Bar \/ (IF p = 1 THEN before ELSE s[p - 1]) = Backslash}
  IN  SubSeq(s, 1, Min(stop) - 1)

\* get_file_suffix of util_cgi.c is file_suffix_get of echo_op.c.
get_file_suffix(n) == file_suffix_get(n)

\* The byte in front of a row: that of malloc for the first one; for another
\* one the last byte of the row before, which strncpy never sets.
Before(k) == IF k = 1 THEN {NUL} ELSE {NUL, Backslash}

-----------------------------------------------------------------------------

NoColumns == [id |-> << >>, url |-> << >>, name |-> << >>, time |-> << >>, user |-> << >>]

RowInit ==
  /\ list = << >>
  /\ rpc = "idle"
  /\ rows = << >>
  /\ buffer = NoColumns
  /\ page = << >>

\* An upload worker lists a file: LPUSH.
Store(name) ==
  /\ \E id \in Ids :
       /\ \A i \in DOMAIN list : list[i].id # id
       /\ list' = <<[id |-> id, name |-> name, value |-> RowText(id, name)]>> \o list
  /\ UNCHANGED <<rpc, rows, buffer, page>>

\* A page of the list has been read: rop_range_list (which rows: Listing).
ReadList ==
  /\ rpc = "idle"
  /\ rows' = list
  /\ buffer' = NoColumns
  /\ page' = << >>
  /\ rpc' = "rows"
  /\ UNCHANGED list

Row == rows[Len(page) + 1]

\* One turn of the loop
AddRow ==
  /\ rpc = "rows"
  /\ Len(page) < Len(rows)
  /\ ~ Leaves(Row.value, 5)
  /\ \E before \in Before(Len(page) + 1) :
       buffer' = [id   |-> FirstColumn(Row.value, before),
                  url  |-> get_value_by_col(Row.value, 2, buffer.url),
                  name |-> get_value_by_col(Row.value, 3, buffer.name),
                  time |-> get_value_by_col(Row.value, 4, buffer.time),
                  user |-> get_value_by_col(Row.value, 5, buffer.user)]
  /\ page' = Append(page, [columns |-> buffer', picture |-> get_file_suffix(buffer'.name)])
  /\ UNCHANGED <<list, rpc, rows>>

\* The loop runs through what is behind the row: undefined, and the model ends.
RunAway ==
  /\ rpc = "rows"
  /\ Len(page) < Len(rows)
  /\ Leaves(Row.value, 5)
  /\ rpc' = "undefined"
  /\ UNCHANGED <<list, rows, buffer, page>>

\* The page is sent.
Send ==
  /\ rpc = "rows"
  /\ Len(page) = Len(rows)
  /\ rpc' = "idle"
  /\ UNCHANGED <<list, rows, buffer, page>>

Reader == ReadList \/ AddRow \/ RunAway \/ Send

RowNext == Reader \/ \E n \in FileNames : Store(n)

RowSpec == RowInit /\ [][RowNext]_rowVars

-----------------------------------------------------------------------------
(* Properties *)

Columns == [id : Seq(Byte), url : Seq(Byte), name : Seq(Byte),
            time : Seq(Byte), user : Seq(Byte)]
Entry == [id : Ids, name : Seq(Byte), value : Seq(Byte)]

RowTypeOK ==
  /\ list \in Seq(Entry)
  /\ rpc \in {"idle", "rows", "undefined"}
  /\ rows \in Seq(Entry)
  /\ buffer \in Columns
  /\ page \in Seq([columns : Columns, picture : Seq(Byte)])

\* Names that the reader gives back: every bar is escaped, no line end, no
\* backslash at the end that would escape the bar behind the name.
Plain(n) ==
  /\ \A i \in DOMAIN n : /\ n[i] # LF
                         /\ n[i] = Bar => i > 1 /\ n[i - 1] = Backslash
  /\ n # << >> => n[Len(n)] # Backslash

Fields(id, name) ==
  [id |-> IdText[id], url |-> UrlText[id], name |-> name,
   time |-> TimeText[id], user |-> User]

\* A file with a plain name is shown with the columns it was listed with and
\* the picture of its type, whatever the rows before it left in the buffers.
\* Only its id may be empty, and that of the first row is not.
PlainRowsTrue ==
  \A k \in DOMAIN page : Plain(rows[k].name) =>
    /\ \E id \in {IdText[rows[k].id]} \cup (IF k = 1 THEN {} ELSE {<< >>}) :
         page[k].columns = [Fields(rows[k].id, rows[k].name) EXCEPT !.id = id]
    /\ page[k].picture = file_suffix_get(rows[k].name)

\* Only a name that ends with a backslash takes the reader off its row: bars
\* and line ends, wherever they stand, do not.
RunsAwayOnBackslash ==
  rpc = "undefined" => LET n == Row.name IN n # << >> /\ n[Len(n)] = Backslash

\* What redis_keys.h says of a value: its columns are the id, URL, name, time
\* and user of a file.
ColumnsAreFields ==
  \A k \in DOMAIN page : page[k].columns.name = rows[k].name
=============================================================================
