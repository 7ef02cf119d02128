----------------------------- MODULE MCListing -----------------------------
(***************************************************************************)
(* Instances of Listing for TLC.  With IntMax = 15 and RowSize = 4, eight  *)
(* rows take 32 bytes, which is 0 as an int, and fifteen take -4; the last *)
(* index of fifteen rows from 2 on is -16.                                 *)
(***************************************************************************)
EXTENDS Listing, TLC

CONSTANTS i1, i2, i3

Sizes == [cmd |-> 3, fromId |-> 2, count |-> 2]

Numbers == "-1" :> -1 @@ "0" :> 0 @@ "1" :> 1 @@ "2" :> 2 @@ "8" :> 8 @@ "15" :> 15

SomeTokens ==
  DOMAIN Numbers \cup {"cmd", "fromId", "count", Equals, Ampersand, Hash, "newFile", "other", "dis"}

Cmd(c) == <<"cmd", Equals, c>>
FromId(n) == <<Ampersand, "fromId", Equals, n>>
Count(n) == <<Ampersand, "count", Equals, n>>
Page(from, count) == Cmd("newFile") \o FromId(from) \o Count(count)

\* Pages from the front of the list, from inside it and from its end; sizes
\* that make endId negative or wrap around; parameters that are missing (and
\* so those of any query before), empty, found in the wrong place, cut off, or
\* too long
SomeQueries ==
  { Page("0", "0"), Page("1", "2"), Page("2", "15"), Cmd("other"),
    FromId("1"), FromId("1") \o <<Ampersand, "count">>,
    Cmd("newFile") \o <<Ampersand, "fromId", Equals>> \o Count("2"),
    Cmd("newFile") \o FromId("-1") \o <<Ampersand, "dis", "count", Equals, "8", Hash>> \o Count("2"),
    Cmd("newFile") \o Count("1") \o <<"1">> }

\* For the first page
FirstPages == {Page("0", "1"), Page("0", "2"), Page("1", "2")}
=============================================================================
