------------------------------ MODULE Passage -------------------------------
(***************************************************************************)
(* The way of a file's name and columns through the service: an upload     *)
(* worker takes them from a form (Form), lists them as one text (Row), and *)
(* a listing worker shows them.                                            *)
(***************************************************************************)
EXTENDS Form, Row

VARIABLES sent  \* history: sent[id] is the request that was listed as id

passageVars == <<formVars, rowVars, sent>>

Init == FormInit /\ RowInit /\ sent = [id \in Ids |-> NoRequest]

\* The upload worker lists the file it has saved and goes on; when it fails
\* before that there is nothing to list.
Publish ==
  /\ Finish
  /\ Store(saved.name)
  /\ sent' = [sent EXCEPT ![list'[1].id] = req]

Uploader ==
  /\ (\E r \in Requests : Accept(r)) \/ ParseUndefined \/ Reject \/ Save \/ Fail
  /\ UNCHANGED <<rowVars, sent>>

Next == Publish \/ Uploader \/ (Reader /\ UNCHANGED <<formVars, sent>>)

Spec == Init /\ [][Next]_passageVars
-----------------------------------------------------------------------------
(* Properties *)

\* Types of the buffers of both workers and of the list
TypeOK == FormTypeOK /\ RowTypeOK

\* From one end to the other: the list shows the file that a browser sent,
\* under its name and at its address, if that name is a plain one.
ShownAsSent ==
  \A k \in DOMAIN page :
    LET r == sent[rows[k].id]
    IN  Regular(r) /\ Plain(r.name) =>
          /\ page[k].columns.name = r.name
          /\ page[k].columns.url = UrlText[rows[k].id]
          /\ page[k].picture = file_suffix_get(r.name)
=============================================================================
