------------------------------- MODULE MCPaging -------------------------------
(* Pages of two, shelves of up to five at the start, and one thing of an   *)
(* odd form.                                                               *)
EXTENDS Paging

ThingsDef == {"a", "b", "c", "d", "odd", "new"}

(* An item with a date where the program expects a number, and a book      *)
(* whose publication date is no RFC 3339 time; the others leave out much   *)
(* of what they could say.                                                 *)
ItemForm(t) ==
    Object([id |-> Scalar("string"),
            addedAt |-> Scalar(IF t = "odd" THEN "time" ELSE "int"),
            media |-> Object([metadata |-> Object([title |-> Scalar("string"),
                                                   isbn |-> Scalar("null")])])])

BookForm(t) ==
    Object([title |-> Scalar("string"),
            authors |-> Array(<<Scalar("string")>>),
            publication_date |-> Scalar(IF t = "odd" THEN "string" ELSE "time"),
            audiobook_info |-> Object([narrators |-> Array(<<>>), track_count |-> Scalar("int")])])

FormDef == [abs |-> [t \in ThingsDef |-> ItemForm(t)],
            librofm |-> [t \in ThingsDef |-> BookForm(t)]]

StartsDef == {<<>>, <<"a", "b">>, <<"a", "b", "c", "d">>, <<"a", "b", "odd", "c">>,
              <<"d", "c", "b", "a", "new">>}
===============================================================================
