-------------------------------- MODULE MCCalls -------------------------------
(* Short budgets beside the default one, an upload shown at once, within   *)
(* or after them, a refusal of each class, and for each call a document of *)
(* the expected form, one that says little and one of another form.        *)
EXTENDS Calls

Odd  == Scalar("int")
Item == Object([id |-> Scalar("string"), addedAt |-> Scalar("int"),
                media |-> Object([metadata |-> Object([title |-> Scalar("string")])])])
Shelf == Object([name |-> Scalar("string"), folders |-> Array(<<Object([id |-> Scalar("string")])>>)])
OddItem == Object([id |-> Scalar("string"), addedAt |-> Scalar("string")])

DocsDef ==
    [c \in CallNames |->
        CASE c = "me"        -> {Object([username |-> Scalar("string")]), Odd}
          [] c = "libraries" -> {Object([libraries |-> Array(<<Shelf, Object([name |-> Scalar("string")])>>)]), Odd}
          [] c = "items"     -> {Object([results |-> Array(<<Item>>)]), Object([results |-> Array(<<OddItem>>)]),
                                 Object([total |-> Scalar("int")])}
          [] c = "search"    -> {Object([book |-> Array(<<Object([libraryItem |-> Item])>>)]),
                                 Object([tags |-> Array(<<>>)]), Object([book |-> Odd])}
          [] c = "patch"     -> {Object([updated |-> Scalar("bool"), libraryItem |-> Item]),
                                 Object([updated |-> Scalar("string")])}
          [] c = "cover"     -> {Object([success |-> Scalar("bool")])}
          [] c = "owned"     -> {Object([audiobooks |-> Array(<<Object([title |-> Scalar("string")])>>)]),
                                 Object([audiobooks |-> Array(<<>>)]), Odd}
          [] c = "login"     -> {Object([access_token |-> Scalar("string")]), Object(<<>>)}
          [] c = "m4b"       -> {Object([m4b_url |-> Scalar("string")]), Object([m4b_url |-> Scalar("null")])}
          [] c = "manifest"  -> {Object([parts |-> Array(<<Object([url |-> Scalar("string")])>>)]),
                                 Object([parts |-> Array(<<>>)])}
          [] OTHER           -> {Garbage}]

BudgetsDef == {0, 1, 6, 45}
IndexTimesDef == {0, 6, 7, 45, 301}
===============================================================================
