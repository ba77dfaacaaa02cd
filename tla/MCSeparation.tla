----------------------------- MODULE MCSeparation -----------------------------
(* Catalogs whose books cannot be taken for each other.                    *)
EXTENDS Separation

Dune == [isbn |-> "111", title |-> <<"Dune">>, tag |-> <<"Dune", "-", "Unabridged">>,
         author |-> <<"Herbert">>, series |-> <<"Dune">>, m4b |-> TRUE, cover |-> TRUE]
Emma == [isbn |-> "222", title |-> <<"Emma", "-", "Annotated">>, tag |-> <<>>,
         author |-> <<>>, series |-> <<>>, m4b |-> FALSE, cover |-> FALSE]

CleanCatalog == <<Dune, Emma>>

(* With a colon in its title the book is not recognised by the name of its *)
(* folder, "Emma Annotated".                                               *)
ColonCatalog == <<Dune, [Emma EXCEPT !.title = <<"Emma", ":", "Annotated">>]>>

ByHand(title, author, recording) ==
    [folder |-> [author |-> <<"by">>, series |-> <<"hand">>, title |-> title],
     title |-> title, author |-> author, recording |-> recording]

HandCopy == ByHand(<<"Dune">>, <<"Herbert", ",", "Jr">>, 1)

CleanManual == {HandCopy}
NoManual == {}

RunSymmetry == Permutations(Runs)
===============================================================================
