----------------------------- MODULE MCReconcile ------------------------------
(* Catalogs of any kind: the promises need not hold on them.               *)
EXTENDS Reconcile

(* Two volumes that differ in the subtitle, and a third book of the author *)
(* with no ISBN.                                                           *)
Volume1 == [isbn |-> "111", title |-> <<"Mistborn", ":", "Empire">>, tag |-> <<>>,
            author |-> <<"Sanderson">>, series |-> <<"Mistborn">>, m4b |-> TRUE, cover |-> TRUE]
Volume2 == [Volume1 EXCEPT !.isbn = "222", !.title = <<"Mistborn", ":", "Ascension">>]
Fanzine == [Volume1 EXCEPT !.isbn = "", !.title = <<"Mistborn", ";", "Zine">>]

MainAndSub  == <<Volume1>>
Volumes     == <<Volume1, Volume2>>
WildCatalog == <<Volume1, Fanzine, Volume2>>

Other == [folder |-> [author |-> <<"by">>, series |-> <<"hand">>, title |-> <<"Ulysses">>],
          title |-> <<"Ulysses">>, author |-> <<"Joyce">>, recording |-> 0]

WildManual == {Other}
NoManual   == {}

(* Two poets, one title.                                                   *)
Poems1 == [isbn |-> "111", title |-> <<"Poems">>, tag |-> <<>>, author |-> <<"Keats">>,
           series |-> <<"Poets">>, m4b |-> TRUE, cover |-> TRUE]
Poems2 == [Poems1 EXCEPT !.isbn = "222", !.author = <<"Yeats">>]
SameTitle == <<Poems1, Poems2>>
===============================================================================
