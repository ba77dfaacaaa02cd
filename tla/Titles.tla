-------------------------------- MODULE Titles --------------------------------
(***************************************************************************)
(* Names of books and authors, and the comparisons librofm-sync makes on   *)
(* them: classify.go (titleVariants, metaFirstAuthor), format.go           *)
(* (SafeFileName) and discover.go (sanitiseSearchQuery, titleMatches).     *)
(*                                                                         *)
(* A name is the sequence of its words and punctuation marks: "Mistborn:   *)
(* The Final Empire." is <<"Mistborn", ":", "The", "Final", "Empire",      *)
(* ".">>.  White space is what separates the elements, so a ":" stands for *)
(* ": " and a "-" for " - ".  Letter case is left out: every comparison in *)
(* the code lowers both sides first.                                       *)
(***************************************************************************)
EXTENDS Naturals, Sequences, SequencesExt

CONSTANT MaxName      \* the length at which a path component is cut

ASSUME MaxNameAssumption == MaxName \in Nat \ {0}

Separators == <<"-", ":", ";">>           \* a title from its subtitle, in the order tried
Illegal    == {":", "?"}                  \* cannot be in a file name
Marks      == {"-", ":", ";", "?", ".", ","}

Untitled == <<"untitled">>

(* The part of a name before the first occurrence of a mark; <<>> if the   *)
(* mark does not occur.                                                    *)
Before(name, mark) ==
    SubSeq(name, 1, SelectInSeq(name, LAMBDA w : w = mark) - 1)

(* Variant 0 is the title itself, variant i the part before separator i.   *)
(* Where there is no such part the title stands in for it: looking a key   *)
(* up twice finds nothing new.                                             *)
titleVariants(title) ==
    LET cut(i) == Before(title, Separators[i])
    IN  IF title = <<>> THEN <<>>
        ELSE [i \in 0..Len(Separators) |-> IF i = 0 \/ cut(i) = <<>> THEN title ELSE cut(i)]

(* Minified items join the authors with a comma.                           *)
metaFirstAuthor(authorName) ==
    IF Contains(authorName, ",") THEN Before(authorName, ",") ELSE authorName

fuzzKey(title, author) == <<title, author>>

(* One path component: illegal marks go, so do trailing full stops, an     *)
(* empty result becomes "untitled" and a long one is cut.                  *)
SafeFileName(name) ==
    LET legal   == SelectSeq(name, LAMBDA w : w \notin Illegal)
        trimmed == SubSeq(legal, 1, Max({0} \union {i \in DOMAIN legal : legal[i] # "."}))
    IN  IF trimmed = <<>> THEN Untitled
        ELSE SubSeq(trimmed, 1, Min({MaxName, Len(trimmed)}))

sanitiseSearchQuery(name) == SelectSeq(name, LAMBDA w : w \notin Marks)

(* The tolerant comparison of post-upload discovery: equal, one the other  *)
(* cut at a separator, or equal up to punctuation.                         *)
titleMatches(got, want) ==
    \/ got = want
    \/ \E mark \in ToSet(Separators) :
          IsPrefix(want \o <<mark>>, got) \/ IsPrefix(got \o <<mark>>, want)
    \/ sanitiseSearchQuery(got) = sanitiseSearchQuery(want)
===============================================================================
