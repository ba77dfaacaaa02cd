-------------------------------- MODULE Paging --------------------------------
(***************************************************************************)
(* The two listings a run starts from, fetched page by page while others   *)
(* change what is listed: listAllItems of internal/reconcile/reconcile.go  *)
(* for the audiobookshelf library and Client.Library of                    *)
(* internal/librofm/client.go for the books a user owns.  Both number the  *)
(* pages, neither asks for a fixed order or for what changed since, and a  *)
(* page that fails or does not decode fails the listing and with it the    *)
(* run.                                                                    *)
(*                                                                         *)
(* The server cuts a page out of the shelf as it stands when it is asked.  *)
(* What is put on the shelf or taken from it may lie anywhere, also among  *)
(* what has been listed already: it shifts everything behind it.           *)
(***************************************************************************)
EXTENDS Shapes, FiniteSets

CONSTANTS
    Things,       \* what may be on a shelf: library items, or owned books
    Form,         \* their JSON forms: Form[api][t]
    Starts,       \* the shelves a listing may start from
    PageSize,     \* 200 for audiobookshelf, chosen by the server for libro.fm
    MaxArrivals,  \* bounds what is put on the shelf during the listing
    MaxRemovals   \* bounds what is taken off it

Apis == {"abs", "librofm"}

ASSUME PageSizePositive == PageSize \in Nat \ {0}
ASSUME StartsAreShelves == \A s \in Starts : s \in Seq(Things)
(* A library lists an item under its id once, a shop what it sold once.    *)
ASSUME StartsListOnce == \A s \in Starts : \A i, j \in DOMAIN s : s[i] = s[j] => i = j

VARIABLES
    api,      \* which of the two listings this is
    first,    \* the shelf at the start
    shelf,    \* the shelf now
    page,     \* pages fetched so far
    all,      \* what they listed
    phase,    \* "get" while listing, then "done" or "failed"
    arrived, left

vars == <<api, first, shelf, page, all, phase, arrived, left>>

Elements(s) == {s[i] : i \in DOMAIN s}

-------------------------------------------------------------------------------
(* The server.                                                             *)

OffsetLessOne == IF page = 0 THEN 0 ELSE page * PageSize - 1                    \* mutant
Offset == page * PageSize

(* One page: what lies behind Offset, at most PageSize of it.              *)
Slice == SubSeq(shelf, Offset + 1,
                IF Offset + PageSize <= Len(shelf) THEN Offset + PageSize ELSE Len(shelf))

TotalPages == (Len(shelf) + PageSize - 1) \div PageSize

(* The same page as the JSON object that carries it.                       *)
Answer ==
    LET entries == Array([i \in DOMAIN Slice |-> Form[api][Slice[i]]])
    IN  IF api = "abs"
        THEN Object([results |-> entries, total |-> Scalar("int")])
        ELSE Object([audiobooks |-> entries, total_pages |-> Scalar("int")])

-------------------------------------------------------------------------------
(* The listing.                                                            *)

Init ==
    /\ api \in Apis
    /\ first \in Starts
    /\ shelf = first
    /\ page = 0
    /\ all = <<>>
    /\ phase = "get"
    /\ arrived = {}
    /\ left = {}

Decodes == IF api = "abs" THEN LibraryItemsPage(Answer) ELSE LibraryPage(Answer)

(* listAllItems stops at a short page or when it has as many items as the  *)
(* page's total says; Library when it has got total_pages pages.           *)
LastItems ==
    \/ Len(Slice) < PageSize
    \/ Len(shelf) > 0 /\ Len(all) + Len(Slice) >= Len(shelf)

LastBooks == TotalPages <= 0 \/ page + 1 >= TotalPages

LastPage == IF api = "abs" THEN LastItems ELSE LastBooks

GetPage ==
    /\ phase = "get"
    /\ Decodes
    /\ all' = all \o Slice
    /\ page' = page + 1
    /\ phase' = IF LastPage THEN "done" ELSE "get"
    /\ UNCHANGED <<api, first, shelf, arrived, left>>

(* One thing whose JSON form is not what the program expects ends the      *)
(* listing of all of them.                                                 *)
SkipOddPage ==                                                                   \* mutant
    /\ phase = "get"
    /\ ~ Decodes
    /\ page' = page + 1
    /\ phase' = IF LastPage THEN "done" ELSE "get"
    /\ UNCHANGED <<api, first, shelf, all, arrived, left>>
RetryOddPage == FALSE                                                            \* mutant
OddPage ==
    /\ phase = "get"
    /\ ~ Decodes
    /\ phase' = "failed"
    /\ UNCHANGED <<api, first, shelf, page, all, arrived, left>>

PageFails ==
    /\ phase = "get"
    /\ phase' = "failed"
    /\ UNCHANGED <<api, first, shelf, page, all, arrived, left>>

-------------------------------------------------------------------------------
(* Everybody else: the scanner, the user, the shop.                        *)

Arrive(t, i) ==
    /\ phase = "get"
    /\ Cardinality(arrived) < MaxArrivals
    /\ t \notin Elements(first) \union arrived
    /\ shelf' = SubSeq(shelf, 1, i) \o <<t>> \o SubSeq(shelf, i + 1, Len(shelf))
    /\ arrived' = arrived \union {t}
    /\ UNCHANGED <<api, first, page, all, phase, left>>

Remove(i) ==
    /\ phase = "get"
    /\ Cardinality(left) < MaxRemovals
    /\ shelf' = SubSeq(shelf, 1, i - 1) \o SubSeq(shelf, i + 1, Len(shelf))
    /\ left' = left \union {shelf[i]}
    /\ UNCHANGED <<api, first, page, all, phase, arrived>>

-------------------------------------------------------------------------------
Next ==
    \/ GetPage
    \/ OddPage
    \/ PageFails
    \/ \E t \in Things : \E i \in 0 .. Len(shelf) : Arrive(t, i)
    \/ \E i \in DOMAIN shelf : Remove(i)

(* A run asks for the next page; nobody has to change the shelf.           *)
Spec == Init /\ [][Next]_vars /\ WF_vars(GetPage) /\ WF_vars(OddPage)

-------------------------------------------------------------------------------
(* Properties.                                                             *)

TypeOK ==
    /\ api \in Apis
    /\ first \in Seq(Things)
    /\ shelf \in Seq(Things)
    /\ page \in Nat
    /\ all \in Seq(Things)
    /\ phase \in {"get", "done", "failed"}
    /\ arrived \subseteq Things
    /\ left \subseteq Things

(* A finished listing shows everything that was on the shelf from the      *)
(* beginning, however much was added meanwhile, as long as nothing was     *)
(* taken away: classify never calls a book missing that audiobookshelf had *)
(* when the run began, and the run never overlooks a book the user owned.  *)
NothingMissed ==
    phase = "done" /\ left = {} => Elements(first) \subseteq Elements(all)

(* Every thing taken away hides at most one that stays, and every thing    *)
(* added makes at most one appear twice: a book still there is skipped by  *)
(* listAllItems, or handed to syncOne twice, only for such a reason.       *)
ShiftsAccountFor ==
    phase = "done" =>
        /\ Cardinality((Elements(first) \intersect Elements(shelf)) \ Elements(all)) <= Cardinality(left)
        /\ Len(all) - Cardinality(Elements(all)) <= Cardinality(arrived)

(* A listing ends, also when a page cannot be read.                        *)
Ends == <>(phase # "get")

===============================================================================
