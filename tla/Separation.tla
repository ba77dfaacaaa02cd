------------------------------ MODULE Separation ------------------------------
(***************************************************************************)
(* The catalogs on which librofm-sync can work: no two books are taken for *)
(* each other.  The program does not check this; MCReconcile shows what    *)
(* happens on catalogs where it fails.  SeparationProofs proves the        *)
(* promises of Reconcile from it.                                          *)
(***************************************************************************)
EXTENDS Reconcile

ManualOf(n) == {m \in Manual : m.recording = n}

(* What an item with recording n may look like, before and after a PATCH.  *)
TitlesShown(n)  == {m.title : m \in ManualOf(n)}
                     \union (IF n \in BookIds THEN TitlesOf(Catalog[n]) ELSE {})
AuthorsShown(n) == {m.author : m \in ManualOf(n)}
                     \union (IF n \in BookIds THEN AuthorsOf(Catalog[n]) ELSE {})
FoldersOf(n)    == {m.folder : m \in ManualOf(n)}
                     \union (IF n \in BookIds THEN {Folder(Catalog[n])} ELSE {})

(* A key under which an item of this look is indexed is one of the book's. *)
Recognises(b, title, author) ==
    \E k \in DOMAIN BookKeys(b) : BookKeys(b)[k] \in KeysOf(title, author)

DistinctISBNs ==
    \A n \in BookIds :
        /\ Catalog[n].isbn # ""
        /\ \A m \in BookIds : Catalog[n].isbn = Catalog[m].isbn => n = m

DistinctFolders ==
    \A n, m \in Recordings : n # m => FoldersOf(n) \intersect FoldersOf(m) = {}

(* No look of one recording is taken for another book, neither by classify *)
(* nor by the discovery after an upload.                                   *)
DistinctLooks ==
    \A n \in Recordings, m \in BookIds : n # m =>
        \A title \in TitlesShown(n) :
            /\ ~ titleMatches(title, uploadTitle(Catalog[m]))
            /\ \A author \in AuthorsShown(n) : ~ Recognises(Catalog[m], title, author)

ASSUME SeparatedCatalog == DistinctISBNs /\ DistinctFolders /\ DistinctLooks

(* Every look of the book is taken for it.  Not assumed: a colon or a      *)
(* question mark in the title is lost in the folder's name, so that one    *)
(* look of the book is not recognised.                                     *)
AlwaysRecognised(n) ==
    \A title \in TitlesShown(n), author \in AuthorsShown(n) :
        Recognises(Catalog[n], title, author)

(* The names of an ordinary book: they pass SafeFileName unchanged, one    *)
(* author is listed, and the files are tagged with the title or with a     *)
(* longer form of it.                                                      *)
PlainNames(n) ==
    LET b == Catalog[n] IN
    /\ b.title # <<>> /\ uploadTitle(b) = b.title
    /\ uploadAuthor(b) = b.author /\ ~ Contains(b.author, ",")
    /\ Embedded(b) = <<>> \/ b.title \in Range(titleVariants(Embedded(b)))

(* A hand copy of a bought book lies where the program would upload it.     *)
(* Not assumed: only the discovery of the very upload rests on it.         *)
CopiesInPlace ==
    \A m \in Manual : m.recording \in BookIds => m.folder = Folder(Catalog[m.recording])

(* What the library held when a run listed it is not downloaded again, nor *)
(* uploaded, whatever failed after its upload: not if the item carries an  *)
(* ISBN, whatever became of its title, and not without one either if every *)
(* look of the book is recognised.                                         *)
NoRedownload ==
    \A r \in Runs : \A it \in Refetched(r) :
        it.isbn = "" /\ ~ AlwaysRecognised(run[r].pos)

-------------------------------------------------------------------------------
(* The inductive invariant of SeparationProofs: every item, indexed or on  *)
(* a listing, belongs to one recording, and ids never change hands.        *)

ItemOf(it, n) ==
    /\ it.holds = {n}
    /\ it.title \in TitlesShown(n)
    /\ it.author \in AuthorsShown(n)
    /\ it.folder \in FoldersOf(n)
    /\ it.isbn # "" => n \in BookIds /\ it.isbn = Catalog[n].isbn

IdsUnique ==
    \A it1, it2 \in items : it1.id < nextId /\ (it1.id = it2.id => it1 = it2)

ItemsSeparate ==
    \A it \in items : \E n \in Recordings : ItemOf(it, n)

(* What a run remembers of an item still is of the item with that id.      *)
Remembers(id, n) == id < nextId /\ \A it \in items : it.id = id => ItemOf(it, n)

Exists(id) == \E it \in items : it.id = id
Arrived(n) == Mirrored(n) \/ n \in removed

(* A listed item, however old the listing.                                 *)
Known(it) ==
    \E n \in Recordings :
        /\ ItemOf(it, n)
        /\ Remembers(it.id, n)
        /\ it.isbn # "" => Arrived(n)
        /\ Exists(it.id) \/ n \in removed

ListingTrue(r) == \A i \in DOMAIN run[r].listing : Known(run[r].listing[i])

TargetTrue(r) ==
    run[r].phase \in {"patch", "cover"} => Remembers(run[r].target, run[r].pos)

DownloadsNeeded(r) ==
    run[r].phase \in {"m4b", "mp3", "upload"} =>
        NotPresent(run[r].listing, Book(r))

(* The books behind the current one have arrived, if none failed.          *)
Progress(r) ==
    ~ run[r].dry /\ run[r].summary["failed"] = 0 =>
        /\ \A n \in 1..(run[r].pos - 1) : Arrived(n)
        /\ run[r].phase = "cover" => Arrived(run[r].pos)

SeparationInv ==
    /\ IdsUnique
    /\ ItemsSeparate
    /\ \A r \in Runs : ListingTrue(r) /\ TargetTrue(r) /\ DownloadsNeeded(r) /\ Progress(r)
===============================================================================
