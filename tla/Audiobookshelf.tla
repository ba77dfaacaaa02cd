---------------------------- MODULE Audiobookshelf ----------------------------
(***************************************************************************)
(* The audiobookshelf (ABS) library librofm-sync writes to, as far as its  *)
(* code depends on it: uploaded files land in a folder named by the upload *)
(* and become an item only when the scanner indexes the folder; an item is *)
(* found by its title, listed with its metadata and patched by its id.     *)
(* ABS itself is another program: everything here is external, modelled    *)
(* from the calls in internal/abs and internal/reconcile.                  *)
(*                                                                         *)
(* The library is shared with its user, who adds and deletes items by      *)
(* hand whenever they like.                                                *)
(***************************************************************************)
EXTENDS Titles, FiniteSets

CONSTANTS
    Catalog,      \* the books on libro.fm, in the order its library lists them
    Manual,       \* items the user may add by hand
    WatcherOn,    \* whether ABS indexes new folders of its own accord
    MaxRemoved    \* bound: how many recordings the user deletes, each once

BookIds == DOMAIN Catalog

(* 0 is a recording that is no libro.fm purchase.                          *)
Recordings == BookIds \union {0}

(* tag is the title embedded in the M4B file, <<>> when it has none.       *)
Books == [isbn : STRING, title : Seq(STRING), tag : Seq(STRING),
          author : Seq(STRING), series : Seq(STRING), m4b : BOOLEAN, cover : BOOLEAN]

ASSUME CatalogAssumption == Catalog \in Seq(Books)

ASSUME ManualAssumption ==
    \A m \in Manual : m.recording \in Recordings

ASSUME ServerAssumption == WatcherOn \in BOOLEAN /\ MaxRemoved \in Nat

-------------------------------------------------------------------------------
(* What the program sends in an upload names the folder: syncOne always    *)
(* passes SafeFileName of the title and of the series, and of the first    *)
(* author when there is one.                                               *)

uploadTitle(b)  == SafeFileName(b.title)
uploadAuthor(b) == IF b.author = <<>> THEN <<>> ELSE SafeFileName(b.author)
uploadSeries(b) == SafeFileName(b.series)

Folder(b) == [author |-> uploadAuthor(b), series |-> uploadSeries(b), title |-> uploadTitle(b)]

(* The title in the tags of the uploaded files: an M4B keeps its own, MP3  *)
(* parts are tagged with the libro.fm title.                               *)
Embedded(b) == IF b.m4b THEN b.tag ELSE b.title

(* The titles an item of the book may show: the scanner takes the folder's *)
(* name or the embedded title, the PATCH writes the libro.fm title.        *)
ScannedTitles(b) == {uploadTitle(b)} \union ({Embedded(b)} \ {<<>>})
TitlesOf(b)  == ScannedTitles(b) \union {b.title}
AuthorsOf(b) == {uploadAuthor(b), b.author}

Folders == {Folder(Catalog[n]) : n \in BookIds} \union {m.folder : m \in Manual}
Names   == {m.title : m \in Manual} \union (UNION {TitlesOf(Catalog[n]) : n \in BookIds})
Authors == {m.author : m \in Manual} \union (UNION {AuthorsOf(Catalog[n]) : n \in BookIds})
Series  == {<<>>} \union {uploadSeries(Catalog[n]) : n \in BookIds}
                 \union {Catalog[n].series : n \in BookIds}
Isbns   == {Catalog[n].isbn : n \in BookIds} \union {""}

Items == [id : Nat, folder : Folders, title : Names, author : Authors, series : Series,
          isbn : Isbns, cover : BOOLEAN, holds : SUBSET Recordings]

-------------------------------------------------------------------------------
VARIABLES
    items,     \* the indexed items; holds names the recordings in the item's folder
    landed,    \* books whose uploaded files the scanner has not seen yet
    toScan,    \* the landed books an explicit scan is going to visit
    nextId,    \* the id of the next item
    removed    \* the recordings the user has deleted at some time

absVars == <<items, landed, toScan, nextId, removed>>

AbsInit ==
    /\ items = {}
    /\ landed = {}
    /\ toScan = {}
    /\ nextId = 1
    /\ removed = {}

AbsTypeOK ==
    /\ items \subseteq Items
    /\ landed \subseteq BookIds
    /\ toScan \subseteq landed
    /\ nextId \in Nat \ {0}
    /\ removed \subseteq Recordings

ItemsIn(folder) == {it \in items : it.folder = folder}
ItemsWith(id)   == {it \in items : it.id = id}

-------------------------------------------------------------------------------
(* Requests of the program.                                                *)

Receive(n) ==
    /\ landed' = landed \union {n}
    /\ UNCHANGED <<items, toScan, nextId, removed>>

AcceptScan ==
    /\ toScan' = landed
    /\ UNCHANGED <<items, landed, nextId, removed>>

Replace(old, new) ==
    /\ items' = (items \ {old}) \union {new}
    /\ UNCHANGED <<landed, toScan, nextId, removed>>

-------------------------------------------------------------------------------
(* The scanner and the user.                                               *)

(* New files in the folder of an item join the item; a new folder becomes  *)
(* an item, titled by its name or by the tags of its files.                *)
ScanFolder(n) ==
    LET b == Catalog[n] IN
    /\ n \in landed
    /\ WatcherOn \/ n \in toScan
    /\ landed' = landed \ {n}
    /\ toScan' = toScan \ {n}
    /\ \/ \E it \in ItemsIn(Folder(b)) :
            /\ items' = (items \ {it}) \union {[it EXCEPT !.holds = @ \union {n}]}
            /\ UNCHANGED nextId
       \/ /\ ItemsIn(Folder(b)) = {}
          /\ \E title \in ScannedTitles(b) :
               items' = items \union
                   {[id |-> nextId, folder |-> Folder(b), title |-> title,
                     author |-> uploadAuthor(b), series |-> uploadSeries(b),
                     isbn |-> "", cover |-> FALSE, holds |-> {n}]}
          /\ nextId' = nextId + 1
    /\ UNCHANGED removed

UserAdds(m) ==
    /\ m.recording \notin removed
    /\ ItemsIn(m.folder) = {}
    /\ items' = items \union
           {[id |-> nextId, folder |-> m.folder, title |-> m.title, author |-> m.author,
             series |-> <<>>, isbn |-> "", cover |-> FALSE, holds |-> {m.recording}]}
    /\ nextId' = nextId + 1
    /\ UNCHANGED <<landed, toScan, removed>>

(* Deleting an item deletes its folder, with files not yet indexed.        *)
UserDeletes(it) ==
    LET lost == {n \in landed : Folder(Catalog[n]) = it.folder} IN
    /\ Cardinality(removed) < MaxRemoved
    /\ it.holds \intersect removed = {}
    /\ items' = items \ {it}
    /\ landed' = landed \ lost
    /\ toScan' = toScan \ lost
    /\ removed' = removed \union it.holds \union lost
    /\ UNCHANGED nextId
===============================================================================
