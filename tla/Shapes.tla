-------------------------------- MODULE Shapes --------------------------------
(***************************************************************************)
(* What the two clients make of a JSON answer: internal/abs/gen.go, whose  *)
(* UnmarshalJSON methods read an object member by member, and              *)
(* internal/librofm/types.go, read by reflection.  A member the program    *)
(* does not know is kept aside, one that is missing or null leaves its     *)
(* field zero, and one of another type fails the whole answer, however     *)
(* deep it lies and whether or not anybody uses it.                        *)
(*                                                                         *)
(* A JSON value is a record [kind, at, elems]: at holds the members of an  *)
(* "object", elems the elements of an "array".  The other kinds are        *)
(* "null", "string", "time" (a string in the form of RFC 3339), "int",     *)
(* "float", "bool" and "garbage", what is no JSON at all.                  *)
(***************************************************************************)
EXTENDS Naturals, Sequences

Scalar(kind)    == [kind |-> kind, at |-> <<>>, elems |-> <<>>]
Object(members) == [kind |-> "object", at |-> members, elems |-> <<>>]
Array(elements) == [kind |-> "array", at |-> <<>>, elems |-> elements]

Has(v, member) == v.kind = "object" /\ member \in DOMAIN v.at

(* The elements of an array member; one that is missing or null has none.  *)
ElementsOf(v, member) ==
    IF Has(v, member) THEN {v.at[member].elems[i] : i \in DOMAIN v.at[member].elems} ELSE {}

-------------------------------------------------------------------------------
(* Decoding.                                                               *)

FitsScalar(type, v) ==
    \/ v.kind \in {"null", type}
    \/ v.kind = "time" /\ type = "string"
    \/ v.kind = "int"  /\ type = "float"

ArrayOf(Decodes(_), v) ==
    \/ v.kind = "null"
    \/ v.kind = "array" /\ \A i \in DOMAIN v.elems : Decodes(v.elems[i])

Fits(type, v) ==
    CASE type = "strings" -> ArrayOf(LAMBDA w : FitsScalar("string", w), v)
      [] type = "objects" -> ArrayOf(LAMBDA w : w.kind \in {"null", "object"}, v)
      [] OTHER            -> FitsScalar(type, v)

(* types gives the simple members and their types.                         *)
Members(types, v) ==
    \/ v.kind = "null"
    \/ v.kind = "object" /\ \A m \in DOMAIN types \intersect DOMAIN v.at : Fits(types[m], v.at[m])

Nested(Decodes(_), v, member) == Has(v, member) => Decodes(v.at[member])

Strings(names) == [n \in names |-> "string"]

-------------------------------------------------------------------------------
(* audiobookshelf.                                                         *)

BookMetadata(v) ==
    Members([explicit |-> "bool", genres |-> "strings", asin |-> "string",
             authorName |-> "string", description |-> "string", isbn |-> "string",
             language |-> "string", narratorName |-> "string", publishedDate |-> "string",
             publishedYear |-> "string", publisher |-> "string", seriesName |-> "string",
             subtitle |-> "string", title |-> "string", titleIgnorePrefix |-> "string"], v)

Media(v) ==
    /\ Members([coverPath |-> "string", id |-> "string", tags |-> "strings"], v)
    /\ Nested(BookMetadata, v, "metadata")

LibraryItem(v) ==
    /\ Members([addedAt |-> "int", birthtimeMs |-> "int", ctimeMs |-> "int", mtimeMs |-> "int",
                updatedAt |-> "int", isFile |-> "bool", isInvalid |-> "bool",
                isMissing |-> "bool", id |-> "string", folderId |-> "string",
                ino |-> "string", libraryId |-> "string", mediaType |-> "string",
                path |-> "string", relPath |-> "string"], v)
    /\ Nested(Media, v, "media")

LibraryItemsPage(v) ==
    /\ Members([collapseseries |-> "bool", minified |-> "bool", sortDesc |-> "bool",
                limit |-> "int", offset |-> "int", page |-> "int", total |-> "int",
                filterBy |-> "string", include |-> "string", mediaType |-> "string",
                sortBy |-> "string"], v)
    /\ Nested(LAMBDA w : ArrayOf(LibraryItem, w), v, "results")

SearchHitBook(v) ==
    /\ Members(Strings({"matchKey", "matchText"}), v)
    /\ Nested(LibraryItem, v, "libraryItem")

SearchResponse(v) ==
    /\ Members([authors |-> "objects", narrators |-> "objects", podcast |-> "objects",
                series |-> "objects", tags |-> "strings"], v)
    /\ Nested(LAMBDA w : ArrayOf(SearchHitBook, w), v, "book")

Folder(v) == Members(Strings({"fullPath", "id"}), v)

Library(v) ==
    /\ Members(Strings({"id", "mediaType", "name"}), v)
    /\ Nested(LAMBDA w : ArrayOf(Folder, w), v, "folders")

Libraries(v) ==
    /\ Members(<<>>, v)
    /\ Nested(LAMBDA w : ArrayOf(Library, w), v, "libraries")

UserPermissions(v) == Members([upload |-> "bool"], v)

User(v) ==
    /\ Members([isAdmin |-> "bool", id |-> "string", type |-> "string", username |-> "string"], v)
    /\ Nested(UserPermissions, v, "permissions")

(* The answers to a PATCH and to a cover.                                  *)
Updated(v) ==
    /\ Members([updated |-> "bool"], v)
    /\ Nested(LibraryItem, v, "libraryItem")

CoverSet(v) == Members([success |-> "bool", cover |-> "string"], v)

-------------------------------------------------------------------------------
(* libro.fm.  The ISBN of a book may be a string or a bare number.         *)

AudiobookInfo(v) ==
    /\ Members([narrators |-> "strings", duration |-> "int", size_bytes |-> "int",
                track_count |-> "int", parts_count |-> "int", audio_language |-> "string"], v)
    /\ Nested(LAMBDA w : ArrayOf(LAMBDA u : Members([filename |-> "string", size_bytes |-> "int"], u), w),
              v, "pdf_extras")

Book(v) ==
    /\ Members([title |-> "string", subtitle |-> "string", authors |-> "strings",
                cover_url |-> "string", publisher |-> "string", publication_date |-> "time",
                description |-> "string", series |-> "string", series_num |-> "float",
                abridged |-> "bool"], v)
    /\ Nested(LAMBDA w : ArrayOf(LAMBDA u : Members([name |-> "string"], u), w), v, "genres")
    /\ Nested(AudiobookInfo, v, "audiobook_info")
    /\ Nested(LAMBDA w : Members([finished |-> "bool", track_index |-> "float",
                                  track_seconds |-> "float", added_at |-> "string",
                                  hidden |-> "bool"], w), v, "user_metadata")

LibraryPage(v) ==
    /\ Members([page |-> "int", total_pages |-> "int", tags |-> "strings"], v)
    /\ Nested(LAMBDA w : ArrayOf(Book, w), v, "audiobooks")
===============================================================================
