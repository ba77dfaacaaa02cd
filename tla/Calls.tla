-------------------------------- MODULE Calls ---------------------------------
(***************************************************************************)
(* One invocation of librofm-sync, call by call: the order of the calls    *)
(* each subcommand makes, what the generated client (internal/abs/gen.go), *)
(* the libro.fm client and the handlers make of every kind of answer, and  *)
(* the poll schedule of Discover.  The library owned is one book.          *)
(*                                                                         *)
(* An answer may come from the service itself, carried out or refused; it  *)
(* may be lost, before or after the service carried it out; or a proxy in  *)
(* front of the service answers in its place with a page of its own, with  *)
(* status 200 and no JSON, as Authelia does                                *)
(* (docs/02-audiobookshelf-api.md).                                        *)
(***************************************************************************)
EXTENDS Shapes

CONSTANTS
    Docs,           \* Docs[c]: the JSON documents a service may answer c with
    Refusals,       \* the statuses of the answers that carry nothing out
    Interceptable,  \* the calls a proxy may answer
    Budgets,        \* values of --discover-timeout in seconds, 0 for none given
    DefaultDiscoverTimeout, MaxDelay,   \* 300 and 30 seconds
    IndexTimes      \* seconds of polling after which the scanner shows an upload

ASSUME BudgetsAreSeconds == Budgets \subseteq Nat
ASSUME ScheduleIsPositive == DefaultDiscoverTimeout \in Nat \ {0} /\ MaxDelay \in Nat \ {0}
ASSUME RefusalsAreStatuses == Refusals \subseteq Nat \ {200}
ASSUME IndexTimesAreSeconds == IndexTimes \subseteq Nat

Syncs    == {"sync", "sync --dry-run"}
Commands == Syncs \union {"probe-librofm", "probe-abs", "probe-download"}

AbsCalls     == {"me", "libraries", "items", "upload", "scan", "search", "patch", "cover"}
LibrofmCalls == {"login", "owned", "m4b", "file", "manifest", "part"}
CallNames    == AbsCalls \union LibrofmCalls

(* upload and scan are answered without a JSON body, file and part with    *)
(* the audio itself.                                                       *)
Bodyless == {"upload", "scan", "file", "part"}

VARIABLES
    cmd, budget,     \* the invocation
    pc,              \* the call it makes next, or "start", "sleep", "exit"
    status,          \* the exit status
    cancelled,       \* SIGINT or SIGTERM has come
    listed,          \* the book's item as the listing showed it, "nothing" if it showed no item
    owned,           \* libro.fm's page named the book
    slept, delay,    \* seconds slept by Discover, and the next delay
    item, uploads,   \* audiobookshelf: the book's item, and uploads accepted
    visibleAt,       \* when the scanner shows the upload
    seen,            \* the calls the service itself has carried out and answered
    proxied          \* the calls a proxy has answered in its place

vars == <<cmd, budget, pc, status, cancelled, listed, owned, slept, delay, item, uploads, visibleAt, seen, proxied>>

found  == <<listed, owned>>
server == <<item, uploads, visibleAt>>
heard  == <<seen, proxied>>
timer  == <<slept, delay>>

MinOf(a, b) == IF a < b THEN a ELSE b

-------------------------------------------------------------------------------
(* Answers.                                                                *)

Garbage == Scalar("garbage")

Reply(from, done, code, json, body) ==
    [from |-> from, done |-> done, status |-> code, json |-> json, body |-> body]

Lost(done) == Reply("nobody", done, 0, FALSE, Garbage)

Answers(c) ==
    IF cancelled THEN {Lost(FALSE)}
    ELSE    {Reply("service", TRUE, 200, c \notin Bodyless, d) : d \in Docs[c]}
     \union {Reply("service", FALSE, code, FALSE, Garbage) : code \in Refusals}
     \union {Reply("proxy", FALSE, 200, FALSE, Garbage) : p \in Interceptable \intersect {c}}
     \union {Lost(done) : done \in BOOLEAN}

Decodes(c, v) ==
    CASE c = "me"        -> User(v)
      [] c = "libraries" -> Libraries(v)
      [] c = "items"     -> LibraryItemsPage(v)
      [] c = "search"    -> SearchResponse(v)
      [] c = "patch"     -> Updated(v)
      [] c = "cover"     -> CoverSet(v)
      [] c = "owned"     -> LibraryPage(v)
      [] c = "login"     -> Members(Strings({"access_token"}), v)
      [] c = "m4b"       -> Members(Strings({"m4b_url"}), v)
      [] c = "manifest"  -> Nested(LAMBDA w : ArrayOf(LAMBDA u : Members(Strings({"url"}), u), w), v, "parts")
      [] OTHER           -> TRUE

(* The generated client: JSON200 is set only for a JSON answer of status   *)
(* 200, and one that does not decode is an error whoever looks at it.      *)
JSON200(a) == a.json /\ a.status = 200
ParseFails(c, a) == a.from = "nobody" \/ (JSON200(a) /\ ~ Decodes(c, a.body))

(* What each caller accepts.                                               *)
StatusOnly(c, a)  == ~ ParseFails(c, a) /\ a.status = 200                         \* mutant
WithJSON200(c, a) == ~ ParseFails(c, a) /\ a.status = 200 /\ JSON200(a)
WithStatus(c, a)  == ~ ParseFails(c, a) /\ a.status = 200

(* UploadItem and the libro.fm client take any status 2xx.                 *)
Is2xx(a)    == a.from # "nobody" /\ a.status \div 100 = 2
Uploaded(a) == Is2xx(a)

(* The libro.fm client decodes what comes with it; an empty token, URL or  *)
(* list of parts is an error.                                              *)
Says(c, v) ==
    CASE c = "login" -> Has(v, "access_token") /\ v.at["access_token"].kind = "string"
      [] c = "m4b"   -> Has(v, "m4b_url") /\ v.at["m4b_url"].kind = "string"
      [] c = "manifest" -> ElementsOf(v, "parts") # {}
      [] OTHER       -> TRUE
GetJSON(c, a) == Is2xx(a) /\ a.body.kind # "garbage" /\ Decodes(c, a.body) /\ Says(c, a.body)

(* A page of the proxy is saved as an M4B, but it is no zip archive.       *)
Streamed(c, a) == Is2xx(a) /\ (c = "part" => a.done)

(* What the program reads out of a document it has decoded.  An array that *)
(* is missing counts as an empty one.                                      *)
HasFolder(v)  == ElementsOf(v, "folders") # {}
HasBook(v)    == ElementsOf(v, "audiobooks") # {}
Described(v)  == Has(v, "media") /\ Has(v.at["media"], "metadata")
ShowsItems(v) == \E w \in ElementsOf(v, "results") : Described(w)
HasHit(v)     == \E w \in ElementsOf(v, "book") : Has(w, "libraryItem") /\ Described(w.at["libraryItem"])

-------------------------------------------------------------------------------
(* The invocation.                                                         *)

Init ==
    /\ cmd \in Commands /\ budget \in Budgets
    /\ pc = "start" /\ status = 0 /\ cancelled = FALSE
    /\ listed = "unknown" /\ owned = FALSE
    /\ slept = 0 /\ delay = 1
    /\ item \in {"absent", "bare", "synced"} /\ uploads = 0 /\ visibleAt = 0
    /\ seen = {} /\ proxied = {}

Goto(p)    == pc' = p /\ UNCHANGED status
Exit(code) == pc' = "exit" /\ status' = code

(* Missing or malformed flags end the program before any call.             *)
Start ==
    /\ pc = "start"
    /\ \/ Exit(1)
       \/ Goto(IF cmd = "probe-abs" THEN "me" ELSE "login")
    /\ UNCHANGED <<cmd, budget, cancelled, found, timer, server, heard>>

(* The program asks c and has the answer a.                                *)
Ask(c, a) ==
    /\ pc = c
    /\ seen' = IF a.from = "service" /\ a.done THEN seen \union {c} ELSE seen
    /\ proxied' = IF a.from = "proxy" THEN proxied \union {c} ELSE proxied
    /\ UNCHANGED <<cmd, budget, cancelled>>

Login(a) ==
    /\ Ask("login", a)
    /\ IF GetJSON("login", a)
       THEN Goto(IF cmd \in Syncs THEN "me" ELSE "owned")
       ELSE Exit(1)
    /\ UNCHANGED <<found, timer, server>>

(* A token in the cache makes Login a no-op.                               *)
CachedLogin ==
    /\ pc = "login"
    /\ Goto(IF cmd \in Syncs THEN "me" ELSE "owned")
    /\ UNCHANGED <<cmd, budget, cancelled, found, timer, server, heard>>

GetMe(a) ==
    /\ Ask("me", a)
    /\ IF WithJSON200("me", a) THEN Goto("libraries") ELSE Exit(1)
    /\ UNCHANGED <<found, timer, server>>

(* A sync ends here if no library has the name of --abs-library, or if the *)
(* one that has it has no folder.                                          *)
ListLibraries(a) ==
    /\ Ask("libraries", a)
    /\ IF ~ WithJSON200("libraries", a) THEN Exit(1)
       ELSE IF cmd = "probe-abs" THEN Exit(0)
       ELSE \/ Exit(1)
            \/ \E lib \in ElementsOf(a.body, "libraries") :
                  Has(lib, "name") /\ IF HasFolder(lib) THEN Goto("items") ELSE Exit(1)
    /\ UNCHANGED <<found, timer, server>>

(* A page that shows items shows the book's as it is, if there is one.     *)
ListItems(a) ==
    /\ Ask("items", a)
    /\ IF WithJSON200("items", a)
       THEN Goto("owned") /\ listed' = IF ShowsItems(a.body) THEN item ELSE "nothing"
       ELSE Exit(1) /\ UNCHANGED listed
    /\ UNCHANGED <<owned, timer, server>>

(* Client.Library, and then classify on the one book, if it is owned.      *)
FetchLibrary(a) ==
    /\ Ask("owned", a)
    /\ owned' = (GetJSON("owned", a) /\ HasBook(a.body))
    /\ IF ~ GetJSON("owned", a) THEN Exit(1)
       ELSE \/ cmd \in {"probe-librofm", "sync --dry-run"} /\ Exit(0)
            \/ cmd = "probe-download" /\ Exit(1)             \* not the one of --isbn
            \/ cmd = "probe-download" /\ owned' /\ Goto("m4b")
            \/ cmd = "sync" /\ ~ owned' /\ Exit(0)
            \/ cmd = "sync" /\ owned' /\ listed = "synced" /\ Exit(0)
            \/ cmd = "sync" /\ owned' /\ listed = "bare" /\ Goto("patch")
            \/ cmd = "sync" /\ owned' /\ listed \in {"absent", "nothing"} /\ Goto("m4b")
    /\ UNCHANGED <<listed, timer, server>>

-------------------------------------------------------------------------------
(* One book.                                                               *)

M4BURL(a) ==
    /\ Ask("m4b", a)
    /\ IF GetJSON("m4b", a) THEN Goto("file")
       ELSE IF a.status = 404 THEN Goto("manifest") ELSE Exit(1)
    /\ UNCHANGED <<found, timer, server>>

MP3Manifest(a) ==
    /\ Ask("manifest", a)
    /\ IF GetJSON("manifest", a) THEN Goto("part") ELSE Exit(1)
    /\ UNCHANGED <<found, timer, server>>

Download(c, a) ==
    /\ Ask(c, a)
    /\ IF ~ Streamed(c, a) THEN Exit(1)
       ELSE IF cmd = "probe-download" THEN Exit(0) ELSE Goto("upload")
    /\ UNCHANGED <<found, timer, server>>

UploadItem(a) ==
    /\ Ask("upload", a)
    /\ IF Uploaded(a) THEN Goto("scan") ELSE Exit(1)
    /\ IF a.done
       THEN /\ uploads' = uploads + 1
            /\ item' = IF item = "absent" THEN "landed" ELSE item
            /\ visibleAt' \in IndexTimes
       ELSE UNCHANGED server
    /\ UNCHANGED <<found, timer>>

(* The scan only brings the moment forward; its failure is not fatal.      *)
TriggerScan(a) ==
    /\ Ask("scan", a)
    /\ Goto("sleep")
    /\ IF a.done
       THEN /\ visibleAt' \in {t \in IndexTimes \union {visibleAt} : t <= visibleAt}
            /\ UNCHANGED <<item, uploads>>
       ELSE UNCHANGED server
    /\ UNCHANGED <<found, timer>>

(* buildBackoffs: delays double up to MaxDelay and the last one is cut, so *)
(* that they add up to the budget.  The schedule is walked as it is made.  *)
Total == IF budget <= 0 THEN DefaultDiscoverTimeout ELSE budget

Delay == IF delay > Total - slept THEN Total - slept ELSE delay

Sleep ==
    /\ pc = "sleep"
    /\ IF cancelled
       THEN Exit(1) /\ UNCHANGED timer
       ELSE /\ slept' = slept + Delay
            /\ delay' = IF delay < MaxDelay THEN MinOf(2 * delay, MaxDelay) ELSE delay
            /\ Goto("search")
    /\ UNCHANGED <<cmd, budget, cancelled, found, server, heard>>

(* searchOnce.  An answer without JSON is a poll without a hit.            *)
Visible == item # "absent" /\ visibleAt <= slept

LastPollSkipped == slept + delay >= Total                                         \* mutant
OutOfBudget     == slept >= Total

RetrySearch(a) ==                                                                \* mutant
    /\ Ask("search", a)
    /\ IF ~ WithStatus("search", a) THEN Goto("search")
       ELSE IF JSON200(a) /\ HasHit(a.body) /\ Visible THEN Goto("patch")
       ELSE IF OutOfBudget THEN Exit(1) ELSE Goto("sleep")
    /\ UNCHANGED <<found, timer, server>>
Search(a) ==
    /\ Ask("search", a)
    /\ IF ~ WithStatus("search", a) THEN Exit(1)
       ELSE IF JSON200(a) /\ HasHit(a.body) /\ Visible THEN Goto("patch")
       ELSE IF OutOfBudget THEN Exit(1) ELSE Goto("sleep")
    /\ UNCHANGED <<found, timer, server>>

AnyStatus(a) == a.from # "nobody"                                                 \* mutant
PatchOK(a)   == WithStatus("patch", a)

UpdateItemMedia(a) ==
    /\ Ask("patch", a)
    /\ IF PatchOK(a) THEN Goto("cover") ELSE Exit(1)
    /\ item' = IF a.done THEN "synced" ELSE item
    /\ UNCHANGED <<found, timer, uploads, visibleAt>>

(* A cover that fails, or a book that has none, is not fatal.              *)
SetItemCover(a) ==
    /\ Ask("cover", a)
    /\ Exit(0)
    /\ UNCHANGED <<found, timer, server>>

NoCover ==
    /\ pc = "cover"
    /\ Exit(0)
    /\ UNCHANGED <<cmd, budget, cancelled, found, timer, server, heard>>

-------------------------------------------------------------------------------
(* A signal makes every call after it fail and ends a sleep.               *)
Interrupt ==
    /\ pc # "exit" /\ ~ cancelled
    /\ cancelled' = TRUE
    /\ UNCHANGED <<cmd, budget, pc, status, found, timer, server, heard>>

Step ==
    \/ Start \/ CachedLogin \/ Sleep \/ NoCover
    \/ \E a \in Answers("login")     : Login(a)
    \/ \E a \in Answers("me")        : GetMe(a)
    \/ \E a \in Answers("libraries") : ListLibraries(a)
    \/ \E a \in Answers("items")     : ListItems(a)
    \/ \E a \in Answers("owned")     : FetchLibrary(a)
    \/ \E a \in Answers("m4b")       : M4BURL(a)
    \/ \E a \in Answers("manifest")  : MP3Manifest(a)
    \/ \E c \in {"file", "part"} : \E a \in Answers(c) : Download(c, a)
    \/ \E a \in Answers("upload")    : UploadItem(a)
    \/ \E a \in Answers("scan")      : TriggerScan(a)
    \/ \E a \in Answers("search")    : Search(a)
    \/ \E a \in Answers("patch")     : UpdateItemMedia(a)
    \/ \E a \in Answers("cover")     : SetItemCover(a)

Next == Step \/ Interrupt

(* Every call ends, at the latest by the 60 s timeout of both clients.     *)
Spec == Init /\ [][Next]_vars /\ WF_vars(Step)

-------------------------------------------------------------------------------
(* Properties.                                                             *)

TypeOK ==
    /\ cmd \in Commands /\ budget \in Budgets
    /\ pc \in CallNames \union {"start", "sleep", "exit"}
    /\ status \in {0, 1} /\ cancelled \in BOOLEAN
    /\ listed \in {"unknown", "nothing", "absent", "bare", "synced"} /\ owned \in BOOLEAN
    /\ slept \in Nat /\ delay \in Nat \ {0}
    /\ item \in {"absent", "landed", "bare", "synced"}
    /\ uploads \in Nat /\ visibleAt \in Nat
    /\ seen \subseteq CallNames /\ proxied \subseteq CallNames

(* audiobookshelf is changed only by a real sync that has seen both        *)
(* libraries with its own eyes, for a book that libro.fm named: a login    *)
(* page in the place of /api/me, of the libraries or of the items never    *)
(* passes for an empty library, and what was synced is not uploaded or     *)
(* patched.  Only a page of JSON without items leads to an upload of what  *)
(* is there already (UploadsAreNew).                                       *)
ChangesAreDue ==
    [][<<item, uploads>>' # <<item, uploads>> =>
        /\ cmd = "sync"
        /\ {"me", "libraries", "items", "owned"} \subseteq seen /\ owned
        /\ listed \in {"nothing", "absent", "bare"}
        /\ uploads' # uploads => item = "absent" \/ listed = "nothing"]_vars

(* "If no ABS item", says ADR-005, the book is uploaded: one that has an   *)
(* item in audiobookshelf is not.                                          *)
UploadsAreNew == [][uploads' # uploads => item = "absent"]_vars

(* Exit status 0 of a real sync means the book is in audiobookshelf with   *)
(* its ISBN if libro.fm's page named it, whatever fails or is refused on   *)
(* the way, unless a proxy answered the PATCH, which is judged by its      *)
(* status alone.                                                           *)
HonestExit ==
    pc = "exit" /\ status = 0 /\ cmd = "sync" /\ owned => item = "synced" \/ "patch" \in proxied

(* Without that exception: status 0 means no book failed, as the comment   *)
(* on runSync says.                                                        *)
ZeroMeansSynced == pc = "exit" /\ status = 0 /\ cmd = "sync" /\ owned => item = "synced"

(* Discover gives up only when it has slept for the budget to the second   *)
(* and has polled after that: what the scanner shows within the budget is  *)
(* found, unless a proxy answers the polls or one of them fails.           *)
FoundInTime ==
    [][\A a \in Answers("search") :
          Search(a) /\ pc' = "exit" /\ a.done /\ HasHit(a.body) /\ WithStatus("search", a) =>
              /\ slept = Total
              /\ item = "absent" \/ visibleAt > Total]_vars

(* Every invocation ends.                                                  *)
Terminates == <>(pc = "exit")

===============================================================================
