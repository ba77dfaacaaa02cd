------------------------------ MODULE CallsProofs -----------------------------
(***************************************************************************)
(* What one invocation does, for every document a service may send, every  *)
(* budget and every set of calls a proxy may answer.                       *)
(***************************************************************************)
EXTENDS Calls, Integers, TLAPS

Genuine == {"me", "libraries", "items", "owned"} \subseteq seen

NotShown == listed = "nothing" \/ (listed = "absent" /\ item = "absent")

(* Which answers the program must have had to be where it is.              *)
Order ==
    /\ pc \in {"me", "libraries"} => cmd \in Syncs \union {"probe-abs"}
    /\ pc = "libraries" /\ cmd \in Syncs => "me" \in seen
    /\ pc = "items" => cmd \in Syncs /\ "me" \in seen /\ "libraries" \in seen
    /\ pc \in {"start", "login", "me", "libraries", "items", "owned"} => item # "landed"
    /\ pc = "owned" /\ cmd \in Syncs =>
          "me" \in seen /\ "libraries" \in seen /\ "items" \in seen /\ listed \in {item, "nothing"}
    /\ pc \in {"m4b", "file", "manifest", "part"} =>
          \/ cmd = "probe-download"
          \/ cmd = "sync" /\ Genuine /\ owned /\ NotShown
    /\ pc = "upload" => cmd = "sync" /\ Genuine /\ owned /\ NotShown
    /\ pc \in {"scan", "sleep", "search", "patch", "cover"} =>
          cmd = "sync" /\ Genuine /\ owned /\ listed \in {"nothing", "absent", "bare"}

Clock ==
    /\ slept <= Total
    /\ pc = "sleep" => slept < Total
    /\ pc \notin {"sleep", "search", "patch", "cover", "exit"} => slept = 0

IInv == TypeOK /\ Order /\ Clock

Done ==
    /\ pc = "cover" => item = "synced" \/ "patch" \in proxied
    /\ HonestExit

-------------------------------------------------------------------------------
LEMMA TotalPositive == ASSUME TypeOK PROVE Total \in Nat \ {0}
BY BudgetsAreSeconds, ScheduleIsPositive, Z3 DEF TypeOK, Total

(* Only the service sends JSON, and what it sends it has carried out.      *)
LEMMA OnlyTheServiceSpeaksJSON ==
    ASSUME NEW c, NEW a \in Answers(c)
    PROVE  /\ JSON200(a) => a.from = "service" /\ a.done
           /\ a.from # "nobody" /\ a.status = 200 /\ a.from # "proxy" => a.from = "service" /\ a.done
           /\ a.from # "service" \/ ~ a.done => a.body.kind = "garbage"
           /\ a.done => \/ a.from = "nobody"
                        \/ a.from = "service" /\ a.status = 200 /\ (c \notin Bodyless => JSON200(a))
<1>1. CASE a = Lost(FALSE) \/ a = Lost(TRUE)
  BY <1>1 DEF Lost, Reply, JSON200, Garbage, Scalar
<1>2. ASSUME NEW d, a = Reply("service", TRUE, 200, c \notin Bodyless, d) PROVE a.from = "service" /\ a.done /\ a.status = 200 /\ a.json = (c \notin Bodyless)
  BY <1>2, Zenon DEF Reply
<1>3. ASSUME NEW code \in Refusals, a = Reply("service", FALSE, code, FALSE, Garbage)
      PROVE  /\ a.from = "service" /\ a.done = FALSE /\ a.status # 200 /\ a.json = FALSE
             /\ a.body.kind = "garbage"
  BY <1>3, RefusalsAreStatuses DEF Reply, Garbage, Scalar
<1>4. ASSUME NEW p \in Interceptable \intersect {c}, a = Reply("proxy", FALSE, 200, FALSE, Garbage)
      PROVE  a.from = "proxy" /\ a.done = FALSE /\ a.json = FALSE /\ c \in Interceptable /\ a.body.kind = "garbage"
  BY <1>4 DEF Reply, Garbage, Scalar
<1>5. \/ a = Lost(FALSE) \/ a = Lost(TRUE)
      \/ \E d \in Docs[c] : a = Reply("service", TRUE, 200, c \notin Bodyless, d)
      \/ \E code \in Refusals : a = Reply("service", FALSE, code, FALSE, Garbage)
      \/ \E p \in Interceptable \intersect {c} : a = Reply("proxy", FALSE, 200, FALSE, Garbage)
  <2>1. CASE cancelled
    BY <2>1 DEF Answers
  <2>2. CASE ~ cancelled
    BY <2>2, Zenon DEF Answers
  <2> QED BY <2>1, <2>2
<1>6. CASE \E d \in Docs[c] : a = Reply("service", TRUE, 200, c \notin Bodyless, d)
  <2>1. a.from = "service" /\ a.done /\ a.status = 200 /\ a.json = (c \notin Bodyless)
    BY <1>2, <1>6
  <2> QED BY <2>1 DEF JSON200
<1>7. CASE \E code \in Refusals : a = Reply("service", FALSE, code, FALSE, Garbage)
  <2>1. a.from = "service" /\ a.done = FALSE /\ a.status # 200 /\ a.json = FALSE /\ a.body.kind = "garbage"
    BY <1>3, <1>7
  <2> QED BY <2>1 DEF JSON200
<1>8. CASE \E p \in Interceptable \intersect {c} : a = Reply("proxy", FALSE, 200, FALSE, Garbage)
  <2>1. a.from = "proxy" /\ a.done = FALSE /\ a.json = FALSE /\ c \in Interceptable /\ a.body.kind = "garbage"
    BY <1>4, <1>8
  <2> QED BY <2>1 DEF JSON200
<1> QED BY <1>1, <1>5, <1>6, <1>7, <1>8

(* A step that only moves on.                                              *)
LEMMA KeepsTypes ==
    ASSUME TypeOK, pc' \in CallNames \union {"start", "sleep", "exit"}, status' \in {0, 1},
           UNCHANGED <<cmd, budget, cancelled, listed, owned, slept, delay, item, uploads, visibleAt>>,
           seen' \subseteq CallNames, proxied' \subseteq CallNames
    PROVE  TypeOK'
BY DEF TypeOK

LEMMA AskSees ==
    ASSUME TypeOK, NEW c \in CallNames, NEW a, Ask(c, a)
    PROVE  /\ pc = c /\ UNCHANGED <<cmd, budget, cancelled>>
           /\ seen' \subseteq CallNames /\ proxied' \subseteq CallNames
           /\ seen \subseteq seen' /\ proxied \subseteq proxied'
           /\ a.from = "proxy" => c \in proxied'
           /\ a.from = "service" /\ a.done => c \in seen'
           /\ Genuine => Genuine'
BY DEF Ask, TypeOK, Genuine

LEMMA InitIInv == Init => IInv /\ Done
<1> SUFFICES ASSUME Init PROVE IInv /\ Done
  OBVIOUS
<1>1. budget \in Nat
  BY BudgetsAreSeconds DEF Init
<1>2. TypeOK
  <2>1. pc \in CallNames \union {"start", "sleep", "exit"} /\ cancelled \in BOOLEAN /\ seen \subseteq CallNames /\ proxied \subseteq CallNames
    BY Zenon DEF Init
  <2>2. slept \in Nat /\ delay \in Nat \ {0} /\ uploads \in Nat /\ visibleAt \in Nat
    BY DEF Init
  <2> QED BY <2>1, <2>2 DEF Init, TypeOK
<1>3. Order
  BY DEF Init, Order
<1>4. Clock
  BY <1>2, TotalPositive DEF Init, Clock
<1>5. Done
  BY DEF Init, Done, HonestExit
<1> QED BY <1>2, <1>3, <1>4, <1>5 DEF IInv

LEMMA StartIInv == ASSUME IInv, Start PROVE IInv'
<1>1. /\ TypeOK /\ pc = "start" /\ pc' \in {"exit", "me", "login"} /\ status' \in {0, 1}
      /\ pc' = "me" => cmd = "probe-abs"
      /\ UNCHANGED <<cmd, budget, cancelled, listed, owned, slept, delay, item, uploads, visibleAt, seen, proxied>>
  BY DEF IInv, Start, Exit, Goto, timer, server, found, heard, TypeOK
<1>2. TypeOK'
  BY <1>1, KeepsTypes DEF CallNames, AbsCalls, LibrofmCalls, TypeOK
<1>3. Order'
  BY <1>1 DEF IInv, Order
<1>4. Clock'
  BY <1>1 DEF IInv, Clock, Total
<1> QED BY <1>2, <1>3, <1>4 DEF IInv

LEMMA LoginIInv == ASSUME IInv, CachedLogin \/ \E a : Login(a) PROVE IInv'
<1>1. /\ TypeOK /\ pc = "login" /\ pc' \in {"exit", "me", "owned"} /\ status' \in {0, 1}
      /\ pc' = "owned" => cmd \notin Syncs
      /\ pc' = "me" => cmd \in Syncs
      /\ UNCHANGED <<cmd, budget, cancelled, listed, owned, slept, delay, item, uploads, visibleAt>>
      /\ seen' \subseteq CallNames /\ proxied' \subseteq CallNames
  <2>1. CASE CachedLogin
    BY <2>1 DEF IInv, CachedLogin, Goto, timer, server, found, heard, TypeOK
  <2>2. ASSUME NEW a, Login(a)
        PROVE  /\ pc = "login" /\ pc' \in {"exit", "me", "owned"} /\ status' \in {0, 1}
               /\ pc' = "owned" => cmd \notin Syncs
               /\ pc' = "me" => cmd \in Syncs
               /\ UNCHANGED <<cmd, budget, cancelled, listed, owned, slept, delay, item, uploads, visibleAt>>
               /\ seen' \subseteq CallNames /\ proxied' \subseteq CallNames
    <3>1. UNCHANGED <<listed, owned, slept, delay, item, uploads, visibleAt>> /\ Ask("login", a)
      BY <2>2 DEF Login, timer, server, found, heard
    <3>2. pc' \in {"exit", "me", "owned"} /\ status' \in {0, 1} /\ (pc' = "owned" => cmd \notin Syncs)
          /\ (pc' = "me" => cmd \in Syncs)
      BY <2>2 DEF IInv, Login, Goto, Exit, TypeOK
    <3> QED BY <3>1, <3>2, AskSees DEF IInv, CallNames, LibrofmCalls
  <2> QED BY <2>1, <2>2 DEF IInv
<1>2. TypeOK'
  BY <1>1, KeepsTypes DEF CallNames, AbsCalls, LibrofmCalls
<1>3. Order'
  BY <1>1 DEF IInv, Order
<1>4. Clock'
  BY <1>1 DEF IInv, Clock, Total
<1> QED BY <1>2, <1>3, <1>4 DEF IInv

LEMMA GetMeIInv == ASSUME IInv, NEW a \in Answers("me"), GetMe(a) PROVE IInv'
<1>1. /\ TypeOK /\ Ask("me", a)
      /\ UNCHANGED <<listed, owned, slept, delay, item, uploads, visibleAt>>
  BY DEF IInv, GetMe, timer, server, found, heard
<1>2. /\ pc = "me" /\ UNCHANGED <<cmd, budget, cancelled>> /\ seen' \subseteq CallNames /\ proxied' \subseteq CallNames
      /\ a.from = "service" /\ a.done => "me" \in seen'
  BY <1>1, AskSees DEF CallNames, AbsCalls
<1>3. /\ pc' \in {"libraries", "exit"} /\ status' \in {0, 1}
      /\ pc' = "libraries" => WithJSON200("me", a)
  BY <1>1 DEF GetMe, Goto, Exit, TypeOK
<1>4. pc' = "libraries" => "me" \in seen'
  BY <1>2, <1>3, OnlyTheServiceSpeaksJSON DEF WithJSON200
<1>5. TypeOK'
  BY <1>1, <1>2, <1>3, KeepsTypes DEF CallNames, AbsCalls
<1>6. Order'
  BY <1>1, <1>2, <1>3, <1>4 DEF IInv, Order
<1>7. Clock'
  BY <1>1, <1>2, <1>3 DEF IInv, Clock, Total
<1> QED BY <1>5, <1>6, <1>7 DEF IInv

LEMMA ListLibrariesIInv == ASSUME IInv, NEW a \in Answers("libraries"), ListLibraries(a) PROVE IInv'
<1>1. /\ TypeOK /\ Ask("libraries", a)
      /\ UNCHANGED <<listed, owned, slept, delay, item, uploads, visibleAt>>
  BY DEF IInv, ListLibraries, timer, server, found, heard
<1>2. /\ pc = "libraries" /\ UNCHANGED <<cmd, budget, cancelled>> /\ seen' \subseteq CallNames /\ proxied' \subseteq CallNames
      /\ seen \subseteq seen'
      /\ a.from = "service" /\ a.done => "libraries" \in seen'
  BY <1>1, AskSees DEF CallNames, AbsCalls
<1>3. /\ pc' \in {"items", "exit"} /\ status' \in {0, 1}
      /\ pc' = "items" => WithJSON200("libraries", a) /\ cmd # "probe-abs"
  <2>1. status \in {0, 1}
    BY <1>1 DEF TypeOK
  <2>2. CASE ~ WithJSON200("libraries", a) \/ cmd = "probe-abs"
    BY <2>1, <2>2 DEF ListLibraries, Exit
  <2>3. CASE WithJSON200("libraries", a) /\ cmd # "probe-abs"
    <3>1. Exit(1) \/ Goto("items")
      BY <2>3 DEF ListLibraries
    <3> QED BY <2>1, <2>3, <3>1 DEF Goto, Exit
  <2> QED BY <2>2, <2>3
<1>4. pc' = "items" => "libraries" \in seen'
  BY <1>2, <1>3, OnlyTheServiceSpeaksJSON DEF WithJSON200
<1>5. TypeOK'
  BY <1>1, <1>2, <1>3, KeepsTypes DEF CallNames, AbsCalls
<1>6. Order'
  <2>1. pc' = "items" => cmd \in Syncs /\ "me" \in seen
    BY <1>2, <1>3 DEF IInv, Order, TypeOK
  <2> QED BY <1>1, <1>2, <1>3, <1>4, <2>1 DEF IInv, Order
<1>7. Clock'
  BY <1>1, <1>2, <1>3 DEF IInv, Clock, Total
<1> QED BY <1>5, <1>6, <1>7 DEF IInv

LEMMA ListItemsIInv == ASSUME IInv, NEW a \in Answers("items"), ListItems(a) PROVE IInv'
<1>1. /\ TypeOK /\ Ask("items", a)
      /\ UNCHANGED <<owned, slept, delay, item, uploads, visibleAt>>
  BY DEF IInv, ListItems, timer, server, found, heard
<1>2. /\ pc = "items" /\ UNCHANGED <<cmd, budget, cancelled>> /\ seen' \subseteq CallNames /\ proxied' \subseteq CallNames
      /\ seen \subseteq seen'
      /\ a.from = "service" /\ a.done => "items" \in seen'
  BY <1>1, AskSees DEF CallNames, AbsCalls
<1>3. CASE WithJSON200("items", a)
  <2>1. pc' = "owned" /\ status' = status /\ listed' \in {item, "nothing"}
    BY <1>3 DEF ListItems, Goto, WithJSON200
  <2>2. "items" \in seen'
    BY <1>2, <1>3, OnlyTheServiceSpeaksJSON DEF WithJSON200
  <2>3. /\ "me" \in seen /\ "libraries" \in seen /\ item \in {"absent", "bare", "synced"}
    BY <1>1, <1>2 DEF IInv, Order, TypeOK
  <2>4. TypeOK'
    BY <1>1, <1>2, <2>1, <2>3, Zenon DEF TypeOK, CallNames, LibrofmCalls
  <2>5. Order'
    BY <1>1, <1>2, <2>1, <2>2, <2>3 DEF Order
  <2>6. Clock'
    BY <1>1, <1>2, <2>1 DEF IInv, Clock, Total
  <2> QED BY <2>4, <2>5, <2>6 DEF IInv
<1>4. CASE ~ WithJSON200("items", a)
  <2>1. pc' = "exit" /\ status' = 1 /\ listed' = listed
    BY <1>4 DEF ListItems, Exit
  <2>2. TypeOK'
    BY <1>1, <1>2, <2>1, KeepsTypes
  <2>3. Order'
    BY <2>1 DEF Order
  <2>4. Clock'
    BY <1>1, <1>2, <2>1 DEF IInv, Clock, Total
  <2> QED BY <2>2, <2>3, <2>4 DEF IInv
<1> QED BY <1>3, <1>4

LEMMA FetchLibraryIInv == ASSUME IInv, NEW a \in Answers("owned"), FetchLibrary(a) PROVE IInv'
<1>1. /\ TypeOK /\ Ask("owned", a)
      /\ UNCHANGED <<listed, slept, delay, item, uploads, visibleAt>>
  BY DEF IInv, FetchLibrary, timer, server
<1>2. /\ pc = "owned" /\ UNCHANGED <<cmd, budget, cancelled>>
      /\ seen' \subseteq CallNames /\ proxied' \subseteq CallNames
      /\ seen \subseteq seen'
      /\ a.from = "service" /\ a.done => "owned" \in seen'
  BY <1>1, AskSees DEF CallNames, LibrofmCalls
<1>3. /\ pc' \in {"m4b", "patch", "exit"} /\ status' \in {0, 1} /\ owned' \in BOOLEAN
      /\ pc' = "m4b" => \/ cmd = "probe-download"
                        \/ cmd = "sync" /\ listed \in {"absent", "nothing"} /\ owned' /\ GetJSON("owned", a)
      /\ pc' = "patch" => cmd = "sync" /\ listed = "bare" /\ owned' /\ GetJSON("owned", a)
  <2>0. owned' = (GetJSON("owned", a) /\ HasBook(a.body)) /\ owned' \in BOOLEAN /\ status \in {0, 1}
    BY <1>1, Zenon DEF FetchLibrary, TypeOK
  <2>1. CASE ~ GetJSON("owned", a)
    BY <2>0, <2>1 DEF FetchLibrary, Exit
  <2>2. CASE GetJSON("owned", a)
    <3>1. \/ Exit(0) \/ Exit(1)
          \/ cmd = "probe-download" /\ Goto("m4b")
          \/ cmd = "sync" /\ owned' /\ listed = "bare" /\ Goto("patch")
          \/ cmd = "sync" /\ owned' /\ listed \in {"absent", "nothing"} /\ Goto("m4b")
      BY <2>2, Zenon DEF FetchLibrary
    <3> HIDE DEF GetJSON
    <3> QED BY <2>0, <2>2, <3>1 DEF Goto, Exit
  <2> QED BY <2>1, <2>2
<1>4. GetJSON("owned", a) => "owned" \in seen'
  <2>1. GetJSON("owned", a) => a.body.kind # "garbage"
    BY Zenon DEF GetJSON
  <2>2. GetJSON("owned", a) => a.from = "service" /\ a.done
    BY <2>1, OnlyTheServiceSpeaksJSON
  <2> QED BY <1>2, <2>2
<1>5. TypeOK'
  <2>1. pc' \in CallNames \union {"start", "sleep", "exit"}
    BY <1>3 DEF CallNames, AbsCalls, LibrofmCalls
  <2> QED BY <1>1, <1>2, <1>3, <2>1 DEF TypeOK
<1>6. Order'
  <2>1. cmd = "sync" => "me" \in seen /\ "libraries" \in seen /\ "items" \in seen /\ listed \in {item, "nothing"}
    BY <1>2 DEF IInv, Order, Syncs
  <2>2. pc' = "m4b" => cmd = "probe-download" \/ (cmd = "sync" /\ Genuine' /\ owned' /\ NotShown')
    BY <1>1, <1>2, <1>3, <1>4, <2>1 DEF Genuine, NotShown
  <2>3. pc' = "patch" => cmd = "sync" /\ Genuine' /\ owned' /\ listed' = "bare"
    BY <1>1, <1>2, <1>3, <1>4, <2>1 DEF Genuine
  <2> QED BY <1>1, <1>2, <1>3, <2>2, <2>3 DEF Order
<1>7. Clock'
  BY <1>1, <1>2, <1>3 DEF IInv, Clock, Total
<1> QED BY <1>5, <1>6, <1>7 DEF IInv

(* From the first download to the upload.                                  *)
LEMMA FetchingIInv ==
    ASSUME IInv, NEW c \in {"m4b", "file", "manifest", "part"}, NEW a, Ask(c, a),
           UNCHANGED <<listed, owned, slept, delay, item, uploads, visibleAt>>,
           pc' \in {"file", "manifest", "part", "upload", "exit"}, status' \in {0, 1},
           pc' = "upload" => cmd # "probe-download"
    PROVE  IInv'
<1>1. /\ TypeOK /\ pc = c /\ UNCHANGED <<cmd, budget, cancelled>> /\ seen' \subseteq CallNames /\ proxied' \subseteq CallNames
      /\ Genuine => Genuine'
  BY AskSees DEF IInv, CallNames, LibrofmCalls
<1>2. TypeOK'
  BY <1>1, KeepsTypes DEF CallNames, AbsCalls, LibrofmCalls
<1>3. Order'
  <2>1. \/ cmd = "probe-download"
        \/ cmd = "sync" /\ Genuine' /\ owned' /\ NotShown'
    BY <1>1 DEF IInv, Order, NotShown
  <2> QED BY <1>1, <2>1 DEF Order
<1>4. Clock'
  BY <1>1 DEF IInv, Clock, Total
<1> QED BY <1>2, <1>3, <1>4 DEF IInv

LEMMA DownloadsIInv ==
    ASSUME IInv, NEW a, M4BURL(a) \/ MP3Manifest(a) \/ (\E c \in {"file", "part"} : Download(c, a))
    PROVE  IInv'
<1>1. status \in {0, 1}
  BY DEF IInv, TypeOK
<1>2. CASE M4BURL(a)
  <2>1. Ask("m4b", a) /\ UNCHANGED <<listed, owned, slept, delay, item, uploads, visibleAt>>
        /\ pc' \in {"file", "manifest", "exit"} /\ status' \in {0, 1}
    BY <1>1, <1>2 DEF M4BURL, Goto, Exit, timer, server, found, heard
  <2> QED BY <2>1, FetchingIInv
<1>3. CASE MP3Manifest(a)
  <2>1. Ask("manifest", a) /\ UNCHANGED <<listed, owned, slept, delay, item, uploads, visibleAt>>
        /\ pc' \in {"part", "exit"} /\ status' \in {0, 1}
    BY <1>1, <1>3 DEF MP3Manifest, Goto, Exit, timer, server, found, heard
  <2> QED BY <2>1, FetchingIInv
<1>4. ASSUME NEW c \in {"file", "part"}, Download(c, a) PROVE IInv'
  <2>1. Ask(c, a) /\ UNCHANGED <<listed, owned, slept, delay, item, uploads, visibleAt>>
        /\ pc' \in {"upload", "exit"} /\ status' \in {0, 1} /\ (pc' = "upload" => cmd # "probe-download")
    BY <1>1, <1>4 DEF Download, Goto, Exit, timer, server, found, heard
  <2> QED BY <2>1, FetchingIInv
<1> QED BY <1>2, <1>3, <1>4

LEMMA UploadItemIInv == ASSUME IInv, NEW a, UploadItem(a) PROVE IInv'
<1>1. /\ TypeOK /\ Ask("upload", a) /\ UNCHANGED <<listed, owned, slept, delay>>
  BY DEF IInv, UploadItem, timer, found
<1>2. /\ pc = "upload" /\ UNCHANGED <<cmd, budget, cancelled>> /\ seen' \subseteq CallNames /\ proxied' \subseteq CallNames
      /\ Genuine => Genuine'
  BY <1>1, AskSees DEF CallNames, AbsCalls
<1>3. pc' \in {"scan", "exit"} /\ status' \in {0, 1}
  BY <1>1 DEF UploadItem, Goto, Exit, TypeOK
<1>4. /\ item' \in {"absent", "landed", "bare", "synced"} /\ uploads' \in Nat /\ visibleAt' \in Nat
  <2>1. uploads \in Nat /\ visibleAt \in Nat /\ item \in {"absent", "landed", "bare", "synced"}
    BY <1>1 DEF TypeOK
  <2>2. CASE a.done
    <3>1. uploads' = uploads + 1 /\ item' = (IF item = "absent" THEN "landed" ELSE item) /\ visibleAt' \in IndexTimes
      BY <2>2 DEF UploadItem
    <3> QED BY <2>1, <3>1, IndexTimesAreSeconds
  <2>3. CASE ~ a.done
    BY <2>1, <2>3 DEF UploadItem, server
  <2> QED BY <2>2, <2>3
<1>5. TypeOK'
  <2>1. pc' \in CallNames \union {"start", "sleep", "exit"}
    BY <1>3 DEF CallNames, AbsCalls
  <2> QED BY <1>1, <1>2, <1>3, <1>4, <2>1 DEF TypeOK
<1>6. Order'
  BY <1>1, <1>2, <1>3 DEF IInv, Order, NotShown
<1>7. Clock'
  BY <1>1, <1>2, <1>3 DEF IInv, Clock, Total
<1> QED BY <1>5, <1>6, <1>7 DEF IInv

LEMMA TriggerScanIInv == ASSUME IInv, NEW a, TriggerScan(a) PROVE IInv'
<1>1. /\ TypeOK /\ Ask("scan", a) /\ UNCHANGED <<listed, owned, slept, delay>>
      /\ pc' = "sleep" /\ status' = status
  BY DEF IInv, TriggerScan, timer, found, Goto
<1>2. /\ pc = "scan" /\ UNCHANGED <<cmd, budget, cancelled>> /\ seen' \subseteq CallNames /\ proxied' \subseteq CallNames
      /\ Genuine => Genuine'
  BY <1>1, AskSees DEF CallNames, AbsCalls
<1>3. /\ item' = item /\ uploads' = uploads /\ visibleAt' \in Nat
  BY <1>1, IndexTimesAreSeconds DEF TriggerScan, server, TypeOK
<1>4. TypeOK'
  BY <1>1, <1>2, <1>3 DEF TypeOK
<1>5. Order'
  BY <1>1, <1>2 DEF IInv, Order
<1>6. Clock'
  <2>1. slept = 0 /\ Total \in Nat \ {0} /\ Total' = Total
    BY <1>1, <1>2, TotalPositive DEF IInv, Clock, Total
  <2>2. slept' <= Total' /\ slept' < Total'
    BY <1>1, <2>1
  <2> QED BY <1>1, <2>2 DEF Clock
<1> QED BY <1>4, <1>5, <1>6 DEF IInv

LEMMA SleepIInv == ASSUME IInv, Sleep PROVE IInv'
<1>1. /\ TypeOK /\ pc = "sleep"
      /\ UNCHANGED <<cmd, budget, cancelled, listed, owned, item, uploads, visibleAt, seen, proxied>>
  BY DEF IInv, Sleep, server, found, heard
<1>2. pc' \in {"search", "exit"} /\ status' \in {0, 1}
  BY <1>1 DEF Sleep, Goto, Exit, TypeOK
<1>3. /\ slept \in Nat /\ delay \in Nat \ {0} /\ Total \in Nat /\ slept < Total /\ MaxDelay \in Nat \ {0}
  BY <1>1, TotalPositive, ScheduleIsPositive DEF IInv, Clock, TypeOK
<1>4. slept' \in Nat /\ slept' <= Total
  <2>1. slept' = slept \/ slept' = slept + Delay
    BY DEF Sleep, timer
  <2>2. Delay \in Nat /\ Delay <= Total - slept
    BY <1>3 DEF Delay
  <2> QED BY <1>3, <2>1, <2>2
<1>5. delay' \in Nat \ {0}
  <2>1. delay' = delay \/ delay' = MinOf(2 * delay, MaxDelay)
    BY DEF Sleep, timer
  <2>2. MinOf(2 * delay, MaxDelay) \in Nat \ {0}
    BY <1>3 DEF MinOf
  <2> QED BY <1>3, <2>1, <2>2
<1>6. TypeOK'
  <2>1. pc' \in CallNames \union {"start", "sleep", "exit"}
    BY <1>2 DEF CallNames, AbsCalls
  <2> QED BY <1>1, <1>2, <1>4, <1>5, <2>1 DEF TypeOK
<1>7. Order'
  BY <1>1, <1>2 DEF IInv, Order, Genuine
<1>8. Clock'
  BY <1>1, <1>2, <1>4 DEF Clock, Total
<1> QED BY <1>6, <1>7, <1>8 DEF IInv

LEMMA SearchIInv == ASSUME IInv, NEW a, Search(a) PROVE IInv'
<1>1. /\ TypeOK /\ Ask("search", a)
      /\ UNCHANGED <<listed, owned, slept, delay, item, uploads, visibleAt>>
  BY DEF IInv, Search, timer, server, found, heard
<1>2. /\ pc = "search" /\ UNCHANGED <<cmd, budget, cancelled>> /\ seen' \subseteq CallNames /\ proxied' \subseteq CallNames
      /\ Genuine => Genuine'
  BY <1>1, AskSees DEF CallNames, AbsCalls
<1>3. /\ pc' \in {"sleep", "patch", "exit"} /\ status' \in {0, 1}
      /\ pc' = "sleep" => ~ OutOfBudget
  BY <1>1 DEF Search, Goto, Exit, TypeOK
<1>4. TypeOK'
  BY <1>1, <1>2, <1>3, KeepsTypes DEF CallNames, AbsCalls
<1>5. Order'
  BY <1>1, <1>2, <1>3 DEF IInv, Order
<1>6. Clock'
  <2>1. slept \in Nat /\ Total \in Nat /\ slept <= Total /\ Total' = Total
    BY <1>1, <1>2, TotalPositive DEF IInv, Clock, TypeOK, Total
  <2> QED BY <1>1, <1>2, <1>3, <2>1 DEF Clock, OutOfBudget
<1> QED BY <1>4, <1>5, <1>6 DEF IInv

LEMMA UpdateItemMediaIInv == ASSUME IInv, NEW a, UpdateItemMedia(a) PROVE IInv'
<1>1. /\ TypeOK /\ Ask("patch", a)
      /\ UNCHANGED <<listed, owned, slept, delay, uploads, visibleAt>>
  BY DEF IInv, UpdateItemMedia, timer, found
<1>2. /\ pc = "patch" /\ UNCHANGED <<cmd, budget, cancelled>> /\ seen' \subseteq CallNames /\ proxied' \subseteq CallNames
      /\ Genuine => Genuine'
  BY <1>1, AskSees DEF CallNames, AbsCalls
<1>3. /\ pc' \in {"cover", "exit"} /\ status' \in {0, 1} /\ item' \in {item, "synced"}
  BY <1>1 DEF UpdateItemMedia, Goto, Exit, TypeOK
<1>4. TypeOK'
  <2>1. pc' \in CallNames \union {"start", "sleep", "exit"}
    BY <1>3 DEF CallNames, AbsCalls
  <2> QED BY <1>1, <1>2, <1>3, <2>1 DEF TypeOK
<1>5. Order'
  BY <1>1, <1>2, <1>3 DEF IInv, Order
<1>6. Clock'
  BY <1>1, <1>2, <1>3 DEF IInv, Clock, Total
<1> QED BY <1>4, <1>5, <1>6 DEF IInv

LEMMA CoverIInv == ASSUME IInv, NoCover \/ \E a : SetItemCover(a) PROVE IInv'
<1>1. /\ TypeOK /\ pc' = "exit" /\ status' = 0 /\ pc = "cover"
      /\ UNCHANGED <<cmd, budget, cancelled, listed, owned, slept, delay, item, uploads, visibleAt>>
      /\ seen' \subseteq CallNames /\ proxied' \subseteq CallNames
  BY DEF IInv, NoCover, SetItemCover, Ask, Exit, timer, server, found, heard, TypeOK, CallNames, AbsCalls
<1>2. TypeOK'
  BY <1>1, KeepsTypes
<1>3. Order'
  BY <1>1 DEF Order
<1>4. Clock'
  BY <1>1 DEF IInv, Clock, Total
<1> QED BY <1>2, <1>3, <1>4 DEF IInv

LEMMA InterruptIInv == ASSUME IInv, Interrupt \/ UNCHANGED vars PROVE IInv'
<1>1. /\ TypeOK /\ cancelled' \in BOOLEAN
      /\ UNCHANGED <<cmd, budget, pc, status, listed, owned, slept, delay, item, uploads, visibleAt, seen, proxied>>
  <2>1. CASE Interrupt
    BY <2>1, Zenon DEF IInv, Interrupt, timer, server, found, heard
  <2>2. CASE UNCHANGED vars
    BY <2>2, Zenon DEF IInv, vars, TypeOK
  <2> QED BY <2>1, <2>2
<1>2. TypeOK'
  BY <1>1, Zenon DEF TypeOK
<1>3. Order'
  BY <1>1 DEF IInv, Order, Genuine, NotShown
<1>4. Clock'
  BY <1>1 DEF IInv, Clock, Total
<1> QED BY <1>2, <1>3, <1>4 DEF IInv

LEMMA NextIInv == IInv /\ [Next]_vars => IInv'
<1> SUFFICES ASSUME IInv, [Next]_vars PROVE IInv'
  OBVIOUS
<1>1. CASE Start
  BY <1>1, StartIInv
<1>2. CASE CachedLogin \/ \E a \in Answers("login") : Login(a)
  BY <1>2, LoginIInv
<1>3. ASSUME NEW a \in Answers("me"), GetMe(a) PROVE IInv'
  BY <1>3, GetMeIInv
<1>4. ASSUME NEW a \in Answers("libraries"), ListLibraries(a) PROVE IInv'
  BY <1>4, ListLibrariesIInv
<1>5. ASSUME NEW a \in Answers("items"), ListItems(a) PROVE IInv'
  BY <1>5, ListItemsIInv
<1>6. ASSUME NEW a \in Answers("owned"), FetchLibrary(a) PROVE IInv'
  BY <1>6, FetchLibraryIInv
<1>7. ASSUME NEW a, M4BURL(a) \/ MP3Manifest(a) \/ (\E c \in {"file", "part"} : Download(c, a)) PROVE IInv'
  BY <1>7, DownloadsIInv
<1>8. ASSUME NEW a, UploadItem(a) PROVE IInv'
  BY <1>8, UploadItemIInv
<1>9. ASSUME NEW a, TriggerScan(a) PROVE IInv'
  BY <1>9, TriggerScanIInv
<1>10. CASE Sleep
  BY <1>10, SleepIInv
<1>11. ASSUME NEW a, Search(a) PROVE IInv'
  BY <1>11, SearchIInv
<1>12. ASSUME NEW a, UpdateItemMedia(a) PROVE IInv'
  BY <1>12, UpdateItemMediaIInv
<1>13. CASE NoCover \/ \E a \in Answers("cover") : SetItemCover(a)
  BY <1>13, CoverIInv
<1>14. CASE Interrupt \/ UNCHANGED vars
  BY <1>14, InterruptIInv
<1> QED
  BY <1>1, <1>2, <1>3, <1>4, <1>5, <1>6, <1>7, <1>8, <1>9, <1>10, <1>11, <1>12, <1>13, <1>14, Zenon
  DEF Next, Step

LEMMA Invariance == Spec => []IInv
BY InitIInv, NextIInv, PTL DEF Spec

-------------------------------------------------------------------------------
(* Only an upload and a PATCH change audiobookshelf.                       *)
LEMMA OnlyTwoChange ==
    ASSUME [Next]_vars, <<item, uploads>>' # <<item, uploads>>
    PROVE  \/ \E a \in Answers("upload") : UploadItem(a)
           \/ (\E a \in Answers("patch") : UpdateItemMedia(a)) /\ uploads' = uploads
<1>1. UNCHANGED server \/ UNCHANGED vars => UNCHANGED <<item, uploads>>
  BY DEF server, vars
<1>2. ASSUME NEW a, \/ Login(a) \/ GetMe(a) \/ ListLibraries(a) \/ ListItems(a) \/ FetchLibrary(a)
                    \/ M4BURL(a) \/ MP3Manifest(a) \/ (\E c \in {"file", "part"} : Download(c, a))
                    \/ Search(a) \/ SetItemCover(a)
      PROVE  UNCHANGED server
  BY <1>2 DEF Login, GetMe, ListLibraries, ListItems, FetchLibrary, M4BURL, MP3Manifest, Download, Search, SetItemCover
<1>3. ASSUME NEW a, TriggerScan(a) PROVE UNCHANGED <<item, uploads>>
  BY <1>3 DEF TriggerScan, server
<1>4. ASSUME Start \/ CachedLogin \/ Sleep \/ NoCover \/ Interrupt PROVE UNCHANGED server
  BY <1>4 DEF Start, CachedLogin, Sleep, NoCover, Interrupt
<1>5. ASSUME NEW a, UpdateItemMedia(a) PROVE uploads' = uploads
  BY <1>5 DEF UpdateItemMedia
<1> QED BY <1>1, <1>2, <1>3, <1>4, <1>5, Zenon DEF Next, Step

(* No login page in the place of a listing, no dry run and no probe ever   *)
(* leads to a change in audiobookshelf, whatever a proxy may answer.       *)
THEOREM EveryChangeIsDue == Spec => ChangesAreDue
<1>1. ASSUME IInv, [Next]_vars, <<item, uploads>>' # <<item, uploads>>
      PROVE  /\ cmd = "sync"
             /\ {"me", "libraries", "items", "owned"} \subseteq seen /\ owned
             /\ listed \in {"nothing", "absent", "bare"}
             /\ uploads' # uploads => item = "absent" \/ listed = "nothing"
  <2>1. CASE \E a \in Answers("upload") : UploadItem(a)
    <3>1. pc = "upload"
      BY <2>1 DEF UploadItem, Ask
    <3> QED BY <1>1, <3>1 DEF IInv, Order, Genuine, NotShown
  <2>2. CASE (\E a \in Answers("patch") : UpdateItemMedia(a)) /\ uploads' = uploads
    <3>1. pc = "patch"
      BY <2>2 DEF UpdateItemMedia, Ask
    <3> QED BY <1>1, <2>2, <3>1 DEF IInv, Order, Genuine
  <2> QED BY <1>1, <2>1, <2>2, OnlyTwoChange
<1>2. IInv /\ [Next]_vars =>
        [<<item, uploads>>' # <<item, uploads>> =>
            /\ cmd = "sync"
            /\ {"me", "libraries", "items", "owned"} \subseteq seen /\ owned
            /\ listed \in {"nothing", "absent", "bare"}
            /\ uploads' # uploads => item = "absent" \/ listed = "nothing"]_vars
  BY <1>1
<1> QED BY Invariance, <1>2, PTL DEF Spec, ChangesAreDue

(* Discover uses its budget to the second, whatever the budget is.         *)
THEOREM FoundWithinTheBudget == Spec => FoundInTime
<1>1. ASSUME IInv, NEW a \in Answers("search"), Search(a), pc' = "exit", a.done, HasHit(a.body),
             WithStatus("search", a)
      PROVE  slept = Total /\ (item = "absent" \/ visibleAt > Total)
  <2>1. JSON200(a)
    <3>1. a.from # "nobody"
      BY <1>1 DEF WithStatus, ParseFails
    <3> QED BY <1>1, <3>1, OnlyTheServiceSpeaksJSON DEF Bodyless
  <2>2. ~ Visible /\ OutOfBudget
    BY <1>1, <2>1 DEF Search, Goto
  <2>3. /\ slept \in Nat /\ Total \in Nat /\ slept <= Total
        /\ visibleAt \in Nat
    BY <1>1, TotalPositive DEF IInv, Clock, TypeOK
  <2> QED BY <2>2, <2>3 DEF Visible, OutOfBudget
<1>2. IInv /\ [Next]_vars =>
        [\A a \in Answers("search") :
            Search(a) /\ pc' = "exit" /\ a.done /\ HasHit(a.body) /\ WithStatus("search", a) =>
                /\ slept = Total
                /\ item = "absent" \/ visibleAt > Total]_vars
  BY <1>1
<1> QED BY Invariance, <1>2, PTL DEF Spec, FoundInTime

-------------------------------------------------------------------------------
(* Exit status 0 is honest unless a proxy stood in for the PATCH.          *)
LEMMA NextDone == ASSUME IInv, Done, [Next]_vars PROVE Done'
<1>1. CASE UNCHANGED vars
  BY <1>1 DEF Done, HonestExit, vars
<1>2. CASE Interrupt
  BY <1>2 DEF Done, HonestExit, Interrupt, server, found, heard
<1>3. ASSUME pc' \notin {"cover", "exit"} PROVE Done'
  BY <1>3 DEF Done, HonestExit
<1>4. ASSUME pc' = "exit", status' = 1 PROVE Done'
  BY <1>4 DEF Done, HonestExit
<1>5. ASSUME pc' = "exit", cmd' # "sync" PROVE Done'
  BY <1>5 DEF Done, HonestExit
<1>6. ASSUME NEW a \in Answers("patch"), UpdateItemMedia(a) PROVE Done'
  <2>1. CASE PatchOK(a)
    <3>1. a.from # "nobody" /\ a.status = 200
      BY <2>1 DEF PatchOK, WithStatus, ParseFails
    <3>2. a.from = "proxy" => "patch" \in proxied'
      BY <1>6 DEF UpdateItemMedia, Ask
    <3>3. a.from # "proxy" => a.done
      BY <1>6, <3>1, OnlyTheServiceSpeaksJSON
    <3>4. pc' = "cover" /\ (a.done => item' = "synced")
      BY <1>6, <2>1 DEF UpdateItemMedia, Goto
    <3> QED BY <3>2, <3>3, <3>4 DEF Done, HonestExit
  <2>2. CASE ~ PatchOK(a)
    BY <1>4, <1>6, <2>2 DEF UpdateItemMedia, Exit
  <2> QED BY <2>1, <2>2
<1>7. ASSUME NoCover \/ \E a : SetItemCover(a) PROVE Done'
  <2>1. pc = "cover" /\ pc' = "exit" /\ item' = item /\ proxied \subseteq proxied'
    BY <1>7 DEF NoCover, SetItemCover, Ask, Exit, server, heard
  <2> QED BY <2>1 DEF Done, HonestExit
<1>8. ASSUME NEW a \in Answers("owned"), FetchLibrary(a) PROVE Done'
  <2>1. UNCHANGED <<cmd, item, listed>> /\ pc = "owned"
    BY <1>8 DEF FetchLibrary, Ask, server
  <2>2. \/ pc' = "exit" /\ status' = 1
        \/ pc' = "exit" /\ cmd # "sync"
        \/ pc' = "exit" /\ ~ owned'
        \/ pc' = "exit" /\ cmd = "sync" /\ listed = "synced"
        \/ pc' \notin {"cover", "exit"}
    <3> HIDE DEF GetJSON, HasBook
    <3> QED BY <1>8 DEF FetchLibrary, Goto, Exit
  <2>3. ASSUME cmd = "sync", listed = "synced", pc' = "exit" PROVE Done'
    <3>1. item' = "synced"
      BY <2>1, <2>3 DEF IInv, Order, Syncs
    <3> QED BY <2>3, <3>1 DEF Done, HonestExit
  <2>4. ASSUME pc' = "exit", ~ owned' PROVE Done'
    BY <2>4 DEF Done, HonestExit
  <2> QED BY <1>3, <1>4, <1>5, <2>1, <2>2, <2>3, <2>4
<1>9. ASSUME NEW a, ListLibraries(a) PROVE Done'
  <2>1. cmd' = cmd /\ (pc' = "items" \/ (pc' = "exit" /\ (status' = 1 \/ cmd = "probe-abs")))
    BY <1>9 DEF ListLibraries, Ask, Goto, Exit
  <2> QED BY <1>3, <1>4, <1>5, <2>1
<1>10. ASSUME NEW a, NEW c \in {"file", "part"}, Download(c, a) PROVE Done'
  <2>1. cmd' = cmd /\ (pc' = "upload" \/ (pc' = "exit" /\ (status' = 1 \/ cmd = "probe-download")))
    BY <1>10 DEF Download, Ask, Goto, Exit
  <2> QED BY <1>3, <1>4, <1>5, <2>1
<1>11. ASSUME Start \/ CachedLogin \/ Sleep PROVE Done'
  <2>1. pc' \notin {"cover", "exit"} \/ (pc' = "exit" /\ status' = 1)
    BY <1>11 DEF Start, CachedLogin, Sleep, Goto, Exit
  <2> QED BY <1>3, <1>4, <2>1
<1>12. ASSUME NEW a, \/ Login(a) \/ GetMe(a) \/ ListItems(a) \/ M4BURL(a) \/ MP3Manifest(a)
                     \/ UploadItem(a) \/ TriggerScan(a) \/ Search(a)
       PROVE Done'
  <2>1. pc' \notin {"cover", "exit"} \/ (pc' = "exit" /\ status' = 1)
    BY <1>12 DEF Login, GetMe, ListItems, M4BURL, MP3Manifest, UploadItem, TriggerScan, Search, Goto, Exit
  <2> QED BY <1>3, <1>4, <2>1
<1> QED
  BY <1>1, <1>2, <1>6, <1>7, <1>8, <1>9, <1>10, <1>11, <1>12, Zenon DEF Next, Step

(* Status 0 of a real sync means the book is in audiobookshelf with its    *)
(* ISBN if libro.fm's page named it, whatever fails on the way, unless a   *)
(* proxy has answered the PATCH, which patchMetadata judges by its status  *)
(* alone.                                                                  *)
THEOREM ExitIsHonest == Spec => []HonestExit
<1>1. IInv /\ Done /\ [Next]_vars => (IInv /\ Done)'
  BY NextIInv, NextDone
<1>2. Done => HonestExit
  BY DEF Done
<1> QED BY InitIInv, <1>1, <1>2, PTL DEF Spec

===============================================================================
