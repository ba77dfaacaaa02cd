-------------------------------- MODULE Session --------------------------------
(***************************************************************************)
(* internal/librofm, Login and the token cache.  A run takes the bearer    *)
(* token from a file the runs share, or logs in with the user's password   *)
(* and saves the new token: written to a temporary file, renamed over the  *)
(* old one.  libro.fm may revoke a token at any time.                      *)
(*                                                                         *)
(* Runs overlap, are killed anywhere and any file operation may fail.      *)
(* Login is called once in a run, never with force, and nothing calls      *)
(* Clear.                                                                  *)
(***************************************************************************)
EXTENDS Naturals, FiniteSets

CONSTANTS
    Procs,        \* the processes
    MaxTokens,    \* bound: the tokens libro.fm issues
    MaxKills      \* bound: processes killed

ASSUME SessionAssumption == MaxTokens \in Nat /\ MaxKills \in Nat

Tokens == 1..MaxTokens

(* Contents of a file that are no token.                                   *)
Missing == 0
Partial == MaxTokens + 1      \* what a writer has left that is not done: nothing or a prefix
Contents == 0..(MaxTokens + 1)

VARIABLES
    pc,           \* the next call of each process
    token,        \* the token of its client
    posted,       \* whether it has logged in with the password
    rejected,     \* whether a call of it was answered by 401
    file,         \* the content of the cache file
    temp,         \* the content of the temporary file each process writes
    issued,       \* the tokens 1..issued were handed out
    valid,        \* those libro.fm still honours
    kills

vars == <<pc, token, posted, rejected, file, temp, issued, valid, kills>>

Phases == {"idle", "load", "post", "create", "write", "rename", "work", "exit"}

Init ==
    /\ pc = [p \in Procs |-> "idle"]
    /\ token = [p \in Procs |-> Missing]
    /\ posted = [p \in Procs |-> FALSE]
    /\ rejected = [p \in Procs |-> FALSE]
    /\ file = Missing
    /\ temp = [p \in Procs |-> Missing]
    /\ issued = 0
    /\ valid = {}
    /\ kills = 0

Goto(p, phase) == pc' = [pc EXCEPT ![p] = phase]

Running(p) == pc[p] \notin {"idle", "exit"}

(* CreateTemp picks a name no other file has.                              *)
FixedName(p) == CHOOSE q \in Procs : TRUE                                        \* mutant
TempName(p)  == p

-------------------------------------------------------------------------------
Start(p) ==
    /\ ~ Running(p)
    /\ Goto(p, "load")
    /\ token' = [token EXCEPT ![p] = Missing]
    /\ posted' = [posted EXCEPT ![p] = FALSE]
    /\ rejected' = [rejected EXCEPT ![p] = FALSE]
    /\ UNCHANGED <<file, temp, issued, valid, kills>>

(* A file that cannot be read ends the run; a missing one does not.        *)
Load(p) ==
    /\ pc[p] = "load"
    /\ \/ file = Missing /\ Goto(p, "post") /\ UNCHANGED token
       \/ file # Missing /\ Goto(p, "work") /\ token' = [token EXCEPT ![p] = file]
       \/ file # Missing /\ Goto(p, "exit") /\ UNCHANGED token
    /\ UNCHANGED <<posted, rejected, file, temp, issued, valid, kills>>

(* POST /oauth/token.                                                      *)
Login(p) ==
    /\ pc[p] = "post"
    /\ \/ /\ issued < MaxTokens
          /\ issued' = issued + 1
          /\ valid' = valid \union {issued + 1}
          /\ token' = [token EXCEPT ![p] = issued + 1]
          /\ posted' = [posted EXCEPT ![p] = TRUE]
          /\ Goto(p, "create")
       \/ Goto(p, "exit") /\ UNCHANGED <<issued, valid, token, posted>>
    /\ UNCHANGED <<rejected, file, temp, kills>>

(* Save.  A failing step removes the temporary file; the run goes on with  *)
(* the token it has.                                                       *)
TruncateFile(p) ==                                                               \* mutant
    /\ pc[p] = "create" /\ Goto(p, "write")
    /\ file' = Missing /\ temp' = [temp EXCEPT ![p] = Partial]
    /\ UNCHANGED <<token, posted, rejected, issued, valid, kills>>
CreateTemp(p) ==
    /\ pc[p] = "create"
    /\ \/ Goto(p, "write") /\ temp' = [temp EXCEPT ![TempName(p)] = Partial]
       \/ Goto(p, "work") /\ UNCHANGED temp
    /\ UNCHANGED <<token, posted, rejected, file, issued, valid, kills>>

WriteString(p) ==
    /\ pc[p] = "write"
    /\ \/ Goto(p, "rename") /\ temp' = [temp EXCEPT ![TempName(p)] = token[p]]
       \/ Goto(p, "work") /\ temp' = [temp EXCEPT ![TempName(p)] = Missing]
    /\ UNCHANGED <<token, posted, rejected, file, issued, valid, kills>>

Rename(p) ==
    /\ pc[p] = "rename"
    /\ file' = temp[TempName(p)] \/ UNCHANGED file
    /\ temp' = [temp EXCEPT ![TempName(p)] = Missing]
    /\ Goto(p, "work")
    /\ UNCHANGED <<token, posted, rejected, issued, valid, kills>>

(* The calls of the run.  A 401 ends the listing of the library, and with  *)
(* it the run; in the loop over the books it fails the book.               *)
Call(p) ==
    /\ pc[p] = "work"
    /\ \/ token[p] \in valid /\ Goto(p, "exit") /\ UNCHANGED rejected
       \/ /\ token[p] \notin valid
          /\ rejected' = [rejected EXCEPT ![p] = TRUE]
          /\ Goto(p, "exit")
    /\ UNCHANGED <<token, posted, file, temp, issued, valid, kills>>

-------------------------------------------------------------------------------
Revoke ==
    /\ \E t \in valid : valid' = valid \ {t}
    /\ UNCHANGED <<pc, token, posted, rejected, file, temp, issued, kills>>

(* SIGKILL or a crash: temporary files stay as they are.                   *)
Kill(p) ==
    /\ Running(p) /\ kills < MaxKills
    /\ Goto(p, "idle")
    /\ kills' = kills + 1
    /\ UNCHANGED <<token, posted, rejected, file, temp, issued, valid>>

Save(p) == CreateTemp(p) \/ WriteString(p) \/ Rename(p)

Next ==
    \/ \E p \in Procs : Start(p) \/ Load(p) \/ Login(p) \/ Save(p) \/ Call(p) \/ Kill(p)
    \/ Revoke

Spec == Init /\ [][Next]_vars
-------------------------------------------------------------------------------
(* Properties.                                                             *)

(* Every variable has its type.                                            *)
TypeOK ==
    /\ pc \in [Procs -> Phases]
    /\ token \in [Procs -> 0..issued]
    /\ posted \in [Procs -> BOOLEAN]
    /\ rejected \in [Procs -> BOOLEAN]
    /\ file \in Contents
    /\ temp \in [Procs -> Contents]
    /\ issued \in 0..MaxTokens
    /\ valid \subseteq 1..issued
    /\ kills \in Nat

(* Save is atomic although several runs save at once and are killed at it: *)
(* the cache has no token or the whole of one that was issued.             *)
CacheIsWhole == file \in 0..issued

(* A cache that holds a token always does: no moment of a save shows other *)
(* runs an empty cache, which would send them to log in again.             *)
CacheIsKept == [][file # Missing => file' # Missing]_vars

(* A run that was told 401 has tried the password before it ends.          *)
ReauthAfter401 == \A p \in Procs : pc[p] = "exit" /\ rejected[p] => posted[p]
===============================================================================
