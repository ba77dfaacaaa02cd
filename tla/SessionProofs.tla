----------------------------- MODULE SessionProofs -----------------------------
(***************************************************************************)
(* Theorems about Session, for any number of processes, tokens and kills.  *)
(***************************************************************************)
EXTENDS Session, TLAPS

(* A process that saves has a token, and what it is about to rename is the *)
(* whole of it: temporary files are not shared.                            *)
WriterReady(p) ==
    /\ pc[p] \in {"create", "write", "rename"} => token[p] \in 1..issued
    /\ pc[p] = "rename" => temp[p] = token[p]

SaveInv == TypeOK /\ CacheIsWhole /\ \A p \in Procs : WriterReady(p)

LEMMA InitSave == Init => SaveInv
BY SessionAssumption, SMT
   DEF Init, SaveInv, TypeOK, CacheIsWhole, WriterReady, Phases, Contents, Missing

(* The step, action by action.                                             *)
LEMMA StepSave == SaveInv /\ [Next]_vars => SaveInv'
<1> SUFFICES ASSUME SaveInv, [Next]_vars
             PROVE  SaveInv'
    OBVIOUS
<1> USE SessionAssumption
<1> USE DEF SaveInv, TypeOK, CacheIsWhole, WriterReady, Phases, Contents, Missing, Partial, Goto
<1>1. ASSUME NEW p \in Procs, Start(p)
      PROVE  SaveInv'
      BY <1>1, SMTT(30) DEF Start, Running
<1>2. ASSUME NEW p \in Procs, Load(p)
      PROVE  SaveInv'
      BY <1>2, SMTT(30) DEF Load
<1>3. ASSUME NEW p \in Procs, Login(p)
      PROVE  SaveInv'
  <2>1. CASE issued < MaxTokens /\ issued' = issued + 1
    <3> /\ pc' = [pc EXCEPT ![p] = "create"]
        /\ token' = [token EXCEPT ![p] = issued + 1]
        /\ posted' = [posted EXCEPT ![p] = TRUE]
        /\ valid' = valid \union {issued + 1}
        /\ UNCHANGED <<rejected, file, temp, kills>>
        BY <1>3, <2>1, SMT DEF Login
    <3>1. posted' \in [Procs -> BOOLEAN]
          BY Zenon
    <3>2. issued' \in 0..MaxTokens /\ 1..issued \subseteq 1..issued' /\ file' \in 0..issued'
          BY <2>1, SMT
    <3>3. token' \in [Procs -> 0..issued'] /\ valid' \subseteq 1..issued'
          BY <2>1, SMTT(30)
    <3>4. \A q \in Procs : WriterReady(q)'
          BY <2>1, SMTT(30)
    <3>   QED  BY <3>1, <3>2, <3>3, <3>4, SMTT(30)
  <2>2. CASE Goto(p, "exit") /\ UNCHANGED <<issued, valid, token, posted>>
        BY <1>3, <2>2, SMTT(30) DEF Login
  <2>   QED  BY <1>3, <2>1, <2>2 DEF Login
<1>4. ASSUME NEW p \in Procs, CreateTemp(p)
      PROVE  SaveInv'
      BY <1>4, SMTT(30) DEF CreateTemp, TempName
<1>5. ASSUME NEW p \in Procs, WriteString(p)
      PROVE  SaveInv'
      BY <1>5, SMTT(30) DEF WriteString, TempName
<1>6. ASSUME NEW p \in Procs, Rename(p)
      PROVE  SaveInv'
      BY <1>6, SMTT(30) DEF Rename, TempName
<1>7. ASSUME NEW p \in Procs, Call(p)
      PROVE  SaveInv'
  <2>1. rejected' \in [Procs -> BOOLEAN]
        BY <1>7, Zenon DEF Call
  <2>2. pc' = [pc EXCEPT ![p] = "exit"] /\ UNCHANGED <<token, posted, file, temp, issued, valid, kills>>
        BY <1>7, Zenon DEF Call
  <2>   QED  BY <2>1, <2>2, SMTT(30)
<1>8. ASSUME NEW p \in Procs, Kill(p)
      PROVE  SaveInv'
      BY <1>8, SMTT(30) DEF Kill, Running
<1>9. CASE Revoke
      BY <1>9, SMTT(30) DEF Revoke
<1>10. CASE UNCHANGED vars
      BY <1>10 DEF vars
<1>   QED  BY <1>1, <1>2, <1>3, <1>4, <1>5, <1>6, <1>7, <1>8, <1>9, <1>10 DEF Next, Save

(* The inductive invariant of the token cache.                             *)
THEOREM SaveInvariance == Spec => []SaveInv
<1>1. Init => SaveInv
      BY InitSave
<1>2. SaveInv /\ [Next]_vars => SaveInv'
      BY StepSave
<1>   QED  BY <1>1, <1>2, PTL DEF Spec

(* Every variable of Session has its type.                                 *)
THEOREM SessionTypeCorrect == Spec => []TypeOK
<1>1. SaveInv => TypeOK
      BY DEF SaveInv
<1>   QED  BY <1>1, SaveInvariance, PTL

(* Save is atomic: the cache never holds part of a token, however many     *)
(* runs save at once and wherever they are killed.                         *)
THEOREM CacheAlwaysWhole == Spec => []CacheIsWhole
<1>1. SaveInv => CacheIsWhole
      BY DEF SaveInv
<1>   QED  BY <1>1, SaveInvariance, PTL

(* Once a token is cached there always is one.                             *)
THEOREM CacheAlwaysKept == Spec => CacheIsKept
<1>1. SaveInv /\ [Next]_vars => [file # Missing => file' # Missing]_vars
  <2> SUFFICES ASSUME SaveInv, Next, file # Missing
               PROVE  file' # Missing
      BY DEF vars
  <2>1. ASSUME NEW p \in Procs, Rename(p)
        PROVE  file' # Missing
    <3>1. temp[p] \in 1..issued
          BY <2>1 DEF Rename, SaveInv, WriterReady
    <3>   QED  BY <2>1, <3>1, SMT DEF Rename, TempName, Missing, SaveInv, TypeOK
  <2>2. ASSUME NEW p \in Procs,
               Start(p) \/ Load(p) \/ Login(p) \/ CreateTemp(p) \/ WriteString(p)
                 \/ Call(p) \/ Kill(p)
        PROVE  file' = file
        BY <2>2 DEF Start, Load, Login, CreateTemp, WriteString, Call, Kill
  <2>3. Revoke => file' = file
        BY DEF Revoke
  <2>   QED  BY <2>1, <2>2, <2>3 DEF Next, Save
<1>   QED  BY <1>1, SaveInvariance, PTL DEF Spec, CacheIsKept
===============================================================================
