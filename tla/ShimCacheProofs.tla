---------------------------- MODULE ShimCacheProofs ----------------------------
(***************************************************************************)
(* Proofs about ShimCache, for any number of parallel processes, any skew  *)
(* and any life of the tokens: the cache file is always whole, and a       *)
(* process publishes nobody's token but its own.                           *)
(***************************************************************************)
EXTENDS ShimCache, TLAPS

\* The types that the argument needs.
ShimTypes ==
    /\ now \in Nat
    /\ token \in [Process -> Nat]
    /\ tmp \in [Process -> Nat \cup {NoFile, Partial}]
    /\ printed \in [Process -> Nat \cup {NoFile}]
    /\ pc \in [Process -> {"read", "fetch", "open", "write", "rename",
                           "print", "done", "failed", "killed"}]

\* Nobody else writes the temporary file of a process: between its write and
\* its rename the process finds there the token that it fetched.
TempOwned ==
    \A p \in Process :
        /\ pc[p] \in {"write", "rename"} => Cacheable(token[p])
        /\ pc[p] = "rename" => tmp[p] = token[p]

ShimInv == ShimTypes /\ TempOwned /\ FileWhole

-----------------------------------------------------------------------------
\* Every step of every process keeps the invariant.
LEMMA ShimStep == ShimInv /\ [Next]_vars => ShimInv'
<1> SUFFICES ASSUME ShimInv, [Next]_vars PROVE ShimInv'
  OBVIOUS
<1> USE ShimCacheAssumption DEF ShimInv, ShimTypes, TempOwned, FileWhole, Goto, Cacheable, Temp, files
<1>1. ASSUME NEW p \in Process, readCache(p) PROVE ShimInv'
  BY <1>1 DEF readCache, Usable
<1>2. ASSUME NEW p \in Process, fetchToken(p) PROVE ShimInv'
  BY <1>2 DEF fetchToken
<1>3. ASSUME NEW p \in Process, FetchFails(p) PROVE ShimInv'
  BY <1>3 DEF FetchFails
<1>4. ASSUME NEW p \in Process, CacheSkipped(p) PROVE ShimInv'
  BY <1>4 DEF CacheSkipped
<1>5. ASSUME NEW p \in Process, OpenTemp(p) PROVE ShimInv'
  BY <1>5 DEF OpenTemp
<1>6. ASSUME NEW p \in Process, WriteTemp(p) PROVE ShimInv'
  BY <1>6 DEF WriteTemp
<1>7. ASSUME NEW p \in Process, RenameTemp(p) PROVE ShimInv'
  BY <1>7 DEF RenameTemp
<1>8. ASSUME NEW p \in Process, WriteFails(p) PROVE ShimInv'
  BY <1>8 DEF WriteFails, AfterWriteError
<1>9. ASSUME NEW p \in Process, writeExecCredential(p) PROVE ShimInv'
  BY <1>9 DEF writeExecCredential
<1>10. ASSUME NEW p \in Process, ExecInfoRefused(p) PROVE ShimInv'
  BY <1>10 DEF ExecInfoRefused
<1>11. ASSUME NEW p \in Process, Killed(p) PROVE ShimInv'
  BY <1>11 DEF Killed
<1>12. CASE Tick
  BY <1>12 DEF Tick
<1>13. CASE UNCHANGED vars
  BY <1>13 DEF vars
<1>14. QED
  BY <1>1, <1>2, <1>3, <1>4, <1>5, <1>6, <1>7, <1>8, <1>9, <1>10, <1>11, <1>12,
     <1>13 DEF Next, Run

-----------------------------------------------------------------------------
\* The invariant holds in every reachable state.
THEOREM ShimInvHolds == Spec => []ShimInv
<1>1. Init => ShimInv
  BY ShimCacheAssumption DEF Init, ShimInv, ShimTypes, TempOwned, FileWhole
<1>2. QED BY <1>1, ShimStep, PTL DEF Spec

\* Whatever runs in parallel or is killed, the cache file is absent or a whole
\* record, and only tokens are printed (FileWhole).
THEOREM FileWholeHolds == Spec => []FileWhole
  BY ShimInvHolds, PTL DEF ShimInv

\* A process publishes the token that it fetched itself (PublishesOwn).
THEOREM PublishesOwnHolds == Spec => PublishesOwn
<1> DEFINE Own ==
      \A p \in Process : pc[p] = "rename" /\ pc'[p] = "print" /\ file' # file => file' = token[p]
<1>1. ShimInv /\ [Next]_vars => [Own]_vars
  <2> SUFFICES ASSUME ShimInv, Next, NEW p \in Process,
                      pc[p] = "rename", pc'[p] = "print", file' # file
               PROVE  file' = token[p]
    OBVIOUS
  <2>1. PICK q \in Process : RenameTemp(q)
    BY DEF Next, Run, readCache, fetchToken, FetchFails, CacheSkipped, OpenTemp, WriteTemp,
           WriteFails, writeExecCredential, ExecInfoRefused, Killed, Tick, files
  <2>2. q = p
    BY <2>1 DEF RenameTemp, Goto, ShimInv, ShimTypes
  <2>3. QED BY <2>1, <2>2 DEF RenameTemp, Temp, ShimInv, TempOwned
<1>2. QED BY ShimInvHolds, <1>1, PTL DEF Spec, PublishesOwn
=============================================================================
