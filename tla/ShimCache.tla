------------------------------ MODULE ShimCache ------------------------------
(***************************************************************************)
(* kubelogin-http-shim: the processes that kubectl runs in parallel, and   *)
(* the cache file that they share (bin/kubelogin-http-shim, lib/cache.js). *)
(*                                                                         *)
(* A process reads the file, fetches a token if that is a miss, writes a   *)
(* temporary file, renames it over the cache file and prints the token; it *)
(* may be killed between any two of these.  A token is its expiry time, 0  *)
(* when unknown; a file is a token, or partial while it is being written.  *)
(***************************************************************************)
EXTENDS Naturals

CONSTANTS
    Process,
    Refused,   \* those whose KUBERNETES_EXEC_INFO is malformed, or asks for another version
    NoFile,    \* the file does not exist
    Partial,   \* a file whose content is not all there
    Skew,      \* tokenCacheRefreshSkew
    Life,      \* bound: how long the tokens of the endpoint live
    MaxTime    \* bound: the clock

ASSUME ShimCacheAssumption ==
    /\ NoFile \notin Nat /\ Partial \notin Nat /\ NoFile # Partial
    /\ Refused \subseteq Process
    /\ Skew \in Nat /\ Life \in Nat /\ MaxTime \in Nat

VARIABLES
    now,
    file,      \* the cache file
    tmp,       \* the temporary files, by the process that named them
    pc,        \* where each process is
    token,     \* the token a process holds
    printed    \* the token it gave kubectl, NoFile before

files == <<file, tmp>>
vars == <<now, files, pc, token, printed>>

Init ==
    /\ now = 1
    /\ file = NoFile
    /\ tmp = [p \in Process |-> NoFile]
    /\ pc = [p \in Process |-> "read"]
    /\ token = [p \in Process |-> 0]
    /\ printed = [p \in Process |-> NoFile]

Goto(p, l) == pc' = [pc EXCEPT ![p] = l]

-----------------------------------------------------------------------------
(* readCache *)

\* Partial content is no JSON, a token within the skew of its expiry is stale.
Usable(f) == f \notin {NoFile, Partial} /\ f > now + Skew

\* A read that fails is a miss, whatever the file holds.
readCache(p) ==
    /\ pc[p] = "read"
    /\ \/ Usable(file) /\ token' = [token EXCEPT ![p] = file] /\ Goto(p, "print")
       \/ Goto(p, "fetch") /\ UNCHANGED token
    /\ UNCHANGED <<now, files, printed>>

(* fetchToken: the endpoint may answer from a cache of its own, or without an
   expiry; an error ends the process. *)

fetchToken(p) ==
    /\ pc[p] = "fetch"
    /\ \E e \in {0} \cup (now + 1) .. (now + Life) : token' = [token EXCEPT ![p] = e]
    /\ Goto(p, "open")
    /\ UNCHANGED <<now, files, printed>>

FetchFails(p) ==
    /\ pc[p] = "fetch"
    /\ Goto(p, "failed")
    /\ UNCHANGED <<now, files, token, printed>>

-----------------------------------------------------------------------------
(* writeCache *)

TempShared(p) == CHOOSE q \in Process : TRUE  \* mutant: one temporary name for all
Temp(p) == p

CacheableAny(e) == TRUE  \* mutant: an unknown expiry is cached as well
Cacheable(e) == e > 0

CacheSkipped(p) ==
    /\ pc[p] = "open" /\ ~Cacheable(token[p])
    /\ Goto(p, "print")
    /\ UNCHANGED <<now, files, token, printed>>

OpenTemp(p) ==
    /\ pc[p] = "open" /\ Cacheable(token[p])
    /\ tmp' = [tmp EXCEPT ![Temp(p)] = Partial]
    /\ Goto(p, "write")
    /\ UNCHANGED <<now, file, token, printed>>

WriteTemp(p) ==
    /\ pc[p] = "write"
    /\ tmp' = [tmp EXCEPT ![Temp(p)] = token[p]]
    /\ Goto(p, "rename")
    /\ UNCHANGED <<now, file, token, printed>>

RenameTemp(p) ==
    /\ pc[p] = "rename" /\ tmp[Temp(p)] # NoFile
    /\ file' = tmp[Temp(p)]
    /\ tmp' = [tmp EXCEPT ![Temp(p)] = NoFile]
    /\ Goto(p, "print")
    /\ UNCHANGED <<now, token, printed>>

AfterWriteErrorFatal == "failed"  \* mutant: the error is not caught
AfterWriteError == "print"

\* Any of the calls fails: the temporary file is unlinked, if that works.
WriteFails(p) ==
    /\ pc[p] \in {"open", "write", "rename"} /\ Cacheable(token[p])
    /\ tmp' \in {tmp, [tmp EXCEPT ![Temp(p)] = NoFile]}
    /\ Goto(p, AfterWriteError)
    /\ UNCHANGED <<now, file, token, printed>>

-----------------------------------------------------------------------------
(* writeExecCredential *)

writeExecCredential(p) ==
    /\ pc[p] = "print" /\ p \notin Refused
    /\ printed' = [printed EXCEPT ![p] = token[p]]
    /\ Goto(p, "done")
    /\ UNCHANGED <<now, files, token>>

\* apiVersionFromExecInfo throws, only now that the token is there and cached.
ExecInfoRefused(p) ==
    /\ pc[p] = "print" /\ p \in Refused
    /\ Goto(p, "failed")
    /\ UNCHANGED <<now, files, token, printed>>

\* The user interrupts kubectl.
Killed(p) ==
    /\ pc[p] \notin {"done", "failed", "killed"}
    /\ Goto(p, "killed")
    /\ UNCHANGED <<now, files, token, printed>>

Tick == now < MaxTime /\ now' = now + 1 /\ UNCHANGED <<files, pc, token, printed>>

Run(p) ==
    \/ readCache(p) \/ fetchToken(p) \/ FetchFails(p)
    \/ CacheSkipped(p) \/ OpenTemp(p) \/ WriteTemp(p) \/ RenameTemp(p) \/ WriteFails(p)
    \/ writeExecCredential(p) \/ ExecInfoRefused(p)

Next == (\E p \in Process : Run(p) \/ Killed(p)) \/ Tick

Spec == Init /\ [][Next]_vars

\* A process goes on until it ends: the fetch has a timeout.
FairSpec == Spec /\ \A p \in Process : WF_vars(Run(p))

-----------------------------------------------------------------------------
(* Properties *)

\* Readers never see a torn entry: whatever runs in parallel or is killed, the
\* cache file is absent or a whole record of a token whose expiry is known, and
\* nothing else is ever printed as a token.
FileWhole ==
    /\ file = NoFile \/ (file \in Nat /\ file > 0)
    /\ \A p \in Process : printed[p] = NoFile \/ printed[p] \in Nat

\* What a process publishes is the token that it fetched itself, whatever other
\* processes write at the same time.
PublishesOwn ==
    [][\A p \in Process :
         pc[p] = "rename" /\ pc'[p] = "print" /\ file' # file => file' = token[p]]_vars

\* The cache is best effort: a token that was fetched reaches kubectl, whatever
\* fails while it is cached, unless the process is killed, or kubectl asked for an
\* answer that the shim cannot write, which ends the process with nothing printed.
TokenPrinted ==
    \A p \in Process :
        pc[p] = "open" ~> \/ pc[p] = "killed"
                          \/ pc[p] = "done" /\ printed[p] = token[p]
                          \/ p \in Refused /\ pc[p] = "failed" /\ printed[p] = NoFile
=============================================================================
