--------------------------- MODULE ShareServerProofs ---------------------------
(***************************************************************************)
(* Proofs about ShareServer: the download cap holds for any cap and any    *)
(* set of requests, finite or not.                                         *)
(***************************************************************************)
EXTENDS ShareServer, FiniteSetTheorems, TLAPS

\* downloads counts exactly the pulls that began, whatever became of them.
Counted == IsFiniteSet(Begun) /\ Cardinality(Begun) = downloads

ShareInv ==
    /\ downloads \in Nat
    /\ pull \in [Client -> {"none", "streaming", "complete", "aborted", "refused", "cut"}]
    /\ Counted
    /\ MaxDownloads > 0 => downloads <= MaxDownloads

\* The pulls that began, in one set.
LEMMA BegunIs ==
    Begun = {c \in Client : pull[c] \in {"streaming", "complete", "aborted", "cut"}}
  BY DEF Begun, Pulls

LEMMA BegunIsNext ==
    Begun' = {c \in Client : pull'[c] \in {"streaming", "complete", "aborted", "cut"}}
  BY DEF Begun, Pulls

LEMMA ShareStep == ShareInv /\ [Next]_vars => ShareInv'
<1> SUFFICES ASSUME ShareInv, [Next]_vars PROVE ShareInv'
  OBVIOUS
<1>1. ASSUME NEW c \in Client, Pull(c) PROVE ShareInv'
  <2>1. Begun' = Begun \cup {c} /\ c \notin Begun
    BY <1>1, BegunIs, BegunIsNext DEF Pull, ShareInv
  <2>2. Counted'
    BY <1>1, <2>1, FS_AddElement DEF Pull, ShareInv, Counted
  <2>3. MaxDownloads > 0 => downloads' <= MaxDownloads
    BY <1>1, ShareServerAssumption DEF Pull, CapReached, ShareInv
  <2>4. QED BY <1>1, <2>2, <2>3 DEF Pull, ShareInv
<1>2. ASSUME pull' \in [Client -> {"none", "streaming", "complete", "aborted", "refused", "cut"}],
             Begun' = Begun, downloads' = downloads
      PROVE  ShareInv'
  BY <1>2 DEF ShareInv, Counted
<1>3. ASSUME NEW c \in Client, Gone(c) PROVE ShareInv'
  <2>1. Begun' = Begun
    BY <1>3, BegunIs, BegunIsNext DEF Gone, ShareInv
  <2>2. QED BY <1>2, <1>3, <2>1 DEF Gone, ShareInv
<1>4. ASSUME NEW c \in Client, ResponseClosed(c) PROVE ShareInv'
  <2>1. Begun' = Begun
    BY <1>4, BegunIs, BegunIsNext DEF ResponseClosed, ShareInv
  <2>2. QED BY <1>2, <1>4, <2>1 DEF ResponseClosed, ShareInv
<1>5. ASSUME ExitAfterCap \/ TtlElapsed PROVE ShareInv'
  <2>1. Exit
    BY <1>5 DEF ExitAfterCap, TtlElapsed
  <2>2. Begun' = Begun
    BY <2>1, BegunIs, BegunIsNext DEF Exit, ShareInv
  <2>3. QED BY <1>2, <2>1, <2>2 DEF Exit, ShareInv
<1>6. CASE UNCHANGED vars
  <2>1. Begun' = Begun
    BY <1>6, BegunIs, BegunIsNext DEF vars
  <2>2. QED BY <1>2, <1>6, <2>1 DEF vars, ShareInv
<1>7. QED BY <1>1, <1>3, <1>4, <1>5, <1>6 DEF Next

-----------------------------------------------------------------------------
\* The invariant holds in every reachable state.
THEOREM ShareInvHolds == Spec => []ShareInv
<1>1. Init => ShareInv
  <2> SUFFICES ASSUME Init PROVE ShareInv
    OBVIOUS
  <2>1. Begun = {}
    BY BegunIs DEF Init
  <2>2. Counted
    BY <2>1, FS_EmptySet DEF Init, Counted
  <2>3. QED BY <2>2, ShareServerAssumption DEF Init, ShareInv
<1>2. QED BY <1>1, ShareStep, PTL DEF Spec

\* At most MAX_DOWNLOADS requests ever get data (CapHolds).
THEOREM CapHoldsAlways == Spec => []CapHolds
<1>1. ShareInv => CapHolds
  BY DEF ShareInv, Counted, CapHolds
<1>2. QED BY ShareInvHolds, <1>1, PTL
=============================================================================
