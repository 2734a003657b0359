-------------------------- MODULE InstallTxnProofs ---------------------------
(* The promise of install() is coherent for any number of apps, spellings    *)
(* and seconds: the invariant is inductive once the variables are typed.     *)
EXTENDS InstallTxn, TLAPS

\* Committed installs keep the variables typed.
LEMMA TxnTypeStep ==
  ASSUME Strip \in [Names -> Names], TxnTypeOK, [TxnNext]_txnVars
  PROVE  TxnTypeOK'
  <1>1. CASE UNCHANGED txnVars
    BY <1>1 DEF TxnTypeOK, txnVars
  <1>2. ASSUME NEW a \in Apps, NEW n \in Names, NEW t \in Seconds, Commit(a, n, t)
        PROVE  TxnTypeOK'
    BY <1>2 DEF TxnTypeOK, Commit
  <1> QED
    BY <1>1, <1>2 DEF TxnNext

\* A later install of another service leaves the samples of the earlier apps.
LEMMA BuildInfoStep ==
  ASSUME TxnTypeOK, WiredHasBuildInfo, [TxnNext]_txnVars
  PROVE  WiredHasBuildInfo'
  <1>1. CASE UNCHANGED txnVars
    BY <1>1 DEF WiredHasBuildInfo, txnVars
  <1>2. ASSUME NEW a \in Apps, NEW n \in Names, NEW t \in Seconds, Commit(a, n, t),
               NEW b \in Apps, wired'[b] # NoName
        PROVE  \E u \in Seconds : <<wired'[b], u>> \in builds'
    <2>1. builds' = builds \cup {<<n, t>>} /\ wired' = [wired EXCEPT ![a] = n]
      BY <1>2 DEF Commit
    <2>2. CASE b = a
      BY <2>1, <2>2 DEF TxnTypeOK
    <2>3. CASE b # a
      <3>1. wired'[b] = wired[b]
        BY <2>1, <2>3 DEF TxnTypeOK
      <3>2. PICK u \in Seconds : <<wired[b], u>> \in builds
        BY <1>2, <3>1 DEF WiredHasBuildInfo
      <3> QED
        BY <2>1, <3>1, <3>2
    <2> QED
      BY <2>2, <2>3
  <1> QED
    BY <1>1, <1>2 DEF TxnNext, WiredHasBuildInfo

\* Identity and process metrics change in the same commit.
LEMMA IdentityStep ==
  ASSUME NoName \notin Names, MetricsCarryIdentity, [TxnNext]_txnVars
  PROVE  MetricsCarryIdentity'
  <1>1. CASE UNCHANGED txnVars
    BY <1>1 DEF MetricsCarryIdentity, txnVars
  <1>2. ASSUME NEW a \in Apps, NEW n \in Names, NEW t \in Seconds, Commit(a, n, t)
        PROVE  MetricsCarryIdentity'
    BY <1>2 DEF MetricsCarryIdentity, Commit
  <1> QED
    BY <1>1, <1>2 DEF TxnNext

\* Nothing is promised yet.
LEMMA CoherentInit == TxnInit => TxnTypeOK /\ Coherent
  BY DEF TxnInit, TxnTypeOK, Coherent, WiredHasBuildInfo, MetricsCarryIdentity

\* A commit keeps what was promised before.
LEMMA CoherentStep ==
  ASSUME Strip \in [Names -> Names], NoName \notin Names,
         TxnTypeOK, Coherent, [TxnNext]_txnVars
  PROVE  (TxnTypeOK /\ Coherent)'
  BY TxnTypeStep, BuildInfoStep, IdentityStep DEF Coherent

\* What install() promises is coherent: for any apps, names and seconds, every
\* wired app keeps a build_info sample to join with, and the process metrics
\* carry the identity.
THEOREM TxnCoherent ==
  ASSUME Strip \in [Names -> Names], NoName \notin Names
  PROVE  TxnSpec => []Coherent
  BY CoherentInit, CoherentStep, PTL DEF TxnSpec
=============================================================================
