----------------------------- MODULE CertProofs -----------------------------
(***************************************************************************)
(* Certificates: revocation is final, for any number of concurrent         *)
(* enrollments, renewals and revocations, and takes effect in time, for    *)
(* any number of RPCs and any lifetime of a cached verdict, tick period    *)
(* and request latency.                                                    *)
(*                                                                         *)
(* Neither RevocationIsFinal nor MintedOnStandingCredential is inductive:  *)
(* both rest on what a transaction past its check may rely on.  CertInv    *)
(* says it: while an issuer holds the agent row no revoker does, so the    *)
(* verdict of its check still stands when it mints.                        *)
(*                                                                         *)
(* RevocationWindow speaks of admitted RPCs only.  What makes it inductive *)
(* is what the revocation finds under way: a "valid" verdict not yet       *)
(* stored began before it (RpcOK), a stored one expires within CacheTTL of *)
(* it (EntryOK), and a stream is due for its re-check (StreamOK).          *)
(***************************************************************************)
EXTENDS CertIssuance, CertCache, TLAPS

(* The agent row is not held in conflicting modes. *)
LocksConflict == shared = {} \/ exclusive = Nobody

(* What an issuer past its check relies on. *)
ChecksStand ==
    \A p \in Issuers :
        /\ issuer[p].pc = "first" => token = NoCSR
        /\ issuer[p].pc \in {"renew", "check renew", "mint renew"} => issuer[p].arg \in Serials
        /\ issuer[p].pc \in {"first", "replay"} => issuer[p].arg \in CSRs
        /\ issuer[p].pc \in {"renew", "check renew", "mint renew", "replay", "check replay", "mint replay"}
              => agents # 0
        /\ issuer[p].pc = "mint renew" => certs[issuer[p].arg] = "live"
        /\ issuer[p].pc = "mint replay" => \A s \in Serials : certs[s] # "revoked"

(* The token and the agent it enrolled. *)
TokenInv ==
    /\ agents = 0 <=> token = NoCSR
    /\ agents <= 1
    /\ agents = 0 => \A s \in Serials : certs[s] = "none"
    /\ agents # 0 => \E s \in Serials : certs[s] # "none"
    /\ exclusive # Nobody => agents # 0

(* What an agent-wide revocation leaves behind. *)
RevokedInv ==
    revokedAll => /\ \A s \in Serials : certs[s] # "live"
                  /\ \E s \in Serials : certs[s] = "revoked"

CertInv == IssuanceTypeOK /\ LocksConflict /\ ChecksStand /\ TokenInv /\ RevokedInv

-----------------------------------------------------------------------------

(* Which issuers hold which locks. *)
LEMMA LockFacts ==
    ASSUME IssuanceTypeOK, NEW p \in Issuers
    PROVE  /\ p \in shared <=> issuer[p].pc \in Sharing
           /\ tokenLock = p <=> issuer[p].pc \in Enrolling
BY DEF IssuanceTypeOK

-----------------------------------------------------------------------------

LEMMA CertInvAlways == IssuanceSpec => []CertInv
\* Ending an issuing transaction releases exactly its locks.
<1>locks. ASSUME IssuanceTypeOK, NEW p \in Issuers, EndIssue(p)
          PROVE  /\ issuer' \in [Issuers -> [pc : IssuerPcs, arg : Serials \cup CSRs \cup {Nothing}]]
                 /\ issuer'[p].pc = "idle"
                 /\ \A q \in Issuers : q # p => issuer'[q] = issuer[q]
                 /\ shared' \subseteq Issuers
                 /\ tokenLock' \in Issuers \cup {Nobody}
                 /\ \A q \in Issuers : /\ q \in shared' <=> issuer'[q].pc \in Sharing
                                       /\ tokenLock' = q <=> issuer'[q].pc \in Enrolling
                 /\ exclusive' = exclusive /\ revoker' = revoker
                 /\ shared' \subseteq shared
    <2> USE <1>locks
    <2>1. /\ issuer' = [issuer EXCEPT ![p] = Idle]
          /\ shared' = shared \ {p}
          /\ tokenLock' = IF tokenLock = p THEN Nobody ELSE tokenLock
          /\ exclusive' = exclusive /\ revoker' = revoker
      BY DEF EndIssue
    <2>2. Idle \in [pc : IssuerPcs, arg : Serials \cup CSRs \cup {Nothing}] /\ Idle.pc = "idle"
      BY DEF Idle, IssuerPcs
    <2>3. issuer' \in [Issuers -> [pc : IssuerPcs, arg : Serials \cup CSRs \cup {Nothing}]]
      BY <2>1, <2>2 DEF IssuanceTypeOK
    <2>4. issuer'[p] = Idle /\ \A q \in Issuers : q # p => issuer'[q] = issuer[q]
      BY <2>1 DEF IssuanceTypeOK
    <2>5. "idle" \notin Sharing /\ "idle" \notin Enrolling
      BY DEF Sharing, Enrolling
    <2>6. \A q \in Issuers : q \in shared' <=> issuer'[q].pc \in Sharing
      <3> SUFFICES ASSUME NEW q \in Issuers PROVE q \in shared' <=> issuer'[q].pc \in Sharing
        OBVIOUS
      <3>1. CASE q = p
        BY <2>1, <2>2, <2>4, <2>5, <3>1
      <3>2. CASE q # p
        <4>1. issuer'[q] = issuer[q]
          BY <2>4, <3>2
        <4>2. q \in shared' <=> q \in shared
          BY <2>1, <3>2
        <4> QED
          BY <4>1, <4>2, LockFacts
      <3> QED
        BY <3>1, <3>2
    <2>7. p # Nobody /\ \A q \in Issuers : q # Nobody
      BY CertAssumption
    <2>8. \A q \in Issuers : tokenLock' = q <=> issuer'[q].pc \in Enrolling
      <3> SUFFICES ASSUME NEW q \in Issuers PROVE tokenLock' = q <=> issuer'[q].pc \in Enrolling
        OBVIOUS
      <3>1. CASE q = p
        BY <2>1, <2>2, <2>4, <2>5, <2>7, <3>1
      <3>2. CASE q # p
        <4>1. issuer'[q] = issuer[q]
          BY <2>4, <3>2
        <4>2. tokenLock' = q <=> tokenLock = q
          BY <2>1, <2>7, <3>2
        <4> QED
          BY <4>1, <4>2, LockFacts
      <3> QED
        BY <3>1, <3>2
    <2> QED
      BY <2>1, <2>2, <2>3, <2>4, <2>6, <2>8 DEF IssuanceTypeOK
\* A revoker holds the row alone, so no issuer is past its lock.
<1>alone. ASSUME CertInv, NEW r \in Revokers, revoker[r] # Nothing
          PROVE  /\ exclusive = r /\ shared = {} /\ agents # 0
                 /\ \A p \in Issuers : issuer[p].pc \notin Sharing
    <2> USE <1>alone
    <2>1. exclusive = r
      BY DEF CertInv, IssuanceTypeOK
    <2>2. r # Nobody
      BY CertAssumption
    <2>3. shared = {}
      BY <2>1, <2>2 DEF CertInv, LocksConflict
    <2>4. \A p \in Issuers : issuer[p].pc \notin Sharing
      <3> SUFFICES ASSUME NEW p \in Issuers PROVE issuer[p].pc \notin Sharing
        OBVIOUS
      <3>1. IssuanceTypeOK
        BY DEF CertInv
      <3>2. p \notin shared
        BY <2>3
      <3> QED
        BY <3>1, <3>2, LockFacts
    <2> QED
      BY <2>1, <2>2, <2>3, <2>4 DEF CertInv, TokenInv
<1>1. IssuanceInit => CertInv
  <2> SUFFICES ASSUME IssuanceInit PROVE CertInv
    OBVIOUS
  <2>1. Idle.pc = "idle" /\ Idle \in [pc : IssuerPcs, arg : Serials \cup CSRs \cup {Nothing}]
    BY DEF Idle, IssuerPcs
  <2>2. \A p \in Issuers : issuer[p].pc = "idle"
    BY <2>1 DEF IssuanceInit
  <2>3. IssuanceTypeOK
    <3>1. \A p \in Issuers : p # Nobody
      BY CertAssumption
    <3>2. \A r \in Revokers : r # Nobody
      BY CertAssumption
    <3>3. \A p \in Issuers : /\ p \in shared <=> issuer[p].pc \in Sharing
                             /\ tokenLock = p <=> issuer[p].pc \in Enrolling
      BY <2>2, <3>1 DEF IssuanceInit, Sharing, Enrolling
    <3>4. \A r \in Revokers : exclusive = r <=> revoker[r] # Nothing
      BY <3>2 DEF IssuanceInit
    <3> QED
      BY <2>1, <3>3, <3>4 DEF IssuanceInit, IssuanceTypeOK
  <2>4. ChecksStand
    BY <2>2 DEF ChecksStand
  <2> QED
    BY <2>3, <2>4 DEF IssuanceInit, CertInv, LocksConflict, TokenInv, RevokedInv
<1>issue. ASSUME CertInv, NEW p \in Issuers, IssueNext(p)
          PROVE  CertInv'
  <2> USE <1>issue
  <2>i. IssuanceTypeOK /\ LocksConflict /\ ChecksStand /\ TokenInv /\ RevokedInv
    BY DEF CertInv
  <2>1. ASSUME NEW csr \in CSRs, EnrollBegin(p, csr) PROVE CertInv'
    <3> USE <2>1
    <3>1. /\ tokenLock = Nobody /\ tokenLock' = p /\ token \in {NoCSR, csr}
          /\ UNCHANGED <<token, agents, certs, expired, revokedAll, shared, exclusive, revoker>>
      BY DEF EnrollBegin, tokenFree, rows
    <3>2. PICK x : x = [pc |-> IF token = NoCSR THEN "first" ELSE "replay", arg |-> csr]
      OBVIOUS
    <3>3. x.arg = csr /\ ((x.pc = "first" /\ token = NoCSR) \/ x.pc = "replay")
      BY <3>2
    <3>4. issuer' = [issuer EXCEPT ![p] = x] /\ issuer[p].pc = "idle"
      BY <3>2 DEF EnrollBegin
    <3>5. x \in [pc : IssuerPcs, arg : Serials \cup CSRs \cup {Nothing}]
      BY <3>2 DEF IssuerPcs
    <3>6. /\ issuer' \in [Issuers -> [pc : IssuerPcs, arg : Serials \cup CSRs \cup {Nothing}]]
          /\ issuer'[p] = x /\ \A q \in Issuers : q # p => issuer'[q] = issuer[q]
      BY <2>i, <3>4, <3>5 DEF IssuanceTypeOK
    <3>7. x.pc \notin Sharing /\ x.pc \in Enrolling /\ "idle" \notin Sharing
      BY <3>3 DEF Sharing, Enrolling
    <3>8. IssuanceTypeOK'
      <4>1. \A q \in Issuers : q # Nobody
        BY CertAssumption
      <4>2. \A q \in Issuers : q \in shared' <=> issuer'[q].pc \in Sharing
        <5> SUFFICES ASSUME NEW q \in Issuers PROVE q \in shared' <=> issuer'[q].pc \in Sharing
          OBVIOUS
        <5>1. CASE q = p
          BY <2>i, <3>1, <3>4, <3>6, <3>7, <5>1, LockFacts
        <5>2. CASE q # p
          <6>1. issuer'[q] = issuer[q]
            BY <3>6, <5>2
          <6> QED
            BY <2>i, <3>1, <6>1, LockFacts
        <5> QED
          BY <5>1, <5>2
      <4>3. \A q \in Issuers : tokenLock' = q <=> issuer'[q].pc \in Enrolling
        BY <2>i, <3>1, <3>6, <3>7, <4>1 DEF IssuanceTypeOK
      <4> QED
        BY <2>i, <3>1, <3>6, <4>2, <4>3 DEF IssuanceTypeOK
    <3>9. ChecksStand'
      <4>1. x.pc = "replay" => agents # 0
        BY <2>i, <3>2 DEF TokenInv
      <4> QED
        BY <2>i, <3>1, <3>3, <3>6, <4>1 DEF ChecksStand
    <3> QED
      BY <2>i, <3>1, <3>8, <3>9 DEF CertInv, LocksConflict, TokenInv, RevokedInv
  <2>2. ASSUME NEW s \in Serials, EnrollFirst(p, s) PROVE CertInv'
    <3> USE <2>2
    <3>1. /\ issuer[p].pc = "first" /\ token' = issuer[p].arg /\ agents' = agents + 1
          /\ certs' = [certs EXCEPT ![s] = "live"] /\ EndIssue(p)
          /\ expired' = expired /\ revokedAll' = revokedAll
      BY DEF EnrollFirst
    <3>2. token = NoCSR /\ issuer[p].arg \in CSRs /\ agents = 0
      BY <2>i, <3>1 DEF ChecksStand, TokenInv
    <3>3. \A q \in Issuers : q # p => issuer[q].pc # "first"
      <4>1. tokenLock = p
        BY <2>i, <3>1 DEF IssuanceTypeOK, Enrolling
      <4> QED
        BY <2>i, <4>1 DEF IssuanceTypeOK, Enrolling
    <3>4. IssuanceTypeOK'
      BY <2>i, <3>1, <3>2, <1>locks DEF IssuanceTypeOK
    <3>5. ~revokedAll
      BY <2>i, <3>2 DEF TokenInv, RevokedInv
    <3>6. \A x \in Serials : certs[x] # "revoked" /\ certs[x] # "live"
      BY <2>i, <3>2 DEF TokenInv
    <3>7. certs'[s] = "live" /\ \A x \in Serials : x # s => certs'[x] = certs[x]
      BY <2>i, <3>1 DEF IssuanceTypeOK
    <3>8. ChecksStand'
      <4>1. issuer'[p].pc = "idle" /\ \A q \in Issuers : q # p => issuer'[q] = issuer[q]
        BY <2>i, <3>1, <1>locks
      <4>2. \A x \in Serials : certs'[x] # "revoked"
        BY <3>6, <3>7
      <4>3. agents' # 0
        BY <3>1, <3>2
      <4>4. \A q \in Issuers : issuer[q].pc # "mint renew"
        BY <2>i, <3>2 DEF ChecksStand
      <4> SUFFICES ASSUME NEW q \in Issuers, q # p PROVE ChecksStand!(q)'
        BY <4>1 DEF ChecksStand
      <4>5. issuer'[q] = issuer[q]
        BY <4>1
      <4> QED
        BY <2>i, <3>3, <4>2, <4>3, <4>4, <4>5 DEF ChecksStand
    <3>9. TokenInv'
      BY <2>i, <3>1, <3>2, <3>7, CertAssumption, <1>locks DEF TokenInv, IssuanceTypeOK
    <3> QED
      BY <2>i, <3>1, <3>4, <3>5, <3>8, <3>9, <1>locks DEF CertInv, LocksConflict, RevokedInv
  <2>3. ASSUME NEW s \in Serials, RenewBegin(p, s) PROVE CertInv'
    <3> USE <2>3
    <3>1. /\ issuer[p].pc = "idle" /\ issuer' = [issuer EXCEPT ![p] = [pc |-> "renew", arg |-> s]]
          /\ UNCHANGED <<token, tokenLock, agents, certs, expired, shared, exclusive, revoker, revokedAll>>
      BY DEF RenewBegin, rows, locks
    <3>2. /\ issuer' \in [Issuers -> [pc : IssuerPcs, arg : Serials \cup CSRs \cup {Nothing}]]
          /\ issuer'[p].pc = "renew" /\ issuer'[p].arg = s
          /\ \A q \in Issuers : q # p => issuer'[q] = issuer[q]
      BY <2>i, <3>1 DEF IssuanceTypeOK, IssuerPcs
    <3>3. IssuanceTypeOK'
      BY <2>i, <3>1, <3>2 DEF IssuanceTypeOK, Sharing, Enrolling
    <3>4. agents # 0
      BY <2>3, <2>i DEF RenewBegin, TokenInv
    <3>5. ChecksStand'
      BY <2>i, <3>1, <3>2, <3>4 DEF ChecksStand
    <3> QED
      BY <2>i, <3>1, <3>3, <3>5 DEF CertInv, LocksConflict, TokenInv, RevokedInv
  <2>4. ASSUME NEW s \in Serials, Mint(p, s) PROVE CertInv'
    <3> USE <2>4
    <3>1. /\ issuer[p].pc \in {"mint replay", "mint renew"} /\ certs[s] = "none"
          /\ certs' = [certs EXCEPT ![s] = "live"] /\ EndIssue(p)
          /\ UNCHANGED <<token, agents, expired, revokedAll>>
      BY DEF Mint
    <3>2. certs'[s] = "live" /\ \A x \in Serials : x # s => certs'[x] = certs[x]
      BY <2>i, <3>1 DEF IssuanceTypeOK
    <3>3. IssuanceTypeOK'
      BY <2>i, <3>1, <1>locks DEF IssuanceTypeOK
    <3>4. ~revokedAll
      BY <2>i, <3>1 DEF ChecksStand, RevokedInv
    <3>5. ChecksStand'
      BY <2>i, <3>1, <3>2, <1>locks, ZenonT(40) DEF ChecksStand
    <3>6. agents # 0
      BY <2>i, <3>1 DEF ChecksStand
    <3>7. TokenInv'
      BY <2>i, <3>1, <3>2, <3>6, <1>locks DEF TokenInv
    <3> QED
      BY <2>i, <3>1, <3>3, <3>4, <3>5, <3>7, <1>locks DEF CertInv, LocksConflict, RevokedInv
  <2>5. CASE LockAgentForIssue(p)
    <3> USE <2>5
    <3>0. PICK pc \in IssuerPcs : pc = IF issuer[p].pc = "replay" THEN "check replay" ELSE "check renew"
      BY DEF IssuerPcs
    <3>1. /\ issuer[p].pc \in {"replay", "renew"} /\ exclusive = Nobody
          /\ shared' = shared \cup {p} /\ Goto(p, pc)
          /\ UNCHANGED <<token, tokenLock, agents, certs, expired, exclusive, revoker, revokedAll>>
      BY <3>0 DEF LockAgentForIssue, issueLockFree, rows
    <3>2. /\ issuer' \in [Issuers -> [pc : IssuerPcs, arg : Serials \cup CSRs \cup {Nothing}]]
          /\ issuer'[p].pc = pc /\ issuer'[p].arg = issuer[p].arg
          /\ \A q \in Issuers : q # p => issuer'[q] = issuer[q]
      BY <2>i, <3>1 DEF Goto, CertInv, IssuanceTypeOK
    <3>3. \/ pc = "check replay" /\ issuer[p].pc = "replay"
          \/ pc = "check renew" /\ issuer[p].pc = "renew"
      BY <3>0, <3>1
    <3>4. IssuanceTypeOK'
      <4>1. pc \in Sharing /\ (pc \in Enrolling <=> issuer[p].pc \in Enrolling)
        BY <3>3 DEF Sharing, Enrolling
      <4>2. \A q \in Issuers : q \in shared' <=> issuer'[q].pc \in Sharing
        <5> SUFFICES ASSUME NEW q \in Issuers PROVE q \in shared' <=> issuer'[q].pc \in Sharing
          OBVIOUS
        <5>1. CASE q = p
          BY <3>1, <3>2, <4>1, <5>1
        <5>2. CASE q # p
          <6>1. issuer'[q] = issuer[q] /\ (q \in shared' <=> q \in shared)
            BY <3>1, <3>2, <5>2
          <6> QED
            BY <2>i, <6>1, LockFacts
        <5> QED
          BY <5>1, <5>2
      <4>3. \A q \in Issuers : tokenLock' = q <=> issuer'[q].pc \in Enrolling
        <5> SUFFICES ASSUME NEW q \in Issuers PROVE tokenLock' = q <=> issuer'[q].pc \in Enrolling
          OBVIOUS
        <5>1. issuer'[q].pc \in Enrolling <=> issuer[q].pc \in Enrolling
          BY <3>2, <4>1
        <5> QED
          BY <2>i, <3>1, <5>1, LockFacts
      <4> QED
        BY <2>i, <3>1, <3>2, <4>2, <4>3 DEF IssuanceTypeOK
    <3>5. ChecksStand'
      BY <2>i, <3>1, <3>2, <3>3 DEF ChecksStand
    <3> QED
      BY <2>i, <3>1, <3>4, <3>5 DEF CertInv, LocksConflict, TokenInv, RevokedInv
  <2>6. CASE CheckRevocation(p)
    <3> USE <2>6
    <3>1. /\ issuer[p].pc \in {"check replay", "check renew"}
          /\ UNCHANGED <<token, agents, certs, expired, revokedAll>>
      BY DEF CheckRevocation, rows
    <3>2. CASE ~mayMint(p)
      <4>1. EndIssue(p)
        BY <3>2 DEF CheckRevocation
      <4>2. IssuanceTypeOK'
        BY <2>i, <3>1, <4>1, <1>locks DEF IssuanceTypeOK
      <4>3. ChecksStand'
        BY <2>i, <3>1, <4>1, <1>locks DEF ChecksStand
      <4> QED
        BY <2>i, <3>1, <4>1, <4>2, <4>3, <1>locks
           DEF CertInv, LocksConflict, TokenInv, RevokedInv
    <3>3. CASE mayMint(p)
      <4>0. PICK pc \in IssuerPcs :
               pc = IF issuer[p].pc = "check replay" THEN "mint replay" ELSE "mint renew"
        BY DEF IssuerPcs
      <4>1. Goto(p, pc) /\ UNCHANGED <<tokenLock, shared, exclusive, revoker>>
        BY <3>3, <4>0 DEF CheckRevocation, locks
      <4>2. /\ issuer' \in [Issuers -> [pc : IssuerPcs, arg : Serials \cup CSRs \cup {Nothing}]]
            /\ issuer'[p].pc = pc /\ issuer'[p].arg = issuer[p].arg
            /\ \A q \in Issuers : q # p => issuer'[q] = issuer[q]
        BY <2>i, <4>1 DEF Goto, CertInv, IssuanceTypeOK
      <4>3. \/ pc = "mint replay" /\ issuer[p].pc = "check replay" /\ mayReplay
            \/ pc = "mint renew" /\ issuer[p].pc = "check renew" /\ certValid(issuer[p].arg)
        BY <3>1, <3>3, <4>0 DEF mayMint
      <4>4. IssuanceTypeOK'
        BY <2>i, <3>1, <4>1, <4>2, <4>3 DEF IssuanceTypeOK, Sharing, Enrolling
      <4>5. ChecksStand'
        BY <2>i, <3>1, <4>2, <4>3 DEF ChecksStand, mayReplay, certValid
      <4> QED
        BY <2>i, <3>1, <4>1, <4>4, <4>5 DEF CertInv, LocksConflict, TokenInv, RevokedInv
    <3> QED
      BY <3>2, <3>3
  <2>7. CASE AbortIssue(p)
    <3> USE <2>7
    <3>1. EndIssue(p) /\ UNCHANGED <<token, agents, certs, expired, revokedAll>>
      BY DEF AbortIssue, rows
    <3>2. IssuanceTypeOK'
      BY <2>i, <3>1, <1>locks DEF IssuanceTypeOK
    <3>3. ChecksStand'
      BY <2>i, <3>1, <1>locks DEF ChecksStand
    <3> QED
      BY <2>i, <3>1, <3>2, <3>3, <1>locks DEF CertInv, LocksConflict, TokenInv, RevokedInv
  <2> QED
    BY <2>1, <2>2, <2>3, <2>4, <2>5, <2>6, <2>7 DEF IssueNext
<1>revoke. ASSUME CertInv, NEW r \in Revokers, RevokeNext(r)
           PROVE  CertInv'
  <2> USE <1>revoke
  <2>i. IssuanceTypeOK /\ LocksConflict /\ ChecksStand /\ TokenInv /\ RevokedInv
    BY DEF CertInv
  <2>e. ASSUME EndRevoke(r), revoker[r] # Nothing
        PROVE  /\ exclusive' = Nobody /\ revoker' \in [Revokers -> Serials \cup {Agent, Nothing}]
               /\ \A q \in Revokers : exclusive' = q <=> revoker'[q] # Nothing
               /\ UNCHANGED <<tokenLock, shared, issuer>>
    BY <2>i, <2>e, CertAssumption DEF EndRevoke, IssuanceTypeOK
  <2>1. ASSUME NEW what \in Serials \cup {Agent}, LockAgentForRevoke(r, what) PROVE CertInv'
    <3>1. /\ shared = {} /\ exclusive = Nobody /\ exclusive' = r /\ agents > 0
          /\ revoker' = [revoker EXCEPT ![r] = what]
          /\ UNCHANGED <<token, agents, certs, expired, revokedAll, tokenLock, shared, issuer>>
      BY <2>1 DEF LockAgentForRevoke, rows
    <3>3. agents # 0
      BY <2>i, <3>1 DEF IssuanceTypeOK
    <3>2. IssuanceTypeOK'
      BY <2>i, <3>1, CertAssumption DEF IssuanceTypeOK
    <3> QED
      BY <2>i, <3>1, <3>2, <3>3 DEF CertInv, LocksConflict, ChecksStand, TokenInv, RevokedInv
  <2>2. CASE RevokeAgentCertificates(r)
    <3>1. /\ revoker[r] = Agent /\ EndRevoke(r) /\ certs' = afterAgentRevoke /\ revokedAll' = TRUE
          /\ UNCHANGED <<token, agents, expired>>
      BY <2>2 DEF RevokeAgentCertificates
    <3>2. revoker[r] # Nothing
      BY <3>1, CertAssumption
    <3>3. \A p \in Issuers : issuer[p].pc \notin Sharing
      BY <3>2, <1>alone
    <3>4. /\ certs' \in [Serials -> {"none", "live", "revoked"}]
          /\ \A s \in Serials : certs'[s] # "live"
          /\ \A s \in Serials : certs'[s] = "none" <=> certs[s] = "none"
      BY <2>i, <3>1 DEF afterAgentRevoke, IssuanceTypeOK
    <3>5. IssuanceTypeOK'
      BY <2>i, <2>e, <3>1, <3>2, <3>4 DEF IssuanceTypeOK
    <3>6. ChecksStand'
      BY <2>i, <2>e, <3>1, <3>2, <3>3 DEF ChecksStand, Sharing
    <3>7. agents # 0
      BY <3>2, <1>alone
    <3>8. TokenInv'
      BY <2>i, <3>1, <3>4, <3>7 DEF TokenInv
    <3>9. RevokedInv'
      BY <2>i, <3>1, <3>4, <3>7 DEF RevokedInv, TokenInv, IssuanceTypeOK
    <3> QED
      BY <2>i, <2>e, <3>1, <3>2, <3>5, <3>6, <3>8, <3>9 DEF CertInv, LocksConflict
  <2>3. CASE RevokeCertificate(r)
    <3>1. /\ revoker[r] \in Serials /\ EndRevoke(r)
          /\ certs' = [certs EXCEPT ![revoker[r]] = "revoked"]
          /\ UNCHANGED <<token, agents, expired, revokedAll>>
      BY <2>3 DEF RevokeCertificate
    <3>2. revoker[r] # Nothing
      BY <3>1, CertAssumption
    <3>3. \A p \in Issuers : issuer[p].pc \notin Sharing
      BY <3>2, <1>alone
    <3>4. /\ certs' \in [Serials -> {"none", "live", "revoked"}]
          /\ certs'[revoker[r]] = "revoked"
          /\ \A s \in Serials : s # revoker[r] => certs'[s] = certs[s]
      BY <2>i, <3>1 DEF IssuanceTypeOK
    <3>5. IssuanceTypeOK'
      BY <2>i, <2>e, <3>1, <3>2, <3>4 DEF IssuanceTypeOK
    <3>6. ChecksStand'
      BY <2>i, <2>e, <3>1, <3>2, <3>3 DEF ChecksStand, Sharing
    <3>7. agents # 0
      BY <3>2, <1>alone
    <3>8. TokenInv'
      BY <2>i, <3>1, <3>4, <3>7 DEF TokenInv
    <3>9. RevokedInv'
      BY <2>i, <3>1, <3>4 DEF RevokedInv
    <3> QED
      BY <2>i, <2>e, <3>1, <3>2, <3>5, <3>6, <3>8, <3>9 DEF CertInv, LocksConflict
  <2>4. CASE AbortRevoke(r)
    <3>1. revoker[r] # Nothing /\ EndRevoke(r) /\ UNCHANGED <<token, agents, certs, expired, revokedAll>>
      BY <2>4 DEF AbortRevoke, rows
    <3>2. IssuanceTypeOK'
      BY <2>i, <2>e, <3>1 DEF IssuanceTypeOK
    <3> QED
      BY <2>i, <2>e, <3>1, <3>2 DEF CertInv, LocksConflict, ChecksStand, TokenInv, RevokedInv
  <2> QED
    BY <2>1, <2>2, <2>3, <2>4 DEF RevokeNext
<1>2. CertInv /\ [IssuanceNext]_issuanceVars => CertInv'
  <2> SUFFICES ASSUME CertInv, [IssuanceNext]_issuanceVars PROVE CertInv'
    OBVIOUS
  <2>1. ASSUME NEW p \in Issuers, IssueNext(p) PROVE CertInv'
    BY <2>1, <1>issue
  <2>2. ASSUME NEW r \in Revokers, RevokeNext(r) PROVE CertInv'
    BY <2>2, <1>revoke
  <2>3. ASSUME NEW s \in Serials, Expire(s) PROVE CertInv'
    BY <2>3 DEF Expire, locks, CertInv, IssuanceTypeOK, LocksConflict, ChecksStand, TokenInv, RevokedInv
  <2>4. CASE UNCHANGED issuanceVars
    BY <2>4 DEF issuanceVars, CertInv, IssuanceTypeOK, LocksConflict, ChecksStand, TokenInv, RevokedInv
  <2> QED
    BY <2>1, <2>2, <2>3, <2>4 DEF IssuanceNext
<1> QED
  BY <1>1, <1>2, PTL DEF IssuanceSpec

(* Once RevokeAgentCertificates has committed, the agent never again has a
   live certificate, however many enrollment replays and renewals were in
   flight. *)
THEOREM RevocationIsFinalAlways == IssuanceSpec => []RevocationIsFinal
<1>1. CertInv => RevocationIsFinal
  BY DEF CertInv, RevokedInv, RevocationIsFinal
<1> QED
  BY <1>1, CertInvAlways, PTL

(* However many enrollments race on it, the join token creates one agent
   and is bound to one CSR from then on. *)
THEOREM TokenEnrollsOnceAlways == IssuanceSpec => []TokenEnrollsOnce
<1>1. CertInv => TokenEnrollsOnce
  BY DEF CertInv, TokenInv, TokenEnrollsOnce
<1> QED
  BY <1>1, CertInvAlways, PTL

(* The verdict of certValid, or of the replay's revocation check, still
   holds when the certificate minted on it commits. *)
THEOREM MintedOnStandingCredentialAlways == IssuanceSpec => MintedOnStandingCredential
<1>1. CertInv /\ [IssuanceNext]_issuanceVars =>
        [\A p \in Issuers :
            /\ issuer[p].pc = "mint renew" /\ certs' # certs /\ issuer'[p] = Idle
                  => certs[issuer[p].arg] = "live"
            /\ issuer[p].pc = "mint replay" /\ certs' # certs /\ issuer'[p] = Idle
                  => \A s \in Serials : certs[s] # "revoked"]_issuanceVars
  BY DEF CertInv, ChecksStand
<1> QED
  BY <1>1, CertInvAlways, PTL DEF IssuanceSpec, MintedOnStandingCredential

-----------------------------------------------------------------------------

(* r is an RPC, c the clock, v the time of the revocation or 0. *)
RpcOK(r, c, v) ==
    /\ r.now <= c
    /\ r.pc # "idle" => c <= r.now + Latency
    /\ v # 0 /\ r.pc = "put" /\ r.valid => r.now <= v
    /\ v # 0 /\ r.pc = "admitted" => r.now <= v + CacheTTL

EntryOK(e, c, v) ==
    /\ e.expires <= c + CacheTTL
    /\ v # 0 /\ e.valid => e.expires <= v + CacheTTL

StreamOK(s, c, v) ==
    s.phase # "down" =>
        /\ c <= s.next
        /\ s.next <= c + SweepEvery
        /\ v # 0 => s.next <= v + CacheTTL + Latency + SweepEvery

EntryType == [valid : BOOLEAN, expires : Nat]

StreamType == [phase : {"down", "up", "proved"}, next : Nat]

RpcInv == rpc \in [RPCs -> RPCType] /\ \A p \in RPCs : RpcOK(rpc[p], clock, revokedAt)

EntryInv == certCache \in EntryType /\ EntryOK(certCache, clock, revokedAt)

StreamInv == certStream \in StreamType /\ StreamOK(certStream, clock, revokedAt)

ClockInv == clock \in Nat /\ revokedAt \in Nat /\ revokedAt <= clock

CacheInv == ClockInv /\ RpcInv /\ EntryInv /\ StreamInv

-----------------------------------------------------------------------------

(* A step that changes one RPC and leaves the clock alone keeps RpcInv if
   what it leaves of that RPC is all right. *)
(***************************************************************************)
(* Once a certificate is revoked, no RPC is admitted with it that began    *)
(* later than CacheTTL after the revocation (certValidCached), and no      *)
(* config stream of it is up later than one cache lifetime, one request    *)
(* and one tick after it (streamConfig's uncached re-check), whatever else *)
(* is running and however often the agent reconnects.                      *)
(***************************************************************************)
THEOREM RevocationTakesEffectAlways == CertCacheSpec => []RevocationTakesEffect
<1>one. ASSUME RpcInv, NEW p \in RPCs, NEW r \in RPCType, RpcOK(r, clock, revokedAt),
               rpc' = [rpc EXCEPT ![p] = r], clock' = clock, revokedAt' = revokedAt
        PROVE  RpcInv'
    <2> USE <1>one
    <2>1. rpc' \in [RPCs -> RPCType]
      BY DEF RpcInv
    <2>2. ASSUME NEW q \in RPCs PROVE RpcOK(rpc'[q], clock, revokedAt)
      <3>1. CASE q = p
        BY <3>1 DEF RpcInv
      <3>2. CASE q # p
        BY <3>2 DEF RpcInv
      <3> QED
        BY <3>1, <3>2
    <2> QED
      BY <2>1, <2>2 DEF RpcInv
\* A verdict stored with the date of its lookup.
<1>entry. ASSUME NEW c \in Nat, NEW v \in Nat, NEW now \in Nat, now <= c, NEW b \in BOOLEAN,
                 v # 0 /\ b => now <= v
          PROVE  entry(b, now) \in EntryType /\ EntryOK(entry(b, now), c, v)
    <2> USE <1>entry
    <2>1. entry(b, now).valid = b /\ entry(b, now).expires = now + CacheTTL
      BY DEF entry
    <2>2. now + CacheTTL \in Nat /\ now + CacheTTL <= c + CacheTTL
      BY CacheAssumption
    <2>3. v # 0 /\ b => now + CacheTTL <= v + CacheTTL
      BY CacheAssumption
    <2> QED
      BY <2>1, <2>2, <2>3 DEF entry, EntryType, EntryOK
\* What an RPC, and the absence of one and of a stream, look like.
<1>fields. /\ \A r \in RPCType : r.now \in Nat /\ r.valid \in BOOLEAN /\ r.kind \in RPCKinds
           /\ \A c, v \in Nat : IdleRPC \in RPCType /\ RpcOK(IdleRPC, c, v)
           /\ \A c, v \in Nat : NoStream \in StreamType /\ StreamOK(NoStream, c, v)
    <2>1. \A r \in RPCType : r.now \in Nat /\ r.valid \in BOOLEAN /\ r.kind \in RPCKinds
      BY DEF RPCType
    <2>2. ASSUME NEW c \in Nat, NEW v \in Nat
          PROVE  IdleRPC \in RPCType /\ RpcOK(IdleRPC, c, v)
      BY DEF IdleRPC, RPCType, RpcOK, RPCKinds
    <2>3. ASSUME NEW c \in Nat, NEW v \in Nat
          PROVE  NoStream \in StreamType /\ StreamOK(NoStream, c, v)
      BY DEF NoStream, StreamType, StreamOK
    <2> QED
      BY <2>1, <2>2, <2>3
\* Time passes.
<1>tick. CacheInv /\ CacheTick => CacheInv'
  <2> SUFFICES ASSUME CacheInv, CacheTick PROVE CacheInv'
    OBVIOUS
  <2>1. clock' = clock + 1 /\ UNCHANGED <<revokedAt, certCache, rpc, certStream>>
    BY DEF CacheTick
  <2>2. clock \in Nat /\ revokedAt \in Nat /\ revokedAt <= clock
    BY DEF CacheInv, ClockInv
  <2>3. ClockInv'
    <3>1. clock' \in Nat /\ revokedAt <= clock'
      BY <2>1, <2>2
    <3> QED
      BY <2>1, <2>2, <3>1 DEF ClockInv
  <2>4. RpcInv'
    <3>1. ASSUME NEW p \in RPCs PROVE RpcOK(rpc[p], clock + 1, revokedAt)
      <4>1. rpc[p] \in RPCType /\ RpcOK(rpc[p], clock, revokedAt)
        BY DEF CacheInv, RpcInv
      <4>2. rpc[p].now \in Nat
        BY <4>1, <1>fields
      <4>3. rpc[p].pc # "idle" => clock < rpc[p].now + Latency
        BY DEF CacheTick
      <4>4. rpc[p].now <= clock + 1
        BY <2>2, <4>1, <4>2 DEF RpcOK
      <4>5. rpc[p].pc # "idle" => clock + 1 <= rpc[p].now + Latency
        BY <2>2, <4>2, <4>3, CacheAssumption
      <4> QED
        BY <4>1, <4>4, <4>5 DEF RpcOK
    <3> QED
      BY <2>1, <3>1 DEF CacheInv, RpcInv
  <2>5. EntryInv'
    <3>1. certCache.expires \in Nat /\ certCache.expires <= clock + CacheTTL
      BY DEF CacheInv, EntryInv, EntryType, EntryOK
    <3>2. certCache.expires <= (clock + 1) + CacheTTL
      BY <2>2, <3>1, CacheAssumption
    <3> QED
      BY <2>1, <3>2 DEF CacheInv, EntryInv, EntryOK
  <2>6. StreamInv'
    <3>1. certStream \in StreamType /\ StreamOK(certStream, clock, revokedAt)
      BY DEF CacheInv, StreamInv
    <3>2. certStream.next \in Nat /\ certStream.phase \in {"down", "up", "proved"}
      BY <3>1 DEF StreamType
    <3>3. certStream.phase # "down" => clock < certStream.next
      BY <3>2 DEF CacheTick
    <3>4. certStream.phase # "down" => clock + 1 <= certStream.next /\ certStream.next <= (clock + 1) + SweepEvery
      BY <2>2, <3>1, <3>2, <3>3, CacheAssumption DEF StreamOK
    <3> QED
      BY <2>1, <3>1, <3>4 DEF StreamInv, StreamOK
  <2> QED
    BY <2>3, <2>4, <2>5, <2>6 DEF CacheInv
\* The revocation commits: whatever is under way began no later.
<1>revoke. CacheInv /\ Revoke => CacheInv'
  <2> SUFFICES ASSUME CacheInv, Revoke PROVE CacheInv'
    OBVIOUS
  <2>1. revokedAt = 0 /\ revokedAt' = clock /\ UNCHANGED <<clock, certCache, rpc, certStream>>
    BY DEF Revoke
  <2>2. clock \in Nat
    BY DEF CacheInv, ClockInv
  <2>3. ClockInv'
    BY <2>1, <2>2 DEF ClockInv
  <2>4. RpcInv'
    <3>1. ASSUME NEW p \in RPCs PROVE RpcOK(rpc[p], clock, clock)
      <4>1. rpc[p] \in RPCType /\ RpcOK(rpc[p], clock, revokedAt)
        BY DEF CacheInv, RpcInv
      <4>2. rpc[p].now \in Nat /\ rpc[p].now <= clock
        BY <4>1, <1>fields DEF RpcOK
      <4>3. rpc[p].now <= clock + CacheTTL
        BY <2>2, <4>2, CacheAssumption
      <4> QED
        BY <4>1, <4>2, <4>3 DEF RpcOK
    <3> QED
      BY <2>1, <3>1 DEF CacheInv, RpcInv
  <2>5. EntryInv'
    BY <2>1 DEF CacheInv, EntryInv, EntryOK
  <2>6. StreamInv'
    <3>1. certStream \in StreamType /\ StreamOK(certStream, clock, revokedAt)
      BY DEF CacheInv, StreamInv
    <3>2. certStream.next \in Nat
      BY <3>1 DEF StreamType
    <3>3. certStream.phase # "down" => certStream.next <= clock + CacheTTL + Latency + SweepEvery
      BY <2>2, <3>1, <3>2, CacheAssumption DEF StreamOK
    <3> QED
      BY <2>1, <3>1, <3>3 DEF StreamInv, StreamOK
  <2> QED
    BY <2>3, <2>4, <2>5, <2>6 DEF CacheInv
\* The sweep and the end of a stream.
<1>sweep. CacheInv /\ SweepNext => CacheInv'
  <2> SUFFICES ASSUME CacheInv, SweepNext PROVE CacheInv'
    OBVIOUS
  <2>1. UNCHANGED <<clock, revokedAt, rpc>>
    BY DEF SweepNext, SweepValid, SweepRevoked, SweepCacheRevoked, SweepFails, StreamCloses
  <2>2. clock \in Nat /\ revokedAt \in Nat /\ revokedAt <= clock
    BY DEF CacheInv, ClockInv
  <2>3. RpcInv'
    BY <2>1 DEF CacheInv, RpcInv
  <2>4. certStream \in StreamType /\ StreamOK(certStream, clock, revokedAt)
    BY DEF CacheInv, StreamInv
  <2>5. certCache \in EntryType /\ EntryOK(certCache, clock, revokedAt)
    BY DEF CacheInv, EntryInv
  <2>6. CASE SweepValid
    <3>1. revokedAt = 0 /\ certStream' = [certStream EXCEPT !.next = clock + SweepEvery]
          /\ certCache' = certCache
      BY <2>6 DEF SweepValid
    <3>2. clock + SweepEvery \in Nat /\ clock <= clock + SweepEvery
      BY <2>2, CacheAssumption
    <3>3. certStream' \in StreamType /\ certStream'.next = clock + SweepEvery
      BY <2>4, <3>1, <3>2 DEF StreamType
    <3>4. StreamInv'
      BY <2>1, <3>1, <3>2, <3>3 DEF StreamInv, StreamOK
    <3> QED
      BY <2>1, <2>2, <2>3, <2>5, <3>1, <3>4 DEF CacheInv, ClockInv, EntryInv
  <2>7. CASE SweepRevoked
    <3>1. certStream.phase = "up" /\ certStream' = [certStream EXCEPT !.phase = "proved"]
          /\ certCache' = certCache
      BY <2>7 DEF SweepRevoked
    <3>2. certStream' \in StreamType /\ certStream'.next = certStream.next
      BY <2>4, <3>1 DEF StreamType
    <3>3. StreamInv'
      BY <2>1, <2>4, <3>1, <3>2 DEF StreamInv, StreamOK
    <3> QED
      BY <2>1, <2>2, <2>3, <2>5, <3>1, <3>3 DEF CacheInv, ClockInv, EntryInv
  <2>8. CASE SweepCacheRevoked
    <3>1. certCache' = entry(FALSE, clock) /\ certStream' = NoStream
      BY <2>8 DEF SweepCacheRevoked
    <3>2. entry(FALSE, clock) \in EntryType /\ EntryOK(entry(FALSE, clock), clock, revokedAt)
      <4>1. clock \in Nat /\ revokedAt \in Nat /\ clock <= clock /\ FALSE \in BOOLEAN
        BY <2>2
      <4> QED
        BY <4>1, <1>entry, Zenon
    <3>3. EntryInv'
      BY <2>1, <3>1, <3>2 DEF EntryInv
    <3>4. StreamInv'
      BY <2>1, <2>2, <3>1, <1>fields DEF StreamInv
    <3> QED
      BY <2>1, <2>2, <2>3, <3>1, <3>3, <3>4 DEF CacheInv, ClockInv
  <2>9. CASE SweepFails \/ StreamCloses
    <3>1. certStream' = NoStream /\ certCache' = certCache
      BY <2>9 DEF SweepFails, StreamCloses, afterFailedSweep
    <3>2. StreamInv'
      BY <2>1, <2>2, <3>1, <1>fields DEF StreamInv
    <3> QED
      BY <2>1, <2>2, <2>3, <2>5, <3>1, <3>2 DEF CacheInv, ClockInv, EntryInv
  <2> QED
    BY <2>6, <2>7, <2>8, <2>9 DEF SweepNext
\* The steps of one RPC.
<1>rpc. ASSUME NEW p \in RPCs
        PROVE  CacheInv /\ RPCNext(p) => CacheInv'
  <2> USE <1>rpc
  <2> SUFFICES ASSUME CacheInv, RPCNext(p) PROVE CacheInv'
    OBVIOUS
  <2>1. clock \in Nat /\ revokedAt \in Nat /\ revokedAt <= clock
    BY DEF CacheInv, ClockInv
  <2>2. rpc[p] \in RPCType /\ RpcOK(rpc[p], clock, revokedAt)
    BY DEF CacheInv, RpcInv
  <2>3. rpc \in [RPCs -> RPCType] /\ RpcInv
    BY DEF CacheInv, RpcInv
  <2>4. rpc[p].now \in Nat /\ rpc[p].now <= clock /\ rpc[p].valid \in BOOLEAN
    BY <2>2, <1>fields DEF RpcOK
  <2>5. certCache \in EntryType /\ EntryOK(certCache, clock, revokedAt)
    BY DEF CacheInv, EntryInv
  <2>6. certStream \in StreamType /\ StreamOK(certStream, clock, revokedAt)
    BY DEF CacheInv, StreamInv
  <2>7. IdleRPC \in RPCType /\ RpcOK(IdleRPC, clock, revokedAt)
    BY <2>1, <1>fields
  <2>8. ASSUME NEW k \in RPCKinds, Authenticate(p, k) PROVE CacheInv'
    <3> DEFINE r == [pc |-> IF found THEN "admitted" ELSE "fetch", kind |-> k,
                     now |-> clock, valid |-> found]
    <3>1. rpc' = [rpc EXCEPT ![p] = r] /\ UNCHANGED <<clock, revokedAt, certCache, certStream>>
          /\ (found => certCache.valid)
      BY <2>8 DEF Authenticate
    <3>2. found \in BOOLEAN
      BY DEF found
    <3>3. r \in RPCType
      BY <2>1, <3>2 DEF RPCType
    <3>4. found /\ revokedAt # 0 => clock <= revokedAt + CacheTTL
      <4>1. certCache.expires \in Nat
        BY <2>5 DEF EntryType
      <4>2. found /\ revokedAt # 0 => clock <= certCache.expires /\ certCache.expires <= revokedAt + CacheTTL
        BY <2>5, <3>1 DEF found, EntryOK
      <4> QED
        BY <2>1, <4>1, <4>2, CacheAssumption
    <3>5. clock <= clock /\ clock <= clock + Latency
      BY <2>1, CacheAssumption
    <3>6. RpcOK(r, clock, revokedAt)
      BY <3>4, <3>5 DEF RpcOK
    <3>7. RpcInv'
      BY <2>3, <3>1, <3>3, <3>6, <1>one
    <3> QED
      BY <3>1, <3>7 DEF CacheInv, ClockInv, EntryInv, StreamInv
  <2>9. CASE Refuse(p)
    BY <2>9 DEF Refuse, certCacheVars, CacheInv, ClockInv, RpcInv, EntryInv, StreamInv
  <2>10. CASE Fetch(p)
    <3> DEFINE r == [rpc[p] EXCEPT !.pc = "put", !.valid = (revokedAt = 0)]
    <3>1. rpc' = [rpc EXCEPT ![p] = r] /\ UNCHANGED <<clock, revokedAt, certCache, certStream>>
          /\ rpc[p].pc = "fetch"
      BY <2>10, <2>3 DEF Fetch
    <3>2. r \in RPCType
      BY <2>2 DEF RPCType
    <3>3. r.now = rpc[p].now /\ r.pc = "put" /\ r.valid = (revokedAt = 0)
      BY <2>2 DEF RPCType
    <3>4. RpcOK(r, clock, revokedAt)
      BY <2>2, <3>1, <3>3 DEF RpcOK
    <3>5. RpcInv'
      BY <2>3, <3>1, <3>2, <3>4, <1>one
    <3> QED
      BY <3>1, <3>5 DEF CacheInv, ClockInv, EntryInv, StreamInv
  <2>11. CASE FetchFails(p) \/ Handle(p)
    <3>1. rpc' = [rpc EXCEPT ![p] = IdleRPC] /\ UNCHANGED <<clock, revokedAt, certCache, certStream>>
      BY <2>11 DEF FetchFails, Handle
    <3>2. RpcInv'
      BY <2>3, <2>7, <3>1, <1>one
    <3> QED
      BY <3>1, <3>2 DEF CacheInv, ClockInv, EntryInv, StreamInv
  <2>12. CASE Put(p)
    <3> DEFINE r == IF rpc[p].valid THEN [rpc[p] EXCEPT !.pc = "admitted"] ELSE IdleRPC
    <3>1. rpc' = [rpc EXCEPT ![p] = r] /\ certCache' = entry(rpc[p].valid, rpc[p].now)
          /\ UNCHANGED <<clock, revokedAt, certStream>> /\ rpc[p].pc = "put"
      BY <2>12 DEF Put
    <3>2. r \in RPCType
      BY <2>2, <2>7 DEF RPCType
    <3>3. revokedAt # 0 /\ rpc[p].valid => rpc[p].now <= revokedAt /\ rpc[p].now <= revokedAt + CacheTTL
      BY <2>1, <2>2, <2>4, <3>1, CacheAssumption DEF RpcOK
    <3>4. RpcOK(r, clock, revokedAt)
      <4>1. CASE rpc[p].valid
        <5>1. r.now = rpc[p].now /\ r.pc = "admitted"
          BY <2>2, <4>1 DEF RPCType
        <5> QED
          BY <2>2, <3>1, <3>3, <4>1, <5>1 DEF RpcOK
      <4>2. CASE ~rpc[p].valid
        BY <2>7, <4>2
      <4> QED
        BY <4>1, <4>2
    <3>5. RpcInv'
      BY <2>3, <3>1, <3>2, <3>4, <1>one
    <3>6. EntryInv'
      <4>1. entry(rpc[p].valid, rpc[p].now) \in EntryType
            /\ EntryOK(entry(rpc[p].valid, rpc[p].now), clock, revokedAt)
        BY <2>1, <2>4, <3>3, <1>entry
      <4> QED
        BY <3>1, <4>1 DEF EntryInv
    <3> QED
      BY <3>1, <3>5, <3>6 DEF CacheInv, ClockInv, StreamInv
  <2>13. CASE OpenStream(p)
    <3>1. rpc' = [rpc EXCEPT ![p] = IdleRPC] /\ UNCHANGED <<clock, revokedAt, certCache>>
          /\ rpc[p].pc = "admitted"
      BY <2>13 DEF OpenStream
    <3>2. RpcInv'
      BY <2>3, <2>7, <3>1, <1>one
    <3>3. StreamInv'
      <4>1. CASE certStream' = [phase |-> "up", next |-> clock + SweepEvery]
        <5>1. clock + SweepEvery \in Nat /\ clock <= clock + SweepEvery
          BY <2>1, CacheAssumption
        <5>2. certStream' \in StreamType /\ certStream'.next = clock + SweepEvery
          BY <4>1, <5>1 DEF StreamType
        <5>3. clock <= rpc[p].now + Latency
          BY <2>2, <3>1 DEF RpcOK
        <5>4. revokedAt # 0 => rpc[p].now <= revokedAt + CacheTTL
          BY <2>2, <3>1 DEF RpcOK
        <5>5. revokedAt # 0 => clock + SweepEvery <= revokedAt + CacheTTL + Latency + SweepEvery
          BY <2>1, <2>4, <5>3, <5>4, CacheAssumption
        <5> QED
          BY <3>1, <5>1, <5>2, <5>5 DEF StreamInv, StreamOK
      <4>2. CASE certStream' = certStream
        BY <2>6, <3>1, <4>2 DEF StreamInv
      <4> QED
        BY <2>13, <4>1, <4>2 DEF OpenStream
    <3> QED
      BY <3>1, <3>2, <3>3 DEF CacheInv, ClockInv, EntryInv
  <2>14. CASE RenewRefused(p)
    <3> DEFINE r == [rpc[p] EXCEPT !.pc = "proved"]
    <3>1. rpc' = [rpc EXCEPT ![p] = r] /\ UNCHANGED <<clock, revokedAt, certCache, certStream>>
          /\ rpc[p].pc = "admitted"
      BY <2>14, <2>3 DEF RenewRefused
    <3>2. r \in RPCType /\ r.now = rpc[p].now /\ r.pc = "proved"
      BY <2>2 DEF RPCType
    <3>3. RpcOK(r, clock, revokedAt)
      BY <2>2, <3>1, <3>2 DEF RpcOK
    <3>4. RpcInv'
      BY <2>3, <3>1, <3>2, <3>3, <1>one
    <3> QED
      BY <3>1, <3>4 DEF CacheInv, ClockInv, EntryInv, StreamInv
  <2>15. CASE RenewCacheRevoked(p)
    <3>1. rpc' = [rpc EXCEPT ![p] = IdleRPC] /\ certCache' = entry(FALSE, clock)
          /\ UNCHANGED <<clock, revokedAt, certStream>>
      BY <2>15 DEF RenewCacheRevoked
    <3>2. RpcInv'
      BY <2>3, <2>7, <3>1, <1>one
    <3>3. entry(FALSE, clock) \in EntryType /\ EntryOK(entry(FALSE, clock), clock, revokedAt)
      <4>1. clock \in Nat /\ revokedAt \in Nat /\ clock <= clock /\ FALSE \in BOOLEAN
        BY <2>1
      <4> QED
        BY <4>1, <1>entry, Zenon
    <3> QED
      BY <3>1, <3>2, <3>3 DEF CacheInv, ClockInv, EntryInv, StreamInv
  <2> QED
    BY <2>8, <2>9, <2>10, <2>11, <2>12, <2>13, <2>14, <2>15 DEF RPCNext
<1>init. CertCacheInit => CacheInv
  <2> SUFFICES ASSUME CertCacheInit PROVE CacheInv
    OBVIOUS
  <2>1. ClockInv
    <3>1. clock = 1 /\ revokedAt = 0
      BY DEF CertCacheInit
    <3>2. clock \in Nat /\ revokedAt \in Nat /\ revokedAt <= clock
      BY <3>1
    <3> QED
      BY <3>2 DEF ClockInv
  <2>2. RpcInv
    <3>1. IdleRPC \in RPCType /\ RpcOK(IdleRPC, clock, revokedAt)
      BY <2>1, <1>fields DEF ClockInv
    <3> QED
      BY <3>1 DEF CertCacheInit, RpcInv
  <2>3. EntryInv
    <3>1. 0 <= clock + CacheTTL
      BY <2>1, CacheAssumption DEF ClockInv
    <3> QED
      BY <3>1 DEF CertCacheInit, EntryInv, EntryType, EntryOK
  <2>4. StreamInv
    BY <2>1, <1>fields DEF CertCacheInit, StreamInv, ClockInv
  <2> QED
    BY <2>1, <2>2, <2>3, <2>4 DEF CacheInv
<1>1. CacheInv /\ [CertCacheNext]_certCacheVars => CacheInv'
  <2> SUFFICES ASSUME CacheInv, [CertCacheNext]_certCacheVars PROVE CacheInv'
    OBVIOUS
  <2>1. CASE CertCacheNext
    BY <2>1, <1>tick, <1>revoke, <1>sweep, <1>rpc DEF CertCacheNext
  <2>2. CASE UNCHANGED certCacheVars
    BY <2>2 DEF certCacheVars, CacheInv, ClockInv, RpcInv, EntryInv, StreamInv
  <2> QED
    BY <2>1, <2>2
<1>2. CacheInv => RevocationWindow
  BY DEF CacheInv, RpcInv, RpcOK, RevocationWindow
<1>3. CacheInv => RevokedStreamCut
  <2> SUFFICES ASSUME CacheInv, revokedAt # 0, certStream.phase # "down"
               PROVE  clock <= revokedAt + CacheTTL + Latency + SweepEvery
    BY DEF RevokedStreamCut
  <2>1. clock \in Nat /\ revokedAt \in Nat /\ certStream.next \in Nat
    BY DEF CacheInv, ClockInv, StreamInv, StreamType
  <2>2. clock <= certStream.next /\ certStream.next <= revokedAt + CacheTTL + Latency + SweepEvery
    BY DEF CacheInv, StreamInv, StreamOK
  <2> QED
    BY <2>1, <2>2, CacheAssumption
<1>4. CacheInv => RevocationTakesEffect
  BY <1>2, <1>3 DEF RevocationTakesEffect
<1> QED
  BY <1>init, <1>1, <1>4, PTL DEF CertCacheSpec

=============================================================================
