---------------------------- MODULE CertIssuance ----------------------------
(***************************************************************************)
(* Certificate issuance against revocation, for one join token and the     *)
(* agent enrolled with it (internal/server/store/enrollment.go).           *)
(*                                                                         *)
(* Issuers run EnrollAgent (first use of the token, or the idempotent      *)
(* replay with the same CSR) and RenewCertificate; revokers run            *)
(* RevokeCertificate and RevokeAgentCertificates.  Each is a transaction   *)
(* of several statements under READ COMMITTED: it locks a row, and only a  *)
(* LATER statement, with a fresh snapshot, checks or updates certificates. *)
(* The join token row is locked FOR UPDATE by an enrollment, the agent row *)
(* FOR KEY SHARE by an issuer and FOR UPDATE by a revoker.  Any            *)
(* transaction may be rolled back at any point (error, timeout, crash).    *)
(*                                                                         *)
(* Only committed certificates are in `certs`: what an open transaction    *)
(* inserted appears when it commits.                                       *)
(***************************************************************************)
EXTENDS Naturals

CONSTANTS Issuers,    \* concurrent enrollments and renewals
          Revokers,   \* concurrent revocations
          Serials,    \* certificate serials that may be minted
          CSRs        \* certificate requests presented with the token

Nobody  == "nobody"
NoCSR   == "no csr"
Nothing == "nothing"
Agent   == "agent"

ASSUME CertAssumption ==
    /\ Nobody \notin Issuers \cup Revokers
    /\ NoCSR \notin CSRs
    /\ Nothing \notin Serials /\ Agent \notin Serials /\ Agent # Nothing

VARIABLES token,        \* join_tokens: used_csr_hash, NoCSR while unused
          tokenLock,    \* the issuer holding the token row FOR UPDATE
          agents,       \* how many agents the token has created
          certs,        \* certificates: none, live or revoked
          expired,      \* serials past not_after
          shared,       \* issuers holding the agent row FOR KEY SHARE
          exclusive,    \* the revoker holding the agent row FOR UPDATE
          issuer,       \* where each issuing transaction stands
          revoker,      \* what each revoking transaction revokes
          revokedAll    \* history: an agent-wide revocation has committed

rows  == <<token, agents, certs, expired, revokedAll>>
locks == <<tokenLock, shared, exclusive>>
issuanceVars  == <<token, tokenLock, agents, certs, expired, shared, exclusive, issuer, revoker, revokedAll>>

IssuerPcs == {"idle", "first", "replay", "check replay", "renew", "check renew",
              "mint replay", "mint renew"}

Sharing   == {"check replay", "check renew", "mint replay", "mint renew"}
Enrolling == {"first", "replay", "check replay", "mint replay"}

Idle == [pc |-> "idle", arg |-> Nothing]

IssuanceInit ==
    /\ token = NoCSR
    /\ tokenLock = Nobody
    /\ agents = 0
    /\ certs = [s \in Serials |-> "none"]
    /\ expired = {}
    /\ shared = {}
    /\ exclusive = Nobody
    /\ issuer = [p \in Issuers |-> Idle]
    /\ revoker = [r \in Revokers |-> Nothing]
    /\ revokedAll = FALSE

(* An issuing transaction ends: its row locks go with it. *)
EndIssue(p) ==
    /\ issuer' = [issuer EXCEPT ![p] = Idle]
    /\ shared' = shared \ {p}
    /\ tokenLock' = IF tokenLock = p THEN Nobody ELSE tokenLock
    /\ UNCHANGED <<exclusive, revoker>>

Goto(p, pc) == issuer' = [issuer EXCEPT ![p].pc = pc]

-----------------------------------------------------------------------------
(* EnrollAgent. *)

(* An enrollment waits for the token row.  (Variant: it does not.) *)
tokenFreeNoWait(p) == TRUE

tokenFree(p) == tokenLock = Nobody

(* The token row is locked and read: unused, a replay, or refused. *)
EnrollBegin(p, csr) ==
    /\ issuer[p].pc = "idle"
    /\ tokenFree(p)
    /\ token \in {NoCSR, csr}
    /\ tokenLock' = p
    /\ issuer' = [issuer EXCEPT ![p] = [pc |-> IF token = NoCSR THEN "first" ELSE "replay",
                                        arg |-> csr]]
    /\ UNCHANGED <<rows, shared, exclusive, revoker>>

(* First use: agent, target, token and certificate rows in one commit. *)
EnrollFirst(p, s) ==
    /\ issuer[p].pc = "first"
    /\ certs[s] = "none"
    /\ agents' = agents + 1
    /\ token' = issuer[p].arg
    /\ certs' = [certs EXCEPT ![s] = "live"]
    /\ EndIssue(p)
    /\ UNCHANGED <<expired, revokedAll>>

-----------------------------------------------------------------------------
(* RenewCertificate: the caller presents a serial it holds; RenewCert let it
   in on a verdict that may be cached, so the serial may be revoked. *)
RenewBegin(p, s) ==
    /\ issuer[p].pc = "idle"
    /\ certs[s] # "none"
    /\ issuer' = [issuer EXCEPT ![p] = [pc |-> "renew", arg |-> s]]
    /\ UNCHANGED <<rows, locks, revoker>>

(* lockAgentForIssue: FOR KEY SHARE waits for a revoker's FOR UPDATE.
   (Variant: no lock.) *)
issueLockFreeNever == TRUE

issueLockFree == exclusive = Nobody

LockAgentForIssue(p) ==
    /\ issuer[p].pc \in {"replay", "renew"}
    /\ issueLockFree
    /\ shared' = shared \cup {p}
    /\ Goto(p, IF issuer[p].pc = "replay" THEN "check replay" ELSE "check renew")
    /\ UNCHANGED <<rows, tokenLock, exclusive, revoker>>

(* The replay is refused once any certificate of the agent is revoked.
   (Variant: only when none is live.) *)
mayReplayIfLive == \E s \in Serials : certs[s] = "live"

mayReplay == \A s \in Serials : certs[s] # "revoked"

(* certValid: known, unrevoked, within its window at this statement. *)
certValid(s) == certs[s] = "live" /\ s \notin expired

mayMint(p) ==
    \/ issuer[p].pc = "check replay" /\ mayReplay
    \/ issuer[p].pc = "check renew" /\ certValid(issuer[p].arg)

CheckRevocation(p) ==
    /\ issuer[p].pc \in {"check replay", "check renew"}
    /\ \/ /\ mayMint(p)
          /\ Goto(p, IF issuer[p].pc = "check replay" THEN "mint replay" ELSE "mint renew")
          /\ UNCHANGED <<locks, revoker>>
       \/ /\ ~mayMint(p)
          /\ EndIssue(p)
    /\ UNCHANGED rows

(* Sign, insert the new serial, COMMIT. *)
Mint(p, s) ==
    /\ issuer[p].pc \in {"mint replay", "mint renew"}
    /\ certs[s] = "none"
    /\ certs' = [certs EXCEPT ![s] = "live"]
    /\ EndIssue(p)
    /\ UNCHANGED <<token, agents, expired, revokedAll>>

AbortIssue(p) ==
    /\ issuer[p].pc # "idle"
    /\ EndIssue(p)
    /\ UNCHANGED rows

-----------------------------------------------------------------------------
(* Revocation. *)

(* lockAgentForRevoke: FOR UPDATE waits for every issuer and revoker.  A
   serial is looked up before the lock; serial and agent never part. *)
LockAgentForRevoke(r, what) ==
    /\ revoker[r] = Nothing
    /\ agents > 0
    /\ what \in Serials => certs[what] # "none"
    /\ shared = {} /\ exclusive = Nobody
    /\ exclusive' = r
    /\ revoker' = [revoker EXCEPT ![r] = what]
    /\ UNCHANGED <<rows, tokenLock, shared, issuer>>

EndRevoke(r) ==
    /\ revoker' = [revoker EXCEPT ![r] = Nothing]
    /\ exclusive' = Nobody
    /\ UNCHANGED <<tokenLock, shared, issuer>>

(* RevokeAgentCertificates updates every unrevoked row of the agent. *)
afterAgentRevoke ==
    [s \in Serials |-> IF certs[s] = "live" THEN "revoked" ELSE certs[s]]

RevokeAgentCertificates(r) ==
    /\ revoker[r] = Agent
    /\ certs' = afterAgentRevoke
    /\ revokedAll' = TRUE
    /\ EndRevoke(r)
    /\ UNCHANGED <<token, agents, expired>>

(* RevokeCertificate; a serial revoked meanwhile is "already revoked" and
   the transaction rolls back. *)
RevokeCertificate(r) ==
    /\ revoker[r] \in Serials
    /\ certs' = [certs EXCEPT ![revoker[r]] = "revoked"]
    /\ EndRevoke(r)
    /\ UNCHANGED <<token, agents, expired, revokedAll>>

AbortRevoke(r) ==
    /\ revoker[r] # Nothing
    /\ EndRevoke(r)
    /\ UNCHANGED rows

-----------------------------------------------------------------------------

(* not_after passes. *)
Expire(s) ==
    /\ certs[s] # "none"
    /\ s \notin expired
    /\ expired' = expired \cup {s}
    /\ UNCHANGED <<token, agents, certs, revokedAll, locks, issuer, revoker>>

IssueNext(p) ==
    \/ \E csr \in CSRs : EnrollBegin(p, csr)
    \/ \E s \in Serials : EnrollFirst(p, s) \/ RenewBegin(p, s) \/ Mint(p, s)
    \/ LockAgentForIssue(p)
    \/ CheckRevocation(p)
    \/ AbortIssue(p)

RevokeNext(r) ==
    \/ \E what \in Serials \cup {Agent} : LockAgentForRevoke(r, what)
    \/ RevokeAgentCertificates(r)
    \/ RevokeCertificate(r)
    \/ AbortRevoke(r)

IssuanceNext ==
    \/ \E p \in Issuers : IssueNext(p)
    \/ \E r \in Revokers : RevokeNext(r)
    \/ \E s \in Serials : Expire(s)

IssuanceSpec == IssuanceInit /\ [][IssuanceNext]_issuanceVars

-----------------------------------------------------------------------------

(* The tables keep their shape, and the row locks are held by exactly the
   transactions that have taken them and not ended. *)
IssuanceTypeOK ==
    /\ token \in CSRs \cup {NoCSR}
    /\ tokenLock \in Issuers \cup {Nobody}
    /\ agents \in Nat
    /\ certs \in [Serials -> {"none", "live", "revoked"}]
    /\ expired \subseteq Serials
    /\ shared \subseteq Issuers
    /\ exclusive \in Revokers \cup {Nobody}
    /\ issuer \in [Issuers -> [pc : IssuerPcs, arg : Serials \cup CSRs \cup {Nothing}]]
    /\ revoker \in [Revokers -> Serials \cup {Agent, Nothing}]
    /\ revokedAll \in BOOLEAN
    /\ \A p \in Issuers :
          /\ p \in shared <=> issuer[p].pc \in Sharing
          /\ tokenLock = p <=> issuer[p].pc \in Enrolling
    /\ \A r \in Revokers : exclusive = r <=> revoker[r] # Nothing

(***************************************************************************)
(* Revoking an agent is final: once RevokeAgentCertificates has committed  *)
(* the agent never again has a live certificate, whatever enrollment       *)
(* replays and renewals were in flight.  ("a certificate minted            *)
(* concurrently is either covered here or refused".)                       *)
(***************************************************************************)
RevocationIsFinal == revokedAll => \A s \in Serials : certs[s] # "live"

(***************************************************************************)
(* At the instant a new certificate commits, the credential it was minted  *)
(* on stands: the serial renewed is not revoked, and a replayed enrollment *)
(* finds no certificate of its agent revoked.  (lockAgentForIssue before   *)
(* the check, held to the commit.)                                         *)
(***************************************************************************)
MintedOnStandingCredential ==
    [][\A p \in Issuers :
          /\ issuer[p].pc = "mint renew" /\ certs' # certs /\ issuer'[p] = Idle
                => certs[issuer[p].arg] = "live"
          /\ issuer[p].pc = "mint replay" /\ certs' # certs /\ issuer'[p] = Idle
                => \A s \in Serials : certs[s] # "revoked"]_issuanceVars

(***************************************************************************)
(* A join token enrolls one agent, and once it has a CSR it keeps it: two  *)
(* enrollments racing on one token cannot both be its first use.           *)
(* (SELECT ... FOR UPDATE on join_tokens.)                                 *)
(***************************************************************************)
TokenEnrollsOnce == agents <= 1 /\ (agents = 0 <=> token = NoCSR)

=============================================================================
