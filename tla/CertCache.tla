----------------------------- MODULE CertCache -----------------------------
(***************************************************************************)
(* How long a revoked certificate is still let in: the verdict cache in    *)
(* front of CertValid and the config stream's uncached re-check            *)
(* (internal/server/grpcapi/auth.go, server.go), for one certificate.      *)
(*                                                                         *)
(* An RPC reads the clock, looks in the cache, asks the database on a miss *)
(* and only then stores the verdict, dated with the clock reading it began *)
(* with; other RPCs, the stream's sweep and the revocation run in between. *)
(* CertIssuance models what the revocation itself is serialized against.   *)
(***************************************************************************)
EXTENDS Naturals

CONSTANTS RPCs,        \* concurrent RPCs presenting the certificate
          CacheTTL,    \* certCacheTTL
          SweepEvery,  \* the stream ticker's period
          Latency,     \* bound: how long an RPC may stay in flight
          MaxClock     \* bound: the clock

ASSUME CacheAssumption ==
    /\ CacheTTL \in Nat /\ SweepEvery \in Nat \ {0} /\ Latency \in Nat /\ MaxClock \in Nat

VARIABLES clock,
          revokedAt,   \* when the revocation committed, 0 before
          certCache,       \* the certificate's certEntry, expires = 0 if absent
          rpc,         \* where each RPC stands
          certStream       \* the config stream and its next tick

certCacheVars == <<clock, revokedAt, certCache, rpc, certStream>>

RPCKinds == {"push", "stream", "renew"}

IdleRPC == [pc |-> "idle", kind |-> "push", now |-> 0, valid |-> FALSE]

NoStream == [phase |-> "down", next |-> 0]

CertCacheInit ==
    /\ clock = 1
    /\ revokedAt = 0
    /\ certCache = [valid |-> FALSE, expires |-> 0]
    /\ rpc = [p \in RPCs |-> IdleRPC]
    /\ certStream = NoStream

(* Time passes, but no RPC outlives Latency and a tick is served when due. *)
CacheTick ==
    /\ clock < MaxClock
    /\ \A p \in RPCs : rpc[p].pc # "idle" => clock < rpc[p].now + Latency
    /\ certStream.phase = "up" => clock < certStream.next
    /\ certStream.phase # "proved"
    /\ clock' = clock + 1
    /\ UNCHANGED <<revokedAt, certCache, rpc, certStream>>

(* A revocation of this certificate commits. *)
Revoke ==
    /\ revokedAt = 0
    /\ revokedAt' = clock
    /\ UNCHANGED <<clock, certCache, rpc, certStream>>

-----------------------------------------------------------------------------
(* certCache. *)

found == certCache.expires # 0 /\ clock <= certCache.expires

(* put: the entry a verdict leaves.  (Variant: dated when it is stored.) *)
entryStored(valid, now) == [valid |-> valid, expires |-> clock + CacheTTL]

entry(valid, now) == [valid |-> valid, expires |-> now + CacheTTL]

-----------------------------------------------------------------------------
(* authenticateAgent and certValidCached, for one RPC. *)

(* The agent runs one stream goroutine. *)
mayOpenStream ==
    /\ certStream.phase = "down"
    /\ \A p \in RPCs : rpc[p].pc = "idle" \/ rpc[p].kind # "stream"

(* A hit answers at once, a miss goes to the database. *)
Authenticate(p, k) ==
    /\ rpc[p].pc = "idle"
    /\ k = "stream" => mayOpenStream
    /\ found => certCache.valid
    /\ rpc' = [rpc EXCEPT ![p] = [pc |-> IF found THEN "admitted" ELSE "fetch", kind |-> k,
                                  now |-> clock, valid |-> found]]
    /\ UNCHANGED <<clock, revokedAt, certCache, certStream>>

(* A cached refusal: the RPC is turned away without reaching the database. *)
Refuse(p) ==
    /\ rpc[p].pc = "idle"
    /\ found /\ ~certCache.valid
    /\ UNCHANGED certCacheVars

(* store.CertValid. *)
Fetch(p) ==
    /\ rpc[p].pc = "fetch"
    /\ rpc' = [rpc EXCEPT ![p].pc = "put", ![p].valid = (revokedAt = 0)]
    /\ UNCHANGED <<clock, revokedAt, certCache, certStream>>

(* A database error is never cached; the RPC fails. *)
FetchFails(p) ==
    /\ rpc[p].pc = "fetch"
    /\ rpc' = [rpc EXCEPT ![p] = IdleRPC]
    /\ UNCHANGED <<clock, revokedAt, certCache, certStream>>

Put(p) ==
    /\ rpc[p].pc = "put"
    /\ certCache' = entry(rpc[p].valid, rpc[p].now)
    /\ rpc' = [rpc EXCEPT ![p] = IF rpc[p].valid THEN [rpc[p] EXCEPT !.pc = "admitted"] ELSE IdleRPC]
    /\ UNCHANGED <<clock, revokedAt, certStream>>

-----------------------------------------------------------------------------
(* What an admitted RPC goes on to do. *)

(* PushResults, and a renewal that is granted or fails otherwise. *)
Handle(p) ==
    /\ rpc[p].pc = "admitted"
    /\ rpc[p].kind # "stream"
    /\ rpc' = [rpc EXCEPT ![p] = IdleRPC]
    /\ UNCHANGED <<clock, revokedAt, certCache, certStream>>

(* streamConfig reaches its loop and the ticker starts, or it fails first. *)
OpenStream(p) ==
    /\ rpc[p].pc = "admitted"
    /\ rpc[p].kind = "stream"
    /\ \/ certStream' = [phase |-> "up", next |-> clock + SweepEvery]
       \/ UNCHANGED certStream
    /\ rpc' = [rpc EXCEPT ![p] = IdleRPC]
    /\ UNCHANGED <<clock, revokedAt, certCache>>

(* RenewCertificate's own check finds the certificate revoked ... *)
RenewRefused(p) ==
    /\ rpc[p].pc = "admitted"
    /\ rpc[p].kind = "renew"
    /\ revokedAt # 0
    /\ rpc' = [rpc EXCEPT ![p].pc = "proved"]
    /\ UNCHANGED <<clock, revokedAt, certCache, certStream>>

(* ... and cacheRevoked records it. *)
RenewCacheRevoked(p) ==
    /\ rpc[p].pc = "proved"
    /\ certCache' = entry(FALSE, clock)
    /\ rpc' = [rpc EXCEPT ![p] = IdleRPC]
    /\ UNCHANGED <<clock, revokedAt, certStream>>

-----------------------------------------------------------------------------
(* The stream's sweep: CertValid, uncached, on every tick. *)

SweepValid ==
    /\ certStream.phase = "up" /\ clock >= certStream.next
    /\ revokedAt = 0
    /\ certStream' = [certStream EXCEPT !.next = clock + SweepEvery]
    /\ UNCHANGED <<clock, revokedAt, certCache, rpc>>

SweepRevoked ==
    /\ certStream.phase = "up" /\ clock >= certStream.next
    /\ revokedAt # 0
    /\ certStream' = [certStream EXCEPT !.phase = "proved"]
    /\ UNCHANGED <<clock, revokedAt, certCache, rpc>>

SweepCacheRevoked ==
    /\ certStream.phase = "proved"
    /\ certCache' = entry(FALSE, clock)
    /\ certStream' = NoStream
    /\ UNCHANGED <<clock, revokedAt, rpc>>

(* The check itself fails: the stream does not stay up. *)
afterFailedSweep == NoStream

SweepFails ==
    /\ certStream.phase = "up" /\ clock >= certStream.next
    /\ certStream' = afterFailedSweep
    /\ UNCHANGED <<clock, revokedAt, certCache, rpc>>

(* The agent goes away, or the stream breaks. *)
StreamCloses ==
    /\ certStream.phase = "up"
    /\ certStream' = NoStream
    /\ UNCHANGED <<clock, revokedAt, certCache, rpc>>

-----------------------------------------------------------------------------

RPCNext(p) ==
    \/ \E k \in RPCKinds : Authenticate(p, k)
    \/ Refuse(p) \/ Fetch(p) \/ FetchFails(p) \/ Put(p)
    \/ Handle(p) \/ OpenStream(p) \/ RenewRefused(p) \/ RenewCacheRevoked(p)

SweepNext == SweepValid \/ SweepRevoked \/ SweepCacheRevoked \/ SweepFails \/ StreamCloses

CertCacheNext == CacheTick \/ Revoke \/ (\E p \in RPCs : RPCNext(p)) \/ SweepNext

CertCacheSpec == CertCacheInit /\ [][CertCacheNext]_certCacheVars

-----------------------------------------------------------------------------

RPCType == [pc : {"idle", "fetch", "put", "admitted", "proved"}, kind : RPCKinds,
            now : Nat, valid : BOOLEAN]

(* The variables keep their types, and no clock reading is in the future:
   an entry expires at most CacheTTL from now. *)
CertCacheTypeOK ==
    /\ clock \in Nat
    /\ revokedAt \in Nat /\ revokedAt <= clock
    /\ certCache \in [valid : BOOLEAN, expires : Nat] /\ certCache.expires <= clock + CacheTTL
    /\ rpc \in [RPCs -> RPCType] /\ \A p \in RPCs : rpc[p].now <= clock
    /\ certStream \in [phase : {"down", "up", "proved"}, next : Nat]

(***************************************************************************)
(* A revoked certificate gets an RPC admitted only if the RPC began within *)
(* CacheTTL of the revocation, however lookups, slow database answers and  *)
(* revocation interleave.  (certValidCached dates the entry with the clock *)
(* read before the fetch.)                                                 *)
(***************************************************************************)
RevocationWindow ==
    revokedAt # 0 =>
        \A p \in RPCs : rpc[p].pc = "admitted" => rpc[p].now <= revokedAt + CacheTTL

(***************************************************************************)
(* Revocation cuts the config stream for good: no stream of a revoked      *)
(* certificate is up later than one cache lifetime, one request and one    *)
(* tick after the revocation, reconnections on a cached verdict included.  *)
(* (The sweep re-checks uncached and drops the stream when it cannot.)     *)
(***************************************************************************)
RevokedStreamCut ==
    revokedAt # 0 /\ certStream.phase # "down"
        => clock <= revokedAt + CacheTTL + Latency + SweepEvery

(***************************************************************************)
(* Revocation takes effect on calls and on the stream, within the bounds   *)
(* that certValidCached and streamConfig's re-check set.                   *)
(***************************************************************************)
RevocationTakesEffect == RevocationWindow /\ RevokedStreamCut

=============================================================================
