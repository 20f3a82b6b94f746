--------------------------- MODULE AgentIdentity ---------------------------
(***************************************************************************)
(* The identity of one agent: the files of <state_dir>/pki, the enroll     *)
(* command that creates them, `identity retire`, and the Renewer that      *)
(* keeps the certificate fresh while the agent runs.  Code:                *)
(* internal/agent/enroll/enroll.go, internal/agent/uplink/renew.go, New,   *)
(* dial and Recycle of uplink.go, internal/retiredir/retiredir.go,         *)
(* cmdEnroll, cmdIdentityRetire and cmdRun of cmd/polarbeam-agent/main.go. *)
(*                                                                         *)
(* Keys, CSRs and certificates are known by the key they carry.  A write   *)
(* with os.WriteFile truncates first, so an interrupted one (crash, full   *)
(* disk) leaves a torn file; tmp + rename leaves the old file or the new   *)
(* one.  Time is counted in ticks, as ages: the age of the certificate on  *)
(* disk, and how long the Renewer still sleeps or waits for its RPC.  It   *)
(* passes while the agent runs; a stopped agent is restarted at once or    *)
(* re-enrolled.  An outage is any stretch in which attempts fail: server   *)
(* or network down, disk full.                                             *)
(***************************************************************************)
EXTENDS Integers, FiniteSets

CONSTANTS
    Algs,           \* key algorithms of the CAs the server may run on
    Validity,       \* lifetime of an agent certificate
    HalfMinute, Day,\* the bounds of retryIntervalFor
    RenewTimeout,   \* renewTimeout
    MaxOutage,      \* bound: the one outage per certificate
    TornFiles       \* write steps that may be interrupted half-way

ASSUME IdentityAssumption ==
    /\ Validity \in Nat /\ HalfMinute \in Nat \ {0} /\ Day \in Nat
    /\ RenewTimeout \in Nat /\ MaxOutage \in Nat
    /\ TornFiles \subseteq {"stageKey", "stageCSR", "writeKey", "writeCA"}
    /\ Algs \cap {"absent", "torn", "none"} = {}

VARIABLES
    disk,       \* agent.key, the staged CSR, ca.crt, agent.crt
    enroll,     \* the enroll command: where it is, its key, the CA it trusts
    renewer,    \* the running agent's Renewer: where it is, ticks left, RPC hit
    age,        \* ticks since agent.crt was issued
    caAlg,      \* the CA the server runs on, known by its algorithm
    token,      \* the CSR that consumed the operator's join token
    rejected,   \* the server refused the last enrollment
    outage,     \* stage of the outage, ticks it may still last
    moved       \* history: the CA was cut over since the token was consumed

identityVars == <<disk, enroll, renewer, age, caAlg, token, rejected, outage, moved>>

Absent  == <<"absent", 0>>
Torn    == <<"torn", 0>>
Keys    == Algs \X (1..4)
Idle    == [pc |-> "idle", key |-> Absent, ca |-> "none"]
Off     == [pc |-> "off", wait |-> 0, hit |-> FALSE]
NoFiles == [key |-> Absent, csr |-> Absent, ca |-> Absent, crt |-> Absent]
Healthy == [st |-> "ahead", left |-> 0]

IdentityTypeOK ==
    /\ disk \in [key : Keys \cup {Absent, Torn}, csr : Keys \cup {Absent, Torn},
                 ca : (Algs \X {0}) \cup {Absent, Torn}, crt : Keys \cup {Absent}]
    /\ enroll \in [pc : {"idle", "stageKey", "stageCSR", "call", "writeKey",
                         "writeCA", "writeCert", "unstage"},
                   key : Keys \cup {Absent}, ca : Algs \cup {"none"}]
    /\ renewer \in [pc : {"off", "sleep", "rpc"}, wait : Nat, hit : BOOLEAN]
    /\ age \in 0..(Validity + 1)
    /\ caAlg \in Algs /\ token \in Keys \cup {Absent} /\ rejected \in BOOLEAN
    /\ outage \in [st : {"ahead", "now", "past"}, left : 0..MaxOutage]
    /\ moved \in BOOLEAN

IdentityInit ==
    /\ disk = NoFiles /\ enroll = Idle /\ renewer = Off /\ age = 0
    /\ caAlg \in Algs /\ token = Absent /\ rejected = FALSE /\ outage = Healthy
    /\ moved = FALSE

Reachable == outage.st # "now"

\* Enrolled: agent.crt is the marker.
Enrolled == disk.crt # Absent

\* ClientTLS: the key pair loads and the CA bundle holds a certificate.
Loads == disk.key = disk.crt /\ disk.ca \notin {Absent, Torn}

-----------------------------------------------------------------------------
(* The enroll command.                                                     *)

\* newAgentKey: a key no file, token or process knows, of the CA's algorithm.
newAgentKey(alg) ==
    CHOOSE k \in {alg} \X (1..4) : k \notin {disk.key, disk.csr, disk.crt, token}

\* Variant: a staged key is reused without checking that the CSR is its own.
parseStagedPairUnmatched(alg) ==
    /\ disk.key \notin {Absent, Torn} /\ disk.csr \notin {Absent, Torn}
    /\ disk.csr[1] = alg

\* parseStagedPair: both files parse, belong together and suit the trusted CA.
parseStagedPair(alg) ==
    /\ disk.key \notin {Absent, Torn} /\ disk.csr = disk.key
    /\ disk.csr[1] = alg

\* trustAnchor, fetchPinnedCA: the CA the server shows now, once the operator's
\* fingerprint or CA file has vouched for it.
trustAnchor == caAlg

\* Variant: every attempt starts with a fresh key.
EnrollBeginAfresh ==
    /\ enroll = Idle /\ renewer.pc = "off" /\ ~Enrolled /\ Reachable
    /\ enroll' = [pc |-> "stageKey", key |-> newAgentKey(trustAnchor), ca |-> trustAnchor]
    /\ rejected' = FALSE
    /\ UNCHANGED <<disk, renewer, age, caAlg, token, outage, moved>>

\* Run up to the RPC: refuse an enrolled directory, learn the trust anchor from
\* the server's CA, reuse what an interrupted attempt staged or start afresh.
\* (The --fingerprint preflight needs the server.)
EnrollBegin ==
    /\ enroll = Idle /\ renewer.pc = "off" /\ ~Enrolled /\ Reachable
    /\ enroll' = IF parseStagedPair(trustAnchor)
                 THEN [pc |-> "call", key |-> disk.key, ca |-> trustAnchor]
                 ELSE [pc |-> "stageKey", key |-> newAgentKey(trustAnchor), ca |-> trustAnchor]
    /\ rejected' = FALSE
    /\ UNCHANGED <<disk, renewer, age, caAlg, token, outage, moved>>

\* The file a step writes.
fileOf == [stageKey |-> "key", stageCSR |-> "csr", writeKey |-> "key", writeCA |-> "ca"]

\* os.WriteFile of one file, the last step of `from`, going on at `next`.
WriteFile(from, next, file, data) ==
    /\ enroll.pc = from
    /\ disk' = [disk EXCEPT ![file] = data]
    /\ enroll' = [enroll EXCEPT !.pc = next]
    /\ UNCHANGED <<renewer, age, caAlg, token, rejected, outage, moved>>

\* The write stops half-way: the command fails or dies with it.
TearFile(from) ==
    /\ enroll.pc = from
    /\ disk' = [disk EXCEPT ![fileOf[from]] = Torn]
    /\ enroll' = Idle
    /\ UNCHANGED <<renewer, age, caAlg, token, rejected, outage, moved>>

StageKey == WriteFile("stageKey", "stageCSR", "key", enroll.key)
StageCSR == WriteFile("stageCSR", "call", "csr", enroll.key)

\* The Enroll RPC on the staged CSR.  A fresh token is consumed by it, a token
\* it has consumed before is replayed, any other is refused.  The answer may be
\* lost; without the trusted CA there is no handshake at all.
CallEnroll ==
    /\ enroll.pc = "call"
    /\ IF Reachable /\ enroll.ca = caAlg /\ token \in {Absent, disk.csr}
       THEN /\ token' = disk.csr /\ rejected' = FALSE
            /\ \E lost \in BOOLEAN :
                 enroll' = IF lost THEN Idle ELSE [enroll EXCEPT !.pc = "writeKey"]
       ELSE /\ rejected' = (Reachable /\ enroll.ca = caAlg)
            /\ enroll' = Idle
            /\ UNCHANGED token
    /\ UNCHANGED <<disk, renewer, age, caAlg, outage, moved>>

\* write: the key again, the CA bundle and the agent id, the certificate last.
WriteKey  == WriteFile("writeKey", "writeCA", "key", enroll.key)
WriteCA   == WriteFile("writeCA", "writeCert", "ca", <<enroll.ca, 0>>)
WriteCert ==
    /\ enroll.pc = "writeCert"
    /\ disk' = [disk EXCEPT !.crt = token]
    /\ age' = 0 /\ outage' = Healthy
    /\ enroll' = [enroll EXCEPT !.pc = "unstage"]
    /\ UNCHANGED <<renewer, caAlg, token, rejected, moved>>
Unstage   == WriteFile("unstage", "idle", "csr", Absent)

\* A step fails cleanly, or the command is killed before it.
EnrollDies ==
    /\ enroll.pc # "idle"
    /\ enroll' = Idle
    /\ UNCHANGED <<disk, renewer, age, caAlg, token, rejected, outage, moved>>

\* The command returns: nothing of it remains in memory.
EnrollReturns ==
    /\ enroll.pc = "idle" /\ enroll # Idle
    /\ enroll' = Idle
    /\ UNCHANGED <<disk, renewer, age, caAlg, token, rejected, outage, moved>>

\* Dir: the directory is moved aside under a fresh name, leaving none.
retiredFiles == NoFiles

\* identity retire moves the directory aside; the operator brings a new token.
IdentityRetire ==
    /\ enroll = Idle /\ renewer.pc = "off" /\ disk # NoFiles
    /\ disk' = retiredFiles /\ age' = 0 /\ token' = Absent /\ rejected' = FALSE
    /\ outage' = Healthy /\ moved' = FALSE
    /\ UNCHANGED <<enroll, renewer, caAlg>>

\* The operator answers a refusal with a new token.
NewToken ==
    /\ enroll = Idle /\ rejected
    /\ token' = Absent /\ rejected' = FALSE /\ moved' = FALSE
    /\ UNCHANGED <<disk, enroll, renewer, age, caAlg, outage>>

\* The server is cut over to another CA (`ca retire`, `ca init`).
Cutover ==
    /\ caAlg' \in Algs \ {caAlg}
    /\ moved' = (token # Absent)
    /\ UNCHANGED <<disk, enroll, renewer, age, token, rejected, outage>>

-----------------------------------------------------------------------------
(* The Renewer.                                                            *)

renewAtFor(v) == (v * 2) \div 3

Least(a, b)    == IF a < b THEN a ELSE b
Greatest(a, b) == IF a > b THEN a ELSE b

retryIntervalFor(v) == Least(Day, Greatest(HalfMinute, v \div 20))

\* jitterPct: five percent either way, at least a tick.
jitterPct(d) == Greatest(1, d - d \div 20)..(d + (d + 19) \div 20)

\* cmdRun: the uplink is built from the enrolled files, the Renewer starts.
Start ==
    /\ renewer.pc = "off" /\ enroll = Idle /\ Enrolled /\ Loads
    /\ renewer' = [pc |-> "sleep", wait |-> 0, hit |-> FALSE]
    /\ UNCHANGED <<disk, enroll, age, caAlg, token, rejected, outage, moved>>

\* The process ends, at any point of the loop.
Stop ==
    /\ renewer.pc # "off"
    /\ renewer' = Off
    /\ UNCHANGED <<disk, enroll, age, caAlg, token, rejected, outage, moved>>

\* Run re-reads the leaf: before the renewal point it sleeps on, else it calls.
Wake ==
    /\ renewer.pc = "sleep" /\ renewer.wait = 0
    /\ LET wait == renewAtFor(Validity) - age
       IN  IF wait > 0
           THEN \E w \in jitterPct(wait) :
                  renewer' = [renewer EXCEPT !.wait = w]
           ELSE renewer' = [pc |-> "rpc", wait |-> RenewTimeout, hit |-> ~Reachable]
    /\ UNCHANGED <<disk, enroll, age, caAlg, token, rejected, outage, moved>>

\* The server must be the one the agent trusts and takes no expired certificate.
Renewable == disk.ca = <<caAlg, 0>> /\ age <= Validity

\* renewOnce succeeds: the certificate is for the same key, CommitRenewal swaps
\* the CA bundle and then agent.crt, Recycle redials with it.
RenewOk ==
    /\ renewer.pc = "rpc" /\ ~renewer.hit /\ Renewable
    /\ disk' = [disk EXCEPT !.ca = <<caAlg, 0>>, !.crt = disk.key]
    /\ age' = 0 /\ outage' = (IF outage.st = "past" THEN Healthy ELSE outage)
    /\ renewer' = [pc |-> "sleep", wait |-> 0, hit |-> FALSE]
    /\ UNCHANGED <<enroll, caAlg, token, rejected, moved>>

\* renewOnce fails: retried on the interval the lifetime calls for.
RenewFails ==
    /\ renewer.pc = "rpc" /\ (renewer.hit \/ ~Renewable)
    /\ \E w \in jitterPct(retryIntervalFor(Validity)) :
         renewer' = [pc |-> "sleep", wait |-> w, hit |-> FALSE]
    /\ UNCHANGED <<disk, enroll, age, caAlg, token, rejected, outage, moved>>

OutageBegins ==
    /\ outage.st = "ahead"
    /\ outage' = [st |-> "now", left |-> MaxOutage]
    /\ renewer' = [renewer EXCEPT !.hit = (renewer.pc = "rpc")]
    /\ UNCHANGED <<disk, enroll, age, caAlg, token, rejected, moved>>

OutageEnds ==
    /\ outage.st = "now"
    /\ outage' = [st |-> "past", left |-> 0]
    /\ UNCHANGED <<disk, enroll, renewer, age, caAlg, token, rejected, moved>>

\* A tick passes for the running agent; what is due happens before it.
RenewerTick ==
    /\ renewer.pc # "off" /\ renewer.wait > 0
    /\ outage.st = "now" => outage.left > 0
    /\ renewer' = [renewer EXCEPT !.wait = @ - 1]
    /\ age' = Least(age + 1, Validity + 1)
    /\ outage' = [outage EXCEPT !.left = IF outage.st = "now" THEN @ - 1 ELSE @]
    /\ UNCHANGED <<disk, enroll, caAlg, token, rejected, moved>>

IdentityNext ==
    \/ EnrollBegin \/ StageKey \/ StageCSR \/ CallEnroll
    \/ WriteKey \/ WriteCA \/ WriteCert \/ Unstage
    \/ \E step \in TornFiles : TearFile(step)
    \/ EnrollDies \/ EnrollReturns \/ IdentityRetire \/ NewToken \/ Cutover
    \/ Start \/ Stop \/ Wake \/ RenewOk \/ RenewFails
    \/ OutageBegins \/ OutageEnds \/ RenewerTick

IdentitySpec == IdentityInit /\ [][IdentityNext]_identityVars

-----------------------------------------------------------------------------
(* An enrolled directory is one the agent can start from: whatever crash,  *)
(* full disk, lost answer or CA cutover preceded it, agent.crt belongs to  *)
(* agent.key and the CA bundle is whole (ClientTLS, "enrolling a           *)
(* certificate that does not match our key" of stageKeyAndCSR).            *)
EnrolledLoads == Enrolled => Loads

(* "The enrollment can simply be retried" (the comment on PKI.write): once *)
(* the server has consumed the token for this agent's CSR and no           *)
(* certificate file exists, the staged pair is still the one the server    *)
(* will replay, so long as the server keeps its CA.                        *)
EnrollmentRetryable ==
    (token # Absent /\ ~moved /\ ~Enrolled) =>
        /\ parseStagedPair(caAlg)
        /\ disk.csr = token

(* A running agent never lets its certificate expire while the server      *)
(* keeps the CA it enrolled under and no outage lasts longer than          *)
(* MaxOutage: the renewal point, the jitter and the retry cadence of       *)
(* renew.go leave room for it.                                             *)
RenewedInTime ==
    (renewer.pc # "off" /\ ~moved) => age <= Validity

(* An enrolled agent's identity works, at its start and for as long as it  *)
(* runs.                                                                   *)
IdentityLasts == EnrolledLoads /\ RenewedInTime

=============================================================================
