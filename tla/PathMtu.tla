------------------------------ MODULE PathMtu ------------------------------
(***************************************************************************)
(* One run of the path MTU prober: echo requests of chosen sizes, replies  *)
(* that come in time, late or never, and the search that folds them.       *)
(* Code: internal/agent/probes/pathmtu.go (Run, fold, pmtuFinalize and     *)
(* pmtuSearch), icmpReadSession of internal/agent/probes/icmpsession.go.   *)
(*                                                                         *)
(* The path is external: a local interface and routers, each with an MTU;  *)
(* a router that cannot forward a packet says so with its MTU, says so     *)
(* without it, or says nothing.  It is the same throughout the run.        *)
(* Sequence numbers, tokens and RTTs are left out: a reply names the size  *)
(* it answers.  Sizes are small; only their order matters.                 *)
(***************************************************************************)
EXTENDS Integers, FiniteSets

CONSTANTS
    MinSize, MaxSize,   \* mtu.min, mtu.max
    MtuFloor,           \* mtuFloor, ipv6MinMTU: advertised MTUs below are ignored
    Mtus,               \* MTUs of the routers tried
    Locals,             \* MTUs of the local interface tried
    Retries             \* pmtuRetriesPerSize

ASSUME PathMtuAssumption ==
    /\ MinSize \in Nat \ {0} /\ MaxSize \in Nat /\ MinSize < MaxSize
    /\ Mtus \subseteq Nat /\ Locals \subseteq Nat
    /\ MtuFloor \in Nat /\ Retries \in Nat \ {0}

VARIABLES
    path,       \* the local MTU and the routers in order: MTU, manners
    search,     \* pmtuSearch
    cur,        \* size under test, 0 between sizes
    attempt,    \* sends of it so far
    late,       \* sizes with a reply still under way
    missed,     \* history: a size fell silent although the path answers it
    over        \* Run has left its loop

pathMtuVars == <<path, search, cur, attempt, late, missed, over>>

Sizes    == MinSize..MaxSize
Manners  == {"advertises", "refuses", "silent"}
Routers  == [mtu : Mtus, manners : Manners]

newPMTUSearch ==
    [lo |-> 0, hi |-> MaxSize + 1, cause |-> "none", tested |-> {},
     nextHopMTU |-> 0, override |-> 0, advConfirmed |-> FALSE]

PathMtuTypeOK ==
    /\ path \in [local : Locals, first : Routers, second : Routers]
    /\ search \in [lo : 0..MaxSize, hi : MinSize..(MaxSize + 1),
                   cause : {"none", "tooBig", "silent", "local"},
                   tested : SUBSET Sizes, nextHopMTU : Mtus \cup {0},
                   override : Mtus \cup {0}, advConfirmed : BOOLEAN]
    /\ cur \in Sizes \cup {0} /\ attempt \in 0..Retries /\ late \subseteq Sizes
    /\ missed \in BOOLEAN /\ over \in BOOLEAN

PathMtuInit ==
    /\ path \in [local : Locals, first : Routers, second : Routers]
    /\ search = newPMTUSearch /\ cur = 0 /\ attempt = 0 /\ late = {}
    /\ missed = FALSE /\ over = FALSE

-----------------------------------------------------------------------------
(* The network.                                                            *)

Refusal(r) == CASE r.manners = "advertises" -> [v |-> "tooBig", adv |-> r.mtu]
                [] r.manners = "refuses"    -> [v |-> "tooBig", adv |-> 0]
                [] OTHER                    -> [v |-> "silent", adv |-> 0]

\* What a send of this size meets.
Answer(size) ==
    IF size > path.local THEN [v |-> "local", adv |-> 0]
    ELSE IF size > path.first.mtu THEN Refusal(path.first)
    ELSE IF size > path.second.mtu THEN Refusal(path.second)
    ELSE [v |-> "ok", adv |-> 0]

Answered(size) == Answer(size).v \in {"ok", "tooBig"}

-----------------------------------------------------------------------------
(* pmtuSearch.                                                             *)

done(s) == s.lo >= MaxSize \/ s.hi <= MinSize \/ s.hi - s.lo <= 1 \/ s.advConfirmed

mid(s) == (s.lo + s.hi) \div 2

\* next: the largest size, an advertised one, the smallest, then bisect; 0 when
\* the search is over or nothing new can be learned.
next(s) ==
    CASE done(s) -> 0
      [] ~done(s) /\ MaxSize \notin s.tested -> MaxSize
      [] ~done(s) /\ MaxSize \in s.tested
           /\ s.override > s.lo /\ s.override < s.hi /\ s.override \notin s.tested -> s.override
      [] OTHER -> IF s.lo = 0 /\ MinSize \notin s.tested THEN MinSize
                  ELSE LET m == mid(s)
                       IN  IF m \in s.tested \/ m <= s.lo \/ m >= s.hi THEN 0 ELSE m

\* Variant: any size that passes below a refused one ends the search.
recordOKConfirms(s, size) ==
    IF size > s.lo /\ size < s.hi
    THEN [s EXCEPT !.lo = size, !.advConfirmed = @ \/ s.cause = "tooBig"]
    ELSE s

\* An OK answer raises the lower bound; the advertised MTU itself passing ends
\* the search.
recordOK(s, size) ==
    IF size > s.lo /\ size < s.hi
    THEN [s EXCEPT !.lo = size,
                   !.advConfirmed = @ \/ (s.cause = "tooBig" /\ size = s.nextHopMTU)]
    ELSE s

\* A failure lowers the upper bound and says why.
lower(s, size, why) ==
    IF size < s.hi THEN [s EXCEPT !.hi = size, !.cause = why] ELSE s

\* A plausible advertised MTU is remembered, and tested next if it may be.
advertised(s, size, adv) ==
    IF adv >= MtuFloor /\ adv < size /\ (s.nextHopMTU = 0 \/ adv < s.nextHopMTU)
    THEN [s EXCEPT !.nextHopMTU = adv,
                   !.override = IF adv >= MinSize THEN adv ELSE @]
    ELSE s

record(s, size, verdict, adv) ==
    LET t == [s EXCEPT !.tested = @ \cup {size}]
    IN  CASE verdict = "ok"     -> recordOK(t, size)
          [] verdict = "tooBig" -> advertised(lower(t, size, "tooBig"), size, adv)
          [] OTHER              -> lower(t, size, verdict)

-----------------------------------------------------------------------------
(* Run.                                                                    *)

Resolve(verdict, adv) ==
    /\ search' = record(search, cur, verdict, adv)
    /\ cur' = 0 /\ attempt' = 0

\* The next size is sent for the first time; a send the interface refuses
\* (EMSGSIZE) settles it.
SendFirst ==
    /\ cur = 0 /\ ~over /\ next(search) # 0
    /\ IF Answer(next(search)).v = "local"
       THEN search' = record(search, next(search), "local", 0)
            /\ UNCHANGED <<cur, attempt>>
       ELSE /\ cur' = next(search) /\ attempt' = 1
            /\ UNCHANGED search
    /\ UNCHANGED <<path, late, missed, over>>

\* The reply to the size under test comes within the wait: fold resolves it.
ReplyInTime ==
    /\ cur # 0 /\ Answered(cur)
    /\ Resolve(Answer(cur).v, Answer(cur).adv)
    /\ UNCHANGED <<path, late, missed, over>>

\* A reply to an earlier size comes while this one is waited for: fold puts it
\* straight into the search.
LateReply ==
    /\ cur # 0
    /\ \E size \in late \ {cur} :
         /\ search' = record(search, size, Answer(size).v, Answer(size).adv)
         /\ late' = late \ {size}
    /\ UNCHANGED <<path, cur, attempt, missed, over>>

\* The wait ends without a reply (there is none, it was lost, or it is late):
\* sent again, or silent after the last time.
WaitEnds ==
    /\ cur # 0
    /\ \E l \in {late} \cup (IF Answered(cur) THEN {late \cup {cur}} ELSE {}) :
         late' = l
    /\ IF attempt < Retries
       THEN attempt' = attempt + 1 /\ UNCHANGED <<search, cur, missed>>
       ELSE /\ Resolve("silent", 0)
            /\ missed' = (missed \/ Answered(cur))
    /\ UNCHANGED <<path, over>>

\* The loop ends: nothing left to test, or the deadline came first.
LoopEnds ==
    /\ ~over /\ cur = 0 /\ next(search) = 0
    /\ over' = TRUE /\ late' = {}
    /\ UNCHANGED <<path, search, cur, attempt, missed>>

Deadline ==
    /\ ~over /\ next(search) # 0
    /\ over' = TRUE /\ cur' = 0 /\ attempt' = 0 /\ late' = {}
    /\ UNCHANGED <<path, search, missed>>

PathMtuNext ==
    SendFirst \/ ReplyInTime \/ LateReply \/ WaitEnds \/ LoopEnds \/ Deadline

PathMtuSpec == PathMtuInit /\ [][PathMtuNext]_pathMtuVars

\* pmtuFinalize: the status classification.
Status ==
    LET blackHole == done(search) /\ search.lo > 0 /\ search.cause = "silent"
        local     == search.cause = "local"
    IN  CASE ~done(search)                                      -> "didNotConverge"
          [] done(search) /\ local /\ search.lo = 0             -> "localTooSmall"
          [] blackHole                                          -> "blackHole"
          [] done(search) /\ search.lo = 0 /\ search.cause = "tooBig" -> "pathTooSmall"
          [] done(search) /\ search.lo = 0 /\ search.cause = "silent" -> "noReply"
          [] OTHER                                              -> "ok"

-----------------------------------------------------------------------------
Smallest(S) == CHOOSE m \in S : \A n \in S : m <= n

\* What the path carries end to end.
PathMTU == Smallest({path.local, path.first.mtu, path.second.mtu})
Carried == IF PathMTU > MaxSize THEN MaxSize ELSE PathMTU

\* The router that stops the smallest size the path does not carry.
Bottleneck == IF path.first.mtu = PathMTU THEN path.first ELSE path.second

(* What a finished run reports of a stable path is true, in whatever order *)
(* replies come, unless every send of one size went unanswered in time: OK *)
(* names the exact MTU, also when the search stopped at an advertised      *)
(* value; a suspected black hole has a silent router exactly there; a      *)
(* minimum that cannot be sent, or does not pass, really cannot or does    *)
(* not (pmtuFinalize, done, "late or contradictory replies are safe to     *)
(* fold in any order").                                                    *)
ResultIsTrue ==
    (over /\ ~missed) =>
        CASE Status = "ok"            -> search.lo = Carried
          [] Status = "blackHole"     -> search.lo = PathMTU /\ Bottleneck.manners = "silent"
          [] Status = "localTooSmall" -> path.local < MinSize
          [] Status = "pathTooSmall"  -> PathMTU < MinSize
          [] Status = "noReply"       -> PathMTU < MinSize
          [] OTHER                    -> TRUE

\* bits.Len.
BitLen(n) == CHOOSE k \in 0..16 : 2^k > n /\ (k = 0 \/ 2^(k - 1) <= n)

(* "At most ~log2(max-min)+2 sizes are ever tested, never a scan" (the     *)
(* comment on pmtuSearch), whatever the routers advertise and whichever    *)
(* replies are late: one more size for each of the two routers that may    *)
(* advertise an MTU the test of which is lost.                             *)
NeverAScan == Cardinality(search.tested) <= BitLen(MaxSize - MinSize) + 2 + 2

(* The search (next, record, done of pmtuSearch) is right and cheap.       *)
SearchIsSound == ResultIsTrue /\ NeverAScan

=============================================================================
