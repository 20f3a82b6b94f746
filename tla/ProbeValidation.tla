-------------------------- MODULE ProbeValidation --------------------------
(***************************************************************************)
(* What the server accepts as a probe, and what the agent then makes of    *)
(* it.  Server side: validateProbeRequest and the handlers of              *)
(* internal/server/httpapi/probeconfig.go, the registry and the validators *)
(* of internal/server/probeadmin/probeadmin.go, the expansion of           *)
(* internal/server/meshexpand/meshexpand.go.  Agent side: the parameter    *)
(* handling at the head of every prober in internal/agent/probes.  The two *)
(* are written in two places and "kept in lockstep" by hand.               *)
(*                                                                         *)
(* A duration counts units of 100 ms and wraps at 2 * DurationLimit.  A    *)
(* parameter's text is a string; what strconv.Atoi, fmt.Sscanf and         *)
(* strings.ToUpper make of the texts an instance uses is tabulated.        *)
(***************************************************************************)
EXTENDS Integers, Sequences, FiniteSets

CONSTANTS
    Requests,       \* the request bodies the operator may send
    DurationLimit   \* 2^63 of time.Duration, scaled down

ASSUME ValidationAssumption ==
    /\ DurationLimit \in Nat \ {0}
    /\ \A in \in Requests : {in.interval, in.timeout, in.count, in.spacing} \subseteq Int

VARIABLE row    \* the probe_configs row, <<>> when there is none

-----------------------------------------------------------------------------
(* Texts, and the conversions of the Go library.                           *)

\* strconv.Atoi accepts a sign, fmt.Sscanf("%d") into a uint32 does not and
\* leaves the variable at zero.
Unsigned == {"0", "4", "5", "67", "80", "200", "1400", "1500", "9216", "9217", "65536"}
Signed   == {"+80", "+1400", "-1"}

Atoi(t) ==
    CASE t = "0" -> 0 [] t = "4" -> 4 [] t = "5" -> 5 [] t = "67" -> 67 [] t = "80" -> 80
      [] t = "200" -> 200 [] t = "1400" -> 1400 [] t = "1500" -> 1500 [] t = "9216" -> 9216
      [] t = "9217" -> 9217 [] t = "65536" -> 65536
      [] t = "+80" -> 80 [] t = "+1400" -> 1400 [] t = "-1" -> -1
IsAtoi(t)  == t \in Unsigned \cup Signed
Sscanf(t)  == IF t \in Unsigned THEN Atoi(t) ELSE 0

ToUpper(t) == CASE t = "a" -> "A" [] t = "nxdomain" -> "NXDOMAIN" [] OTHER -> t

BlankText(t)  == t \in {"", " "}
Spaced(t) == t \in {" ", "GET /"}

\* params[key]: the empty string when the key is not there.
Param(params, key) == IF key \in DOMAIN params THEN params[key] ELSE ""

\* int64 arithmetic on durations.
Wrap(n) == ((n + DurationLimit) % (2 * DurationLimit)) - DurationLimit

-----------------------------------------------------------------------------
(* The server's rules.                                                     *)

DefaultTrainCount   == 10
DefaultTrainSpacing == 2
DefaultMTUMin == 1280
DefaultMTUMax == 1500
MTUFloor == 68
MTUCeil  == 9216

dnsQTypes == {"A", "AAAA", "CNAME", "MX", "NS", "PTR", "SOA", "SRV", "TXT"}
dnsRcodes == {"NOERROR", "FORMERR", "SERVFAIL", "NXDOMAIN", "NOTIMPL", "REFUSED"}

trainType(type) == type = "icmp"

\* Variant: only the train the operator wrote down is budgeted.
ValidateSettingsExplicit(type, in) ==
    /\ in.interval > 0 /\ in.timeout > 0 /\ in.timeout < in.interval
    /\ in.count >= 0 /\ in.spacing >= 0
    /\ in.spacing > 0 => in.count > 0
    /\ in.count > 0 =>
         Wrap(in.count * (IF in.spacing = 0 THEN DefaultTrainSpacing ELSE in.spacing))
             < in.timeout

\* ValidateSettings: the cadence, and a train that fits inside the timeout,
\* the one the prober substitutes for a zero count included.
ValidateSettings(type, in) ==
    /\ in.interval > 0 /\ in.timeout > 0 /\ in.timeout < in.interval
    /\ in.count >= 0 /\ in.spacing >= 0
    /\ in.spacing > 0 => in.count > 0
    /\ in.count > 0 =>
         Wrap(in.count * (IF in.spacing = 0 THEN DefaultTrainSpacing ELSE in.spacing))
             < in.timeout
    /\ (in.count = 0 /\ trainType(type)) =>
         DefaultTrainCount * DefaultTrainSpacing < in.timeout

\* registry: the keys a type takes.  The port is a mesh template's only.
registry(type) ==
    CASE type = "tcp"      -> {"port"}
      [] type = "tls"      -> {"port", "tls.sni", "tls.insecure_skip_verify"}
      [] type = "http"     -> {"http.method", "http.expect_status",
                               "http.insecure_skip_verify"}
      [] type = "dns"      -> {"dns.qname", "dns.qtype", "dns.expect_rcode", "dns.resolver"}
      [] type = "path_mtu" -> {"mtu.min", "mtu.max", "mtu.family"}
      [] OTHER             -> {}

meshOnly == {"port"}

required(type, mesh) ==
    {k \in registry(type) : k = "dns.qname" \/ (k = "port" /\ mesh)}

DirectOnly(type) == type \in {"http", "ntp"}

IntegerWithin(t, low, high) == IsAtoi(t) /\ Atoi(t) >= low /\ Atoi(t) <= high

\* validateValue: one rule per kind of parameter.
validateValue(key, t) ==
    CASE key = "port" -> IntegerWithin(t, 1, 65535)
      [] key \in {"mtu.min", "mtu.max"} -> IntegerWithin(t, MTUFloor, MTUCeil)
      [] key = "mtu.family"             -> ToUpper(t) \in {"4", "6"}
      [] key = "dns.qtype"              -> ToUpper(t) \in dnsQTypes
      [] key = "dns.expect_rcode"       -> ToUpper(t) \in dnsRcodes
      [] key = "http.expect_status"     -> t \in {"200", "2xx"}
      [] key \in {"tls.insecure_skip_verify", "http.insecure_skip_verify"} ->
             t \in {"true", "false"}
      [] key = "http.method"            -> ~BlankText(t) /\ ~Spaced(t)
      [] OTHER                          -> ~BlankText(t)

\* The bounds the search of a path_mtu probe would run between.
Effective(params, key, default) ==
    IF Param(params, key) # "" /\ IsAtoi(Param(params, key))
    THEN Atoi(Param(params, key)) ELSE default

\* ValidateParams: a key the type takes, in a place it is taken, with a value
\* of its kind; nothing required missing; an empty search range refused.
ValidateParams(type, mesh, params) ==
    /\ mesh => ~DirectOnly(type)
    /\ DOMAIN params \subseteq registry(type)
    /\ ~mesh => DOMAIN params \cap meshOnly = {}
    /\ \A k \in DOMAIN params : validateValue(k, params[k])
    /\ \A k \in required(type, mesh) : Param(params, k) # ""
    /\ type = "path_mtu" =>
         Effective(params, "mtu.min", DefaultMTUMin)
             < Effective(params, "mtu.max", DefaultMTUMax)

validateProbeRequest(in, type, mesh) ==
    ValidateSettings(type, in) /\ ValidateParams(type, mesh, in.params)

-----------------------------------------------------------------------------
(* From the row to the agent.                                              *)

settings(in, type, mesh) ==
    [type |-> type, mesh |-> mesh, interval |-> in.interval, timeout |-> in.timeout,
     count |-> in.count, spacing |-> in.spacing, params |-> in.params]

meshPort(params) == Sscanf(Param(params, "port"))

\* BuildSnapshot and spec: a peer's port is the template's.  A direct probe's
\* port and URL are those of its target row; no rule compares them with the
\* type, and here the operator names a target of the right kind.  The train is
\* forwarded only when it has a count.
spec(ps) ==
    [type     |-> ps.type,
     port     |-> IF ps.mesh THEN meshPort(ps.params) ELSE 443,
     url      |-> ~ps.mesh,
     interval |-> ps.interval,
     timeout  |-> ps.timeout,
     count    |-> IF ps.count > 0 THEN ps.count ELSE 0,
     spacing  |-> IF ps.count > 0 THEN ps.spacing ELSE 0,
     params   |-> ps.params]

-----------------------------------------------------------------------------
(* The probers.                                                            *)

\* The keys Run reads, and the one meshPort reads for it.
Reads(type, mesh) ==
    (IF mesh THEN {"port"} ELSE {}) \cup
    CASE type = "tls"      -> {"tls.sni", "tls.insecure_skip_verify"}
      [] type = "http"     -> {"http.method", "http.expect_status",
                               "http.insecure_skip_verify"}
      [] type = "dns"      -> {"dns.qname", "dns.qtype", "dns.expect_rcode", "dns.resolver"}
      [] type = "path_mtu" -> {"mtu.min", "mtu.max", "mtu.family"}
      [] OTHER             -> {}

effCount(s)   == IF s.count <= 0 THEN DefaultTrainCount ELSE s.count
effSpacing(s) == IF s.spacing <= 0 THEN DefaultTrainSpacing ELSE s.spacing

\* ICMP: echo n leaves after n - 1 spacings, unless the deadline passed.
IcmpSent(s) == Cardinality({n \in 1..effCount(s) : (n - 1) * effSpacing(s) < s.timeout})

\* DNS: the checks before the exchange.
DnsParamsOK(params) ==
    LET qtype == ToUpper(Param(params, "dns.qtype"))
        rcode == ToUpper(Param(params, "dns.expect_rcode"))
    IN  /\ Param(params, "dns.qname") # ""
        /\ qtype # "" => qtype \in dnsQTypes
        /\ rcode # "" => rcode \in dnsRcodes

\* HTTP: a method net/http takes, a URL, and a status some answer can have.
\* statusMatches knows a class by its two lower-case x.
HttpParamsOK(s) ==
    LET method == Param(s.params, "http.method")
        status == Param(s.params, "http.expect_status")
    IN  /\ s.url
        /\ ~Spaced(method)
        /\ status # "" => status \in {"200", "2xx"}

\* pmtuParams: the prober checks the range again.
pmtuParamsOK(params) ==
    LET min == IF "mtu.min" \in DOMAIN params THEN params["mtu.min"] ELSE "1280"
        max == IF "mtu.max" \in DOMAIN params THEN params["mtu.max"] ELSE "1500"
        lo  == Effective(params, "mtu.min", DefaultMTUMin)
        hi  == Effective(params, "mtu.max", DefaultMTUMax)
    IN  /\ "mtu.min" \in DOMAIN params => IsAtoi(min)
        /\ "mtu.max" \in DOMAIN params => IsAtoi(max)
        /\ lo \in MTUFloor..MTUCeil /\ hi \in MTUFloor..MTUCeil /\ lo < hi
        /\ Param(params, "mtu.family") \in {"", "4", "6"}

\* Whether Run gets past its own configuration errors.
Runs(s) ==
    /\ s.interval > 0
    /\ CASE s.type \in {"tcp", "tls"} -> s.port # 0
         [] s.type = "icmp"           -> IcmpSent(s) = effCount(s)
         [] s.type = "dns"            -> DnsParamsOK(s.params)
         [] s.type = "http"           -> HttpParamsOK(s)
         [] s.type = "path_mtu"       -> pmtuParamsOK(s.params)
         [] OTHER                     -> TRUE

-----------------------------------------------------------------------------
(* The operations.                                                         *)

ValidationInit == row = <<>>

\* handleProbePost: one place, spelled completely; then the shared rules.
PostProbe(in) ==
    /\ row = <<>>
    /\ in.type # ""
    /\ in.place \in {{"mesh"}, {"site", "target"}, {"site", "target", "network"}}
    /\ validateProbeRequest(in, in.type, "mesh" \in in.place)
    /\ row' = settings(in, in.type, "mesh" \in in.place)

\* handleProbePut: what the probe is and where it runs is fixed; everything
\* else is replaced by the body, a field left out of it by its zero.
PutProbe(in) ==
    /\ row # <<>>
    /\ in.type \in {"", row.type}
    /\ in.place \subseteq IF row.mesh THEN {"mesh", "network"} ELSE {"site", "target", "network"}
    /\ validateProbeRequest(in, row.type, row.mesh)
    /\ row' = settings(in, row.type, row.mesh)

DeleteProbe ==
    /\ row # <<>>
    /\ row' = <<>>

ValidationNext ==
    \/ \E in \in Requests : PostProbe(in)
    \/ \E in \in Requests : PutProbe(in)
    \/ DeleteProbe

ValidationSpec == ValidationInit /\ [][ValidationNext]_row

-----------------------------------------------------------------------------
(* Properties.                                                             *)

\* Two gaps the rules have: a signed port passes Atoi and not Sscanf, and a
\* train longer than a duration can hold passes as a short one.
SignedPort(ps) == Param(ps.params, "port") \in Signed
HugeTrain(ps)  == effCount(ps) * effSpacing(ps) >= DurationLimit

\* What validateProbeRequest accepted, the agent can run: no configuration
\* error on every run, no connection to port 0, no train whose tail the
\* timeout cuts off, no key nobody reads, no spacing silently replaced.
AcceptedProbeRuns ==
    (row # <<>> /\ ~SignedPort(row) /\ ~HugeTrain(row)) =>
        /\ Runs(spec(row))
        /\ DOMAIN row.params \subseteq Reads(row.type, row.mesh)
        /\ row.spacing > 0 => effSpacing(spec(row)) = row.spacing

=============================================================================
