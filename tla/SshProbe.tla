------------------------------- MODULE SshProbe -------------------------------
(***************************************************************************)
(* The SSH client (common/clients/sshclient): a connection that tries      *)
(* passwords in turn, how its errors are classified, and the two questions *)
(* that detectors ask of a service.                                        *)
(*                                                                         *)
(* What listens on a port treats SSH as one of                             *)
(*   "none"       no SSH                                                   *)
(*   "keysOnly"   SSH without the method "password"                        *)
(*   "sshd"       SSH that accepts the credentials in accepts              *)
(*   "musl"       the same, and root with a long password that is the      *)
(*                second one of its connection                             *)
(*   "acceptAll"  any password                                             *)
(***************************************************************************)
EXTENDS Netservice

\* The passwords of the probes.
probePassword == "invalidProbe"
longA == "AAA"
longB == "BBB"
shortProbePassword == "invalidShort"

targetUser == "root"
probeUser == "goonami-ssh-probe"

\* Whether the server accepts the k-th password of a connection.
Accepts(n, user, pw, k) ==
  \/ n.ssh = "acceptAll"
  \/ n.ssh \in {"sshd", "musl"} /\ <<user, pw>> \in n.accepts
  \/ n.ssh = "musl" /\ user = targetUser /\ pw \in {longA, longB} /\ k >= 2

\* ConnectWithPasswords: how the handshake ends, undisturbed.  The password
\* callback gives up if the method is not offered and when it has offered all.
ConnectWithPasswords(n, user, pws) ==
  CASE ~n.open -> "refused"
    [] n.ssh = "none" -> "noVersion"
    [] n.ssh = "keysOnly" -> "unsupported"
    [] \E k \in DOMAIN pws : Accepts(n, user, pws[k], k) -> "connected"
    [] OTHER -> "rejected"

\* How it can end when it is disturbed: the peer or the network drops it, the
\* client's timeout passes, or the server has had too many failures.
Disturbed == {"eof", "refused", "reset", "timeout", "tooMany"}

\* ClassifyError: the sentinel for each way to fail; other errors are returned
\* as they are.
ClassifyError(raw) ==
  CASE raw \in {"eof", "refused", "noVersion"} -> "ErrNotSSHService"
    [] raw = "unsupported" -> "ErrPasswordAuthUnsupported"
    [] raw \in {"rejected", "tooMany"} -> "ErrAuthFailed"
    [] OTHER -> raw

\* isCandidateServiceName.
isCandidateServiceName(name) == name \in {"", "unknown", "ssh"}

\* The SSH detector's Handler: whether the service is worth a probe, whether
\* the probe's answer shows password authentication, and whether a credential
\* was accepted; every error but the caller's is a no.
WorthProbing(s) ==
  ~IsWebService(s) /\ OverTCP(s) /\ isCandidateServiceName(s.name)

ShowsPasswords(raw) == raw = "connected" \/ ClassifyError(raw) = "ErrAuthFailed"

Matched(raw) == raw = "connected"

\* tryPassword of the bypass detector: three sentinels mean no, other errors
\* are errors.
NotAccepted(raw) ==
  ClassifyError(raw) \in {"ErrAuthFailed", "ErrPasswordAuthUnsupported", "ErrNotSSHService"}

\* What isVulnerable does with the outcome of its k-th probe.
Verdict_NoShortProbe(k, raw) ==
  CASE raw # "connected" /\ ~NotAccepted(raw) -> "error"
    [] k < 3 -> IF raw = "connected" THEN (IF k = 2 THEN "vulnerable" ELSE "go on") ELSE "safe"
    [] OTHER -> "vulnerable"
Verdict(k, raw) ==
  CASE raw # "connected" /\ ~NotAccepted(raw) -> "error"
    [] k < 3 -> IF raw = "connected" THEN "go on" ELSE "safe"
    [] OTHER -> IF raw = "connected" THEN "safe" ELSE "vulnerable"

ProbeOf(k) == <<longA, longB, shortProbePassword>>[k]
=============================================================================
