------------------------------- MODULE PortScan -------------------------------
(***************************************************************************)
(* The port scanners: ps/nmap with the nmap client (common/clients/nmap),  *)
(* ps/httpscan and ps/noop.  One Scan of one target.                       *)
(*                                                                         *)
(* The target is the sequence of what listens on its ports, records with   *)
(* the fields                                                              *)
(*   open    whether a connection is accepted                              *)
(*   plain   the status it answers a plain GET with, 0 for no answer       *)
(*   http    whether it speaks HTTP, over TLS if tls is TRUE               *)
(*   tls     whether it accepts a TLS handshake                            *)
(*   ssh     how it treats SSH passwords, see SshProbe                     *)
(* The address of a target may have a reverse name, ptr if it is not "",   *)
(* with which nmap reports it: ptrHost is what listens on the ports there, *)
(* the target itself, nothing, or another host.                            *)
(* nmap is a program outside of this system: what it writes follows the    *)
(* target, unless it fails.                                                *)
(***************************************************************************)
EXTENDS Netservice, FiniteSets

CONSTANTS
  Setups,     \* the settings and targets looked at
  MaxFaults   \* bound: how many calls to the outside fail

\* The transports that nmap names, and one that the scanner does not know.
Protocols == {"tcp", "udp", "sctp"}

\* Who answers plain GETs speaks HTTP; who speaks it without TLS answers them.
Listeners ==
  {n \in [open : BOOLEAN, plain : Nat, http : BOOLEAN, tls : BOOLEAN,
          ssh : {"none", "keysOnly", "sshd", "musl", "acceptAll"},
          accepts : SUBSET (STRING \X STRING)] :
     (n.plain # 0 => n.http) /\ (n.http /\ ~n.tls => n.plain # 0)}

\* A port is configured once: httpscan and noop report one as often as they
\* find it in the list.
ASSUME ScanAssumption ==
  /\ MaxFaults \in Nat
  /\ \A s \in Setups :
       /\ s.scanner \in {"nmap", "httpscan", "noop"}
       /\ s.target \in {"v4", "v6", "name"}
       /\ s.concurrency \in Nat \ {0}
       /\ s.host \in Seq(Listeners)
       /\ s.ptr \in {"", "ptr"}
       /\ s.ptrHost \in Seq(Listeners) /\ Len(s.ptrHost) = Len(s.host)
       /\ s.ports \in Seq(DOMAIN s.host)
       /\ \A i, j \in DOMAIN s.ports : s.ports[i] = s.ports[j] => i = j

VARIABLES
  cfg,       \* the settings and the target
  scan,      \* the step of Scan
  cancelled,   \* the caller's context is done
  faults,    \* calls to the outside that failed
  tmpFiles,  \* the client's temporary files: "empty", "xml" or "cut"
  next,      \* httpscan: the ports whose worker was started
  worker,    \* httpscan: the step of the worker of each port
  services,  \* the services of the report
  scanErr    \* how Scan failed, or "none"

scanVars == <<cfg, scan, cancelled, faults, tmpFiles, next, worker, services, scanErr>>

Listening(p) == cfg.host[p]

\* An empty list means every port to nmap and httpscan.
portsToScan ==
  IF cfg.ports = <<>> THEN [p \in DOMAIN cfg.host |-> p] ELSE cfg.ports

ScanInit ==
  /\ cfg \in Setups
  /\ scan = "new"
  /\ cancelled = FALSE
  /\ faults = 0
  /\ tmpFiles = {}
  /\ next = 1
  /\ worker = [p \in DOMAIN cfg.host |-> "idle"]
  /\ services = <<>>
  /\ scanErr = "none"

Fault == faults < MaxFaults /\ faults' = faults + 1

ScanFails(why) == scan' = "failed" /\ scanErr' = why

\* New: the module is made; noop insists on a list of ports.
NewScanner ==
  /\ scan = "new"
  /\ IF cfg.scanner = "noop" /\ cfg.ports = <<>>
       THEN ScanFails("noPortsToScan")
       ELSE /\ scan' = CASE cfg.scanner = "nmap" -> "createFile"
                         [] cfg.scanner = "httpscan" -> "loop"
                         [] OTHER -> "mark"
            /\ UNCHANGED scanErr
  /\ UNCHANGED <<cfg, cancelled, faults, tmpFiles, next, worker, services>>

-----------------------------------------------------------------------------
(* ps/nmap.  Whatever happens after the file was made, the deferred Remove *)
(* runs when Run returns.                                                  *)

removeOutput == tmpFiles' = {}

RunFails(why) == ScanFails(why) /\ removeOutput

CreateOutputFile ==
  /\ scan = "createFile"
  /\ \/ /\ Fault
        /\ ScanFails("tempFile")
        /\ UNCHANGED tmpFiles
     \/ /\ tmpFiles' = {"empty"}
        /\ scan' = "exec"
        /\ UNCHANGED <<faults, scanErr>>
  /\ UNCHANGED <<cfg, cancelled, next, worker, services>>

\* optTechnique knows two techniques.
TechniqueKnown == cfg.technique \in {"CONNECT", "UDP"}

Transport == IF cfg.technique = "UDP" THEN "udp" ELSE "tcp"

\* What nmap knows of a port: its state, the service it takes it for, absent
\* if it has no idea, and with which transport it was scanned.
Name(n) == CASE n.ssh # "none" -> "ssh"
             [] n.http /\ n.tls -> "https"
             [] n.http -> "http"
             [] OTHER -> "unknown"

\* optVersionDetection and optScripts: methods and TLS versions are looked for
\* only if their scripts are asked for.
PortsFound ==
  [k \in 1 .. Len(portsToScan) |->
     LET n == Listening(portsToScan[k]) IN
     [id |-> portsToScan[k],
      protocol |-> Transport,
      state |-> IF n.open THEN "open" ELSE "closed",
      service |-> IF cfg.versions \/ Name(n) # "unknown" THEN Name(n) ELSE "absent",
      methods |-> IF cfg.scripts /\ n.http /\ Transport = "tcp" THEN <<"GET", "POST">> ELSE <<>>,
      tls |-> IF cfg.scripts /\ n.tls /\ Transport = "tcp" THEN <<"TLSv1.2">> ELSE <<>>]]

\* The command is run: the options are wrong, the context or the timeout ends
\* it, it fails, or it has written its output, all of it or not.
ExecNmap ==
  /\ scan = "exec"
  /\ \/ /\ ~TechniqueKnown
        /\ RunFails("invalidTechnique")
        /\ UNCHANGED faults
     \/ /\ TechniqueKnown
        /\ \/ cancelled /\ RunFails("execution") /\ UNCHANGED faults
           \/ Fault /\ RunFails("execution")
           \/ Fault /\ tmpFiles' = {"cut"} /\ scan' = "read" /\ UNCHANGED scanErr
           \/ tmpFiles' = {"xml"} /\ scan' = "read" /\ UNCHANGED <<faults, scanErr>>
  /\ UNCHANGED <<cfg, cancelled, next, worker, services>>

\* The file is read and parsed, and removed.
ReadOutput ==
  /\ scan = "read"
  /\ \/ Fault /\ ScanFails("outputRead")
     \/ "cut" \in tmpFiles /\ ScanFails("xmlUnmarshal") /\ UNCHANGED faults
     \/ "xml" \in tmpFiles /\ scan' = "process" /\ UNCHANGED <<faults, scanErr>>
  /\ removeOutput
  /\ UNCHANGED <<cfg, cancelled, next, worker, services>>

\* How nmap writes the host: the address it has scanned, the name it was given
\* and, because the client does not tell it not to resolve addresses, the
\* reverse name.
HostFound ==
  [addresses |-> <<IF IsIP(cfg.target) THEN cfg.target ELSE "v4">>,
   hostnames |-> (IF IsIP(cfg.target) THEN <<>> ELSE <<cfg.target>>)
                   \o (IF cfg.ptr = "" THEN <<>> ELSE <<cfg.ptr>>)]

NoAddressOrHostname(host) == host.addresses = <<>> /\ host.hostnames = <<>>

\* parseNetworkEndpoint: the first hostname, whoever gave it, beside the first
\* address.
parseNetworkEndpoint(host) ==
  LET FirstOf(s) == IF s = <<>> THEN "" ELSE s[1] IN
  [type |-> CASE host.hostnames = <<>> -> "IP"
              [] host.addresses = <<>> -> "HOSTNAME"
              [] OTHER -> "IP_HOSTNAME",
   ip |-> FirstOf(host.addresses),
   host |-> FirstOf(host.hostnames),
   port |-> 0]

\* parseService and the two scripts it understands; scripts are looked at only
\* if nmap has named the service.
parseService(endpoint, port) ==
  LET new == NewService(WithPort(endpoint, port.id), port.protocol, "unknown") IN
  IF port.service = "absent" THEN new
  ELSE [new EXCEPT !.name = port.service, !.methods = port.methods, !.tls = port.tls]

Reportable(port) == port.state = "open" /\ port.protocol \in Protocols

\* The services at an endpoint, port by port.
ServicesAt(endpoint) ==
  LET Of[k \in 0 .. Len(PortsFound)] ==
        IF k = 0 THEN <<>>
        ELSE IF Reportable(PortsFound[k])
        THEN Append(Of[k - 1], parseService(endpoint, PortsFound[k]))
        ELSE Of[k - 1]
  IN  Of[Len(PortsFound)]

\* processResults: output about another number of hosts, or a host with an
\* address of another family, is an error; a host that is down, which only
\* discovery can say, gives no report.  The address may be missing from the
\* output, which then needs a name.
ProcessResults ==
  /\ scan = "process"
  /\ \/ /\ Fault
        /\ \E why \in {"hostsCount", "addressType"} : ScanFails(why)
        /\ UNCHANGED services
     \/ /\ cfg.discovery
        /\ Fault
        /\ scan' = "noReport"
        /\ UNCHANGED <<services, scanErr>>
     \/ \E host \in {HostFound, [HostFound EXCEPT !.addresses = <<>>]} :
          /\ IF host = HostFound THEN UNCHANGED faults ELSE Fault
          /\ IF NoAddressOrHostname(host)
               THEN ScanFails("noAddressOrHostname") /\ UNCHANGED services
               ELSE /\ services' = ServicesAt(parseNetworkEndpoint(host))
                    /\ scan' = "done"
                    /\ UNCHANGED scanErr
  /\ UNCHANGED <<cfg, cancelled, tmpFiles, next, worker>>

-----------------------------------------------------------------------------
(* ps/httpscan: a worker per port in an errgroup with a limit.  Its        *)
(* context ends with the caller's, or after a worker's error, which is     *)
(* that the context is done.                                               *)

Running == {p \in DOMAIN worker : worker[p] \in {"start", "request"}}

groupCancelled == cancelled

\* The loop: it leaves when the context is done, and blocks in group.Go while
\* the limit is reached.
StartWorker ==
  /\ scan = "loop"
  /\ IF next > Len(portsToScan) THEN scan' = "wait" /\ UNCHANGED <<next, worker, scanErr>>
     ELSE IF groupCancelled THEN ScanFails("ctx") /\ UNCHANGED <<next, worker>>
     ELSE /\ Cardinality(Running) < cfg.concurrency
          /\ worker' = [worker EXCEPT ![portsToScan[next]] = "start"]
          /\ next' = next + 1
          /\ UNCHANGED <<scan, scanErr>>
  /\ UNCHANGED <<cfg, cancelled, faults, tmpFiles, services>>

Closed(p) == worker' = [worker EXCEPT ![p] = "ended"]

Endpoint(p) == WithPort(FromString(cfg.target), p)

Invalid(status) == status \in cfg.invalidExitCodes

\* scanPort: a GET of the web root.  A request that fails, whatever the
\* reason, is a closed port, as is one of the configured statuses.
ScanPort(p) ==
  LET status == Listening(p).plain IN
  /\ worker[p] = "request"
  /\ \/ cancelled /\ Closed(p) /\ UNCHANGED <<faults, services>>
     \/ Fault /\ Closed(p) /\ UNCHANGED services
     \/ /\ status = 0 \/ Invalid(status)
        /\ Closed(p)
        /\ UNCHANGED <<faults, services>>
     \/ /\ status # 0 /\ ~Invalid(status)
        /\ Closed(p)
        /\ services' = Append(services, [NewService(Endpoint(p), "unspecified", "")
                                           EXCEPT !.methods = <<"GET">>])
        /\ UNCHANGED faults
  /\ UNCHANGED <<cfg, scan, cancelled, tmpFiles, next, scanErr>>

\* scanPortWorker: it looks at the context first.
WorkerStarts(p) ==
  /\ worker[p] = "start"
  /\ worker' = [worker EXCEPT ![p] = IF cancelled THEN "failed" ELSE "request"]
  /\ UNCHANGED <<cfg, scan, cancelled, faults, tmpFiles, next, services, scanErr>>

AllEnded_AsSoonAsStarted == TRUE
AllEnded == Running = {}

\* group.Wait.
WaitForWorkers ==
  /\ scan = "wait"
  /\ AllEnded
  /\ IF \E p \in DOMAIN worker : worker[p] = "failed"
       THEN ScanFails("ctx")
       ELSE scan' = "done" /\ UNCHANGED scanErr
  /\ UNCHANGED <<cfg, cancelled, faults, tmpFiles, next, worker, services>>

-----------------------------------------------------------------------------
\* ps/noop: every configured port is reported, without a look at it.
MarkAll ==
  /\ scan = "mark"
  /\ services' = [k \in 1 .. Len(cfg.ports) |->
                    NewService(Endpoint(cfg.ports[k]), "unspecified", "")]
  /\ scan' = "done"
  /\ UNCHANGED <<cfg, cancelled, faults, tmpFiles, next, worker, scanErr>>

ScanStep ==
  \/ NewScanner
  \/ CreateOutputFile \/ ExecNmap \/ ReadOutput \/ ProcessResults
  \/ StartWorker \/ WaitForWorkers
  \/ \E p \in DOMAIN worker : WorkerStarts(p) \/ ScanPort(p)
  \/ MarkAll
=============================================================================
