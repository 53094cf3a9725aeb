-------------------------------- MODULE Target --------------------------------
(***************************************************************************)
(* What happens to one target: its port scan, the fingerprinters           *)
(* fp/sslsupport and fp/iswebservice on each service found, and the two    *)
(* SSH detectors on what they made of it, dt/wk/ssh with the credentials   *)
(* of its store and dt/opensshauthbypass with its three probes.            *)
(*                                                                         *)
(* Which modules run when, and concurrently on what, is the subject of     *)
(* Runner, and how candidates are shared among workers that of WorkerPool; *)
(* here one service follows another and one candidate the other.           *)
(***************************************************************************)
EXTENDS PortScan, SshProbe, CredentialStore

CONSTANTS
  MaxCalls   \* bound: calls a caller makes to build its own store

ASSUME TargetAssumption ==
  /\ MaxCalls \in Nat
  /\ \A s \in Setups :
       /\ s.fps \in Seq({"sslsupport", "iswebservice"})
       /\ s.detector \in {"weak", "bypass", "none"}

VARIABLES
  stage,      \* "store", "scan", "fingerprint", "detect", "over"
  store,      \* the credential store, the caller's or the prepared one
  calls,      \* the calls made to build it
  given,      \* history: credentials added for one user that was listed
  creds,      \* candidates(), once Detect needs them
  current,    \* the service at hand, an index of services
  step,       \* the fingerprinter, candidate or probe at hand
  found,      \* <<service, credential>> pairs that matched
  vulnerable, \* services reported by the bypass detector
  probed,     \* history: how each of its probes ended, per service
  detected    \* history: services whose detection ended without an error

storeVars == <<store, calls, given, creds>>
reportVars == <<found, vulnerable, probed, detected>>
targetVars == <<scanVars, stage, storeVars, current, step, reportVars>>

TargetInit ==
  /\ ScanInit
  /\ stage = "store"
  /\ store = New
  /\ calls = 0
  /\ given = {}
  /\ creds = <<>>
  /\ current = 1
  /\ step = 1
  /\ found = {}
  /\ vulnerable = {}
  /\ probed = [p \in DOMAIN cfg.host |-> <<>>]
  /\ detected = {}

-----------------------------------------------------------------------------
(* bruteforce.New.                                                         *)

\* The caller builds a store of its own, any way the API allows.
BuildStore ==
  /\ stage = "store"
  /\ cfg.ownStore
  /\ calls < MaxCalls
  /\ calls' = calls + 1
  /\ \E u \in cfg.users, p \in cfg.passwords :
       \/ store' = AddUser(store, u) /\ UNCHANGED given
       \/ store' = PrependUser(store, u) /\ UNCHANGED given
       \/ store' = AddPassword(store, p) /\ UNCHANGED given
       \/ /\ store' = AddPasswordForUser(store, u, p)
          /\ given' = IF Contains(store.usernames, u) THEN given \cup {<<u, p>>} ELSE given
       \/ /\ store' = PrependPasswordForUser(store, u, p)
          /\ given' = IF Contains(store.usernames, u) THEN given \cup {<<u, p>>} ELSE given
  /\ UNCHANGED <<scanVars, stage, creds, current, step, reportVars>>

\* The module is made with that store or with one loaded from files, which may
\* fail; its candidates are those of the prepared store.
PrepareStore ==
  /\ stage = "store"
  /\ IF ~cfg.ownStore /\ LoadFails(cfg.files)
       THEN stage' = "over" /\ UNCHANGED <<store, creds>>
       ELSE /\ store' = prepareCredentialStore(
                           IF cfg.ownStore THEN store ELSE LoadFromFS(New, cfg.files),
                           cfg.passwordOnly, cfg.defaults)
            /\ creds' = candidates(store')
            /\ stage' = "scan"
  /\ UNCHANGED <<scanVars, calls, given, current, step, reportVars>>

-----------------------------------------------------------------------------
\* A step of the port scanner.
Scan ==
  /\ stage = "scan"
  /\ ScanStep
  /\ UNCHANGED <<stage, storeVars, current, step, reportVars>>

\* The report is there: the services are fingerprinted, one after the other.
\* Without a report, and once the context is done, the scan of the target ends.
Proceed ==
  /\ stage = "scan"
  /\ scan \in {"done", "failed", "noReport"}
  /\ stage' = IF scan # "done" \/ services = <<>> \/ cancelled THEN "over"
              ELSE IF cfg.fps = <<>> THEN "detect" ELSE "fingerprint"
  /\ UNCHANGED <<scanVars, storeVars, current, step, reportVars>>

Service == services[current]

\* What is reached at the authority of an endpoint: the hostname comes first.
Dialled(e) ==
  IF ToURIAuthority(e).addr = cfg.ptr THEN cfg.ptrHost[e.port] ELSE Listening(e.port)

Listener == Dialled(Service.endpoint)

AfterService ==
  IF current < Len(services)
    THEN current' = current + 1 /\ UNCHANGED stage
    ELSE current' = 1 /\ stage' = IF stage = "fingerprint" THEN "detect" ELSE "over"

\* One of the list of fingerprinters is done with the service.
Fingerprinted ==
  IF step < Len(cfg.fps)
    THEN step' = step + 1 /\ UNCHANGED <<stage, current>>
    ELSE step' = 1 /\ AfterService

Enrich(s) == services' = [services EXCEPT ![current] = s]

\* fp/sslsupport: a TLS handshake over TCP, unless TLS versions are known.
sslsupport(s) ==
  \/ HasTLS(s) /\ UNCHANGED <<services, faults>>
  \/ ~HasTLS(s) /\ Listener.tls
       /\ Enrich([s EXCEPT !.tls = Append(@, "TLSv1.3")]) /\ UNCHANGED faults
  \/ ~HasTLS(s) /\ ~Listener.tls /\ UNCHANGED <<services, faults>>
  \/ ~HasTLS(s) /\ Fault /\ UNCHANGED services

\* The web root is answered: with any status, over the scheme asked for.
Answers_Plain(root) == Listener.plain # 0
Answers(root) ==
  IF root.scheme = "https" THEN Listener.http /\ Listener.tls ELSE Listener.plain # 0

AddMethod(ms, m) == AppendNew(ms, m)

\* fp/iswebservice: a GET of the web root.
iswebservice(s) ==
  \/ Answers(BuildWebRoot(s))
       /\ Enrich([s EXCEPT !.methods = AddMethod(@, "GET")]) /\ UNCHANGED faults
  \/ ~Answers(BuildWebRoot(s)) /\ UNCHANGED <<services, faults>>
  \/ Fault /\ UNCHANGED services

\* Every service of a port scanner has an address; a cancelled fingerprinter
\* fails and the runner, its context done, ends.
FingerprintService ==
  /\ stage = "fingerprint"
  /\ IF cancelled
       THEN stage' = "over" /\ UNCHANGED <<services, faults, current, step>>
       ELSE /\ IF cfg.fps[step] = "sslsupport" THEN sslsupport(Service) ELSE iswebservice(Service)
            /\ Fingerprinted
  /\ UNCHANGED <<cfg, scan, cancelled, tmpFiles, next, worker, scanErr>>
  /\ UNCHANGED <<storeVars, reportVars>>

-----------------------------------------------------------------------------
(* The detectors.                                                          *)

\* A connection, disturbed or not.
Connects(user, pws, how) ==
  \/ how = ConnectWithPasswords(Listener, user, pws) /\ UNCHANGED faults
  \/ how \in Disturbed /\ Fault

\* Detection of the service is over, with an error or without.
NextService(ok) ==
  /\ step' = 1
  /\ AfterService
  /\ detected' = IF ok THEN detected \cup {current} ELSE detected

\* dt/wk/ssh: step 1 is the Handler's Fingerprint, step k + 1 the k-th
\* candidate; a done context is an error of either.
DetectWeak ==
  /\ stage = "detect"
  /\ cfg.detector = "weak"
  /\ IF cancelled THEN NextService(FALSE) /\ UNCHANGED <<faults, found>>
     ELSE IF step = 1
     THEN IF ~WorthProbing(Service)
            THEN NextService(TRUE) /\ UNCHANGED <<faults, found>>
            ELSE \E how \in Disturbed \cup {"noVersion", "unsupported", "connected", "rejected"} :
                   /\ Connects(probeUser, <<probePassword>>, how)
                   /\ IF ShowsPasswords(how) /\ creds # <<>>
                        THEN step' = 2 /\ UNCHANGED <<stage, current, detected>>
                        ELSE NextService(TRUE)
                   /\ UNCHANGED found
     ELSE \E how \in Disturbed \cup {"noVersion", "unsupported", "connected", "rejected"} :
            LET cred == creds[step - 1] IN
            /\ Connects(cred[1], <<cred[2]>>, how)
            /\ found' = IF Matched(how) THEN found \cup {<<current, cred>>} ELSE found
            /\ IF step - 1 < Len(creds)
                 THEN step' = step + 1 /\ UNCHANGED <<stage, current, detected>>
                 ELSE NextService(TRUE)
  /\ UNCHANGED <<cfg, scan, cancelled, tmpFiles, next, worker, services, scanErr>>
  /\ UNCHANGED <<storeVars, vulnerable, probed>>

\* dt/opensshauthbypass: step k is its k-th probe, the password twice on one
\* connection.
DetectBypass ==
  /\ stage = "detect"
  /\ cfg.detector = "bypass"
  /\ IF cancelled THEN NextService(FALSE) /\ UNCHANGED <<faults, vulnerable, probed>>
     ELSE IF IsWebService(Service) \/ ~OverTCP(Service)
     THEN NextService(TRUE) /\ UNCHANGED <<faults, vulnerable, probed>>
     ELSE \E how \in Disturbed \cup {"noVersion", "unsupported", "connected", "rejected"} :
            /\ Connects(targetUser, <<ProbeOf(step), ProbeOf(step)>>, how)
            /\ probed' = [probed EXCEPT ![Service.endpoint.port] = Append(@, how)]
            /\ IF Verdict(step, how) = "go on"
                 THEN step' = step + 1 /\ UNCHANGED <<stage, current, vulnerable, detected>>
                 ELSE /\ NextService(Verdict(step, how) # "error")
                      /\ vulnerable' = IF Verdict(step, how) = "vulnerable"
                                         THEN vulnerable \cup {current} ELSE vulnerable
  /\ UNCHANGED <<cfg, scan, cancelled, tmpFiles, next, worker, services, scanErr>>
  /\ UNCHANGED <<storeVars, found>>

\* No detector is selected.
DetectNothing ==
  /\ stage = "detect"
  /\ cfg.detector = "none"
  /\ stage' = "over"
  /\ UNCHANGED <<scanVars, storeVars, current, step, reportVars>>

\* The caller cancels, or the deadline of the scan passes.
CancelTarget ==
  /\ cfg.cancels
  /\ ~cancelled
  /\ stage # "over"
  /\ cancelled' = TRUE
  /\ UNCHANGED <<cfg, scan, faults, tmpFiles, next, worker, services, scanErr>>
  /\ UNCHANGED <<stage, storeVars, current, step, reportVars>>

\* A worker that httpscan left behind ends; whatever it finds goes to a report
\* that nobody has.
Leftover ==
  /\ stage # "scan"
  /\ cancelled
  /\ \E p \in Running : Closed(p)
  /\ UNCHANGED <<cfg, scan, cancelled, faults, tmpFiles, next, services, scanErr>>
  /\ UNCHANGED <<stage, storeVars, current, step, reportVars>>

Over == stage = "over" /\ Running = {} /\ UNCHANGED targetVars

TargetNext ==
  \/ BuildStore \/ PrepareStore
  \/ Scan \/ Proceed
  \/ FingerprintService
  \/ DetectWeak \/ DetectBypass \/ DetectNothing
  \/ CancelTarget \/ Leftover
  \/ Over

TargetSpec == TargetInit /\ [][TargetNext]_targetVars

-----------------------------------------------------------------------------
ReportedPorts == {services[k].endpoint.port : k \in DOMAIN services}

\* What a scanner has to report.
Expected(p) ==
  CASE cfg.scanner = "nmap" -> Listening(p).open
    [] cfg.scanner = "httpscan" -> Listening(p).plain \notin cfg.invalidExitCodes \cup {0}
    [] OTHER -> TRUE

\* A report names the requested ports that are there, each once, whichever
\* workers and failures came in between; a scanner whose program failed gives
\* no report instead of a partial one, and leaves no temporary file.  (httpscan
\* takes a request that failed for a closed port, the cancelled ones included.)
\* The services are at the target, under the name or the address given, with
\* one exception: nmap's reverse name of an address comes first, and whoever
\* dials the service goes there; the address is kept beside it, unless nmap's
\* output lacks it.
ScanExact ==
  /\ scan \in {"done", "failed", "noReport"} => tmpFiles = {}
  /\ scan = "done" =>
       LET missing == {p \in ToSet(portsToScan) : Expected(p)} \ ReportedPorts IN
       /\ Cardinality(ReportedPorts) = Len(services)
       /\ ReportedPorts \subseteq {p \in ToSet(portsToScan) : Expected(p)}
       /\ missing # {} =>
            cfg.scanner = "httpscan" /\ (cancelled \/ Cardinality(missing) <= faults)
       /\ \A k \in DOMAIN services :
            LET e == services[k].endpoint IN
            /\ \/ ToURIAuthority(e).addr = cfg.target
               \/ /\ cfg.scanner = "nmap" /\ IsIP(cfg.target) /\ cfg.ptr # ""
                  /\ ToURIAuthority(e).addr = cfg.ptr
            /\ faults = 0 /\ IsIP(cfg.target) => e.ip = cfg.target

Before(a, b) ==
  \E i, j \in DOMAIN cfg.fps : i < j /\ cfg.fps[i] = a /\ cfg.fps[j] = b

Runs(a) == Contains(cfg.fps, a)

\* What the fingerprinters have made of a service is true of what is reached
\* at it: TLS and web services are not invented, and unless a connection failed
\* none is missed, if TLS is looked for before the web root is asked; the web
\* root then has the scheme that is spoken there.  (Where a reverse name leads
\* elsewhere, one service mixes what nmap has seen at the target with what is
\* found at the name: only the former or the latter is so, and a web service
\* may be missed.)
EnrichmentTrue ==
  stage = "detect" =>
    \A k \in DOMAIN services :
      LET s == services[k]
          n == Listening(s.endpoint.port)
          d == Dialled(s.endpoint)
      IN  /\ HasTLS(s) => n.tls \/ d.tls
          /\ IsWebService(s) => n.http \/ d.http
          /\ Cardinality(ToSet(s.methods)) = Len(s.methods) /\ Len(s.tls) <= 1
          /\ faults = 0 /\ Runs("sslsupport") /\ d.tls => HasTLS(s)
          /\ faults = 0 /\ Before("sslsupport", "iswebservice") /\ n = d /\ n.http =>
               IsWebService(s) /\ BuildWebRoot(s).scheme = IF n.tls THEN "https" ELSE "http"

Position(c) == CHOOSE k \in DOMAIN creds : creds[k] = c

Defaults == {<<IF cfg.passwordOnly THEN "" ELSE cfg.defaults[k][1], cfg.defaults[k][2]>> :
               k \in DOMAIN cfg.defaults}

\* Whatever way a store was filled, nothing is tested twice, what was given to
\* a listed user or is in the files is tested, and default credentials come
\* first, as listed: before the other passwords of their user, and their users
\* before the others.  (A user that got a password before it was listed is never tested.)
CandidatesExact ==
  creds # <<>> =>
    LET Login(u, p) == <<IF cfg.passwordOnly THEN "" ELSE u, p>> IN
    /\ Cardinality(ToSet(creds)) = Len(creds)
    /\ {Login(g[1], g[2]) : g \in given} \cup Defaults \subseteq ToSet(creds)
    /\ ~cfg.ownStore =>
         {Login(u, p) : u \in cfg.users, p \in cfg.passwords} \subseteq ToSet(creds)
    /\ \A d \in Defaults, c \in ToSet(creds) \ Defaults :
         c[1] = d[1] \/ c[1] \notin {e[1] : e \in Defaults} => Position(d) < Position(c)
    /\ cfg.defaults # <<>> => creds[1] = Login(cfg.defaults[1][1], cfg.defaults[1][2])

\* A reported credential is one of the candidates that the server accepts, and
\* unless a connection was disturbed or the scan cancelled each of those is
\* reported, for services that look like SSH; the bypass is reported of a
\* server that accepted two long passwords, which without a disturbance is
\* exactly a vulnerable one, unless nmap took it for a web service.  The server
\* is the one at the service's authority: not the target itself, where a
\* reverse name leads elsewhere.
FindingsTrue ==
  LET At(k) == Dialled(services[k].endpoint)
      Weak(k) == {c \in ToSet(creds) : Accepts(At(k), c[1], c[2], 1)}
  IN
  /\ \A f \in found : f[2] \in Weak(f[1])
  /\ \A k \in detected :
       faults = 0 /\ cfg.detector = "weak" /\ WorthProbing(services[k]) /\ At(k).open =>
           Weak(k) = {f[2] : f \in {g \in found : g[1] = k}}
  /\ \A k \in vulnerable :
       LET p == services[k].endpoint.port IN
       /\ At(k).ssh \in {"musl", "acceptAll"}
       /\ At(k).ssh = "acceptAll" =>
            Len(probed[p]) = 3 /\ probed[p][3] \in Disturbed
  /\ \A k \in detected :
       faults = 0 /\ cfg.detector = "bypass" /\ At(k).ssh = "musl"
         /\ OverTCP(services[k]) /\ ~IsWebService(services[k]) => k \in vulnerable
=============================================================================
