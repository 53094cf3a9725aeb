------------------------------- MODULE MCTarget -------------------------------
(* Small instances of Target for TLC: settings that exercise the scanners and *)
(* fingerprinters, the SSH detectors, and the credential store.              *)
EXTENDS Target

Mute == [open |-> TRUE, plain |-> 0, http |-> FALSE, tls |-> FALSE,
         ssh |-> "none", accepts |-> {}]
Shut  == [Mute EXCEPT !.open = FALSE]
Web   == [Mute EXCEPT !.plain = 200, !.http = TRUE]
WebTLS == [Mute EXCEPT !.plain = 400, !.http = TRUE, !.tls = TRUE]
StrictTLS == [WebTLS EXCEPT !.plain = 0]
BadGateway == [Web EXCEPT !.plain = 502]
MailTLS == [Mute EXCEPT !.tls = TRUE]
Ssh(how) == [Mute EXCEPT !.ssh = how,
                         !.accepts = {<<"root", "p">>, <<"guest", "q">>, <<"", "p">>}]

Files(users, passes) ==
  <<[name |-> "usernames.txt", lines |-> users, readable |-> TRUE],
    [name |-> "passwords.txt", lines |-> passes, readable |-> TRUE]>>
Good == Files(<<"root", "", "guest", "root">>, <<"p", "", "q">>)

Basic ==
  [scanner |-> "noop", target |-> "v4", concurrency |-> 2, ports |-> <<1>>,
   technique |-> "CONNECT", versions |-> TRUE, scripts |-> TRUE, discovery |-> FALSE,
   invalidExitCodes |-> {400, 502}, host |-> <<Mute>>, ptr |-> "", ptrHost |-> <<Mute>>, fps |-> <<"sslsupport", "iswebservice">>,
   detector |-> "none", cancels |-> FALSE, ownStore |-> FALSE, files |-> Good,
   users |-> {"root", "guest"}, passwords |-> {"p", "q"}, passwordOnly |-> FALSE,
   defaults |-> <<>>]

Hosts == {<<Web, Shut, WebTLS>>, <<StrictTLS, Mute, MailTLS>>, <<WebTLS, BadGateway, Web>>}

Scans ==
  {[Basic EXCEPT !.scanner = sc, !.target = t, !.ports = ps, !.host = h, !.ptrHost = h,
                 !.fps = f, !.cancels = TRUE] :
     sc \in {"nmap", "httpscan", "noop"}, t \in {"v6", "name"}, ps \in {<<>>, <<3, 1>>},
     h \in Hosts, f \in {<<"sslsupport", "iswebservice">>, <<"iswebservice", "sslsupport">>}}
  \cup
  {[Basic EXCEPT !.scanner = "nmap", !.ports = <<>>, !.host = h, !.ptrHost = h,
                 !.technique = te, !.scripts = b, !.versions = b, !.discovery = TRUE] :
     h \in Hosts, te \in {"CONNECT", "UDP", "SYN"}, b \in BOOLEAN}
  \cup
  {[Basic EXCEPT !.scanner = "httpscan", !.ports = <<>>, !.host = h, !.ptrHost = h,
                 !.concurrency = 1, !.invalidExitCodes = {}] : h \in Hosts}

Detections ==
  {[Basic EXCEPT !.scanner = sc, !.ports = <<2, 1>>, !.host = <<Ssh(how), n>>,
                 !.ptrHost = <<Mute, Mute>>, !.detector = d, !.fps = f, !.cancels = c, !.defaults = <<<<"root", "x">>>>] :
     sc \in {"nmap", "noop"}, how \in {"sshd", "musl", "acceptAll", "keysOnly"},
     n \in {Web, Ssh("sshd"), Shut}, d \in {"weak", "bypass"},
     f \in {<<>>, <<"iswebservice">>, <<"sslsupport", "iswebservice">>}, c \in BOOLEAN}

\* Targets whose address has a reverse name: it leads back, to nothing, or to
\* another host.
Reversed ==
  {[Basic EXCEPT !.scanner = "nmap", !.target = t, !.ports = <<>>, !.host = h, !.ptr = "ptr",
                 !.ptrHost = r, !.fps = f, !.scripts = b] :
     t \in {"v4", "v6", "name"}, h \in Hosts, r \in Hosts \cup {<<Shut, Shut, Shut>>},
     f \in {<<"sslsupport", "iswebservice">>, <<"iswebservice", "sslsupport">>}, b \in BOOLEAN}
  \cup
  {[Basic EXCEPT !.scanner = sc, !.ports = <<2, 1>>, !.host = <<Ssh(how), n>>, !.ptr = "ptr",
                 !.ptrHost = r, !.detector = d, !.defaults = <<<<"root", "x">>>>] :
     sc \in {"nmap", "httpscan"}, how \in {"sshd", "musl"}, n \in {Web, Ssh("keysOnly")},
     r \in {<<Ssh("sshd"), Web>>, <<Ssh("acceptAll"), Ssh("musl")>>, <<Shut, Shut>>},
     d \in {"weak", "bypass"}}

DefaultLists == {<<>>, <<<<"root", "p">>>>, <<<<"root", "x">>, <<"guest", "y">>>>,
                 <<<<"guest", "q">>, <<"guest", "x">>, <<"admin", "p">>>>}

Stores ==
  {[Basic EXCEPT !.host = <<Ssh("sshd")>>, !.detector = "weak", !.fps = <<"iswebservice">>,
                 !.ownStore = own, !.passwordOnly = po, !.defaults = ds, !.files = fs] :
     own \in {FALSE}, po \in BOOLEAN, ds \in DefaultLists,
     fs \in {Good, Good \o Good, Tail(Good),
             [Good EXCEPT ![2].readable = FALSE]}}
  \cup
  {[Basic EXCEPT !.host = <<Ssh("sshd")>>, !.fps = <<"iswebservice">>,
                 !.ownStore = TRUE, !.passwordOnly = po, !.defaults = ds] :
     po \in BOOLEAN, ds \in DefaultLists}

MCSetups == Scans \cup Detections \cup Reversed \cup Stores
=============================================================================
