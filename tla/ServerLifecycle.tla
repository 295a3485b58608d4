----------------------------- MODULE ServerLifecycle -----------------------------
(***************************************************************************)
(* Server.start and Server.stop over the server's parts, and the           *)
(* certificate that start generates when the configuration names none.     *)
(*                                                                         *)
(* Both look at _running alone, which start sets last and stop clears      *)
(* first, so a call that comes while another one awaits something runs     *)
(* beside it.  start may fail at several parts, with nothing undone; the   *)
(* process may die at any point, and finds the certificate files as it     *)
(* left them.                                                              *)
(***************************************************************************)
EXTENDS Naturals

CONSTANTS
  Callers,    \* tasks that call start and stop; Server.run is one
  MaxPairs    \* bound on the key pairs generated

VARIABLES
  tls,         \* config.tls.enabled
  running,     \* _running
  parts,       \* the parts that are running
  call,        \* what each caller is in, and the part it comes to next
  configured,  \* config.tls names the certificate, so it is not looked at again
  crt, key,    \* the files: the pair they are from, 0 for none, or Torn
  expired,     \* the certificate file's pair is past its validity
  pairs,       \* pairs generated so far
  failed,      \* (history) since it was created, a start or stop has failed
  crossed      \* (history) a start and a stop have been under way together

vars == <<tls, running, parts, call, configured, crt, key, expired, pairs, failed,
          crossed>>
files == <<tls, configured, crt, key, expired, pairs>>

Managers == {"sessions", "devices", "traffic", "monitor"}
StopOrder ==
  [tcp |-> "udp", udp |-> "web", web |-> "monitor", monitor |-> "traffic",
   traffic |-> "devices", devices |-> "sessions", sessions |-> "end"]

Saves ==
  [truncate_crt |-> "write_crt", write_crt |-> "truncate_key",
   truncate_key |-> "write_key", write_key |-> "context"]

Idle == [does |-> "nothing", at |-> "end"]
Starting(c) == call[c].does = "start"
Stopping(c) == call[c].does = "stop"
StartsAt(c, what) == call[c] = [does |-> "start", at |-> what]

\* A file that was truncated and not written.
Torn == MaxPairs + 1

Init ==
  /\ tls \in BOOLEAN
  /\ running = FALSE /\ parts = {} /\ call = [c \in Callers |-> Idle]
  /\ configured = FALSE
  /\ crt = 0 /\ key = 0 /\ expired = FALSE /\ pairs = 0
  /\ failed = FALSE /\ crossed = FALSE

\* Where start comes by without an await: no other call goes on meanwhile.
Undivided == {"cert", "context"} \cup DOMAIN Saves
MayRun(c) == \A d \in Callers \ {c} : call[d].at \notin Undivided

GoesTo(c, what) == call' = [call EXCEPT ![c].at = what]
Returns(c) == call' = [call EXCEPT ![c] = Idle]

\* start or stop raises; what it did is left as it is.
Raise(c) == Returns(c) /\ failed' = TRUE /\ UNCHANGED <<running, files, crossed>>

-----------------------------------------------------------------------------
\* start

\* The managers start at once, one that runs already stays as it is.  A UDP server
\* that runs, left by a failed start or by one still under way, refuses.
StartCall(c) ==
  /\ call[c] = Idle /\ ~running /\ MayRun(c)
  /\ parts' = parts \cup Managers
  /\ \/ /\ "udp" \notin parts
        /\ call' = [call EXCEPT ![c] = [does |-> "start", at |-> "udp"]]
        /\ crossed' = (crossed \/ \E d \in Callers : Stopping(d))
        /\ UNCHANGED <<running, files, failed>>
     \/ "udp" \in parts /\ Raise(c)

UdpUp(c) ==
  /\ StartsAt(c, "udp") /\ MayRun(c)
  /\ parts' = parts \cup {"udp"}
  /\ GoesTo(c, IF tls THEN "cert" ELSE "tcp")
  /\ UNCHANGED <<running, files, failed, crossed>>

\* The port is the configured one: there is only one server on it.
TcpUp(c) ==
  /\ StartsAt(c, "tcp") /\ MayRun(c)
  /\ "tcp" \notin parts
  /\ parts' = parts \cup {"tcp"}
  /\ \/ tls /\ GoesTo(c, "web") /\ UNCHANGED running
     \/ ~tls /\ Returns(c) /\ running' = TRUE
  /\ UNCHANGED <<files, failed, crossed>>

\* Faulty: a TCP server that does not come up is only logged.
PartFailsQuietly(c) ==
  /\ StartsAt(c, "tcp") /\ MayRun(c)
  /\ Returns(c)
  /\ running' = TRUE
  /\ UNCHANGED <<parts, files, failed, crossed>>

\* The port is taken, or no socket can be bound.
PartFails(c) ==
  /\ StartsAt(c, "udp") \/ StartsAt(c, "tcp")
  /\ MayRun(c)
  /\ Raise(c)
  /\ UNCHANGED parts

\* The failure of the WebSocket server is caught, and start is through.
WebUp(c) ==
  /\ StartsAt(c, "web") /\ MayRun(c)
  /\ parts' \in {parts, parts \cup {"web"}}
  /\ running' = TRUE
  /\ Returns(c)
  /\ UNCHANGED <<files, failed, crossed>>

-----------------------------------------------------------------------------
\* The certificate

\* Both files exist and the certificate is readable and in its validity; the key
\* file's content is not looked at.
Usable == crt \in 1..pairs /\ key # 0 /\ ~expired

\* generate_cert_if_missing: keep the files, or write the certificate and then
\* the key of a new pair.
ConfiguredCert(c) ==
  /\ StartsAt(c, "cert")
  /\ configured \/ Usable
  /\ configured' = TRUE
  /\ GoesTo(c, "context")
  /\ UNCHANGED <<tls, running, parts, crt, key, expired, pairs, failed, crossed>>

GenerateCert(c) ==
  /\ StartsAt(c, "cert") /\ ~configured /\ ~Usable
  /\ pairs < MaxPairs
  /\ pairs' = pairs + 1
  /\ GoesTo(c, "truncate_crt")
  /\ UNCHANGED <<tls, running, parts, configured, crt, key, expired, failed, crossed>>

SaveCert(c) ==
  /\ \/ /\ StartsAt(c, "truncate_crt") /\ crt' = Torn
        /\ UNCHANGED <<key, expired, configured>>
     \/ /\ StartsAt(c, "write_crt") /\ crt' = pairs /\ expired' = FALSE
        /\ UNCHANGED <<key, configured>>
     \/ /\ StartsAt(c, "truncate_key") /\ key' = Torn
        /\ UNCHANGED <<crt, expired, configured>>
     \/ /\ StartsAt(c, "write_key") /\ key' = pairs /\ configured' = TRUE
        /\ UNCHANGED <<crt, expired>>
  /\ GoesTo(c, Saves[call[c].at])
  /\ UNCHANGED <<tls, running, parts, pairs, failed, crossed>>

\* A full disk or a missing permission.
SaveCertFails(c) ==
  /\ \E what \in DOMAIN Saves : StartsAt(c, what)
  /\ Raise(c)
  /\ UNCHANGED parts

\* load_cert_chain takes a certificate and the key it was made for.
LoadCert(c) ==
  /\ StartsAt(c, "context") /\ crt = key
  /\ GoesTo(c, "tcp")
  /\ UNCHANGED <<running, parts, files, failed, crossed>>

LoadCertFails(c) ==
  /\ StartsAt(c, "context") /\ crt # key
  /\ Raise(c)
  /\ UNCHANGED parts

-----------------------------------------------------------------------------
\* stop

StopCall(c) ==
  /\ call[c] = Idle /\ running /\ MayRun(c)
  /\ running' = FALSE
  /\ call' = [call EXCEPT ![c] = [does |-> "stop", at |-> "tcp"]]
  /\ crossed' = (crossed \/ \E d \in Callers : Starting(d))
  /\ UNCHANGED <<parts, files, failed>>

StopPart(c) ==
  /\ Stopping(c) /\ MayRun(c)
  /\ parts' = parts \ {call[c].at}
  /\ LET next == StopOrder[call[c].at] IN
       IF next = "end" THEN Returns(c) ELSE GoesTo(c, next)
  /\ UNCHANGED <<running, files, failed, crossed>>

\* The WebSocket server's cleanup raises; the managers behind it are not stopped.
StopPartFails(c) ==
  /\ Stopping(c) /\ call[c].at = "web" /\ "web" \in parts /\ MayRun(c)
  /\ Raise(c)
  /\ UNCHANGED parts

-----------------------------------------------------------------------------
Expire ==
  /\ crt \in 1..pairs /\ ~expired
  /\ expired' = TRUE
  /\ UNCHANGED <<tls, running, parts, call, configured, crt, key, pairs, failed, crossed>>

\* The process dies; the next one is a new Server over the same files.
Crash ==
  /\ running' = FALSE /\ parts' = {} /\ call' = [c \in Callers |-> Idle]
  /\ configured' = FALSE /\ failed' = FALSE /\ crossed' = FALSE
  /\ UNCHANGED <<tls, crt, key, expired, pairs>>

Start(c) == StartCall(c) \/ UdpUp(c) \/ TcpUp(c) \/ PartFails(c) \/ WebUp(c)
Cert(c) == ConfiguredCert(c) \/ GenerateCert(c) \/ SaveCert(c) \/ SaveCertFails(c)
           \/ LoadCert(c) \/ LoadCertFails(c)
Stop(c) == StopCall(c) \/ StopPart(c) \/ StopPartFails(c)
Next == (\E c \in Callers : Start(c) \/ Cert(c) \/ Stop(c)) \/ Expire \/ Crash

Spec == Init /\ [][Next]_vars

\* Unless a start and a stop ran beside each other: a server that says it runs has
\* all its parts running but perhaps the WebSocket server, whatever failed and
\* however many starts overlapped; and one that says it does not, with no call
\* under way and none failed, has no part left over.
PartsRunning ==
  ~crossed =>
    /\ running => Managers \cup {"udp", "tcp"} \subseteq parts
    /\ ~running /\ ~failed /\ (\A c \in Callers : call[c] = Idle) => parts = {}

\* The certificate start settles on can be loaded: what a crash has left of the
\* two files is found out and replaced.
CertLoads == \A c \in Callers : StartsAt(c, "context") => crt = key
=============================================================================
