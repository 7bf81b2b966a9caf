-------------------------------- MODULE Ports --------------------------------
(***************************************************************************)
(* The ports a server listens at (port.c, cfg_set_port, init_server, the   *)
(* opening of sockets in os/unix/net_io.c and openssl/net_io_ssl.c): a     *)
(* reconfiguration keeps the sockets of the ports that have not changed    *)
(* and opens the others, while children of the configuration before still  *)
(* have all sockets that were open when they were forked.                  *)
(* A listening socket is a number; the address it is bound to is taken for *)
(* as long as some process has it open.                                    *)
(***************************************************************************)
EXTENDS Naturals, Sequences, SequencesExt, FiniteSets

CONSTANTS
  PortLines,      \* Port, TlsPort, HttpPort lines: records addr, proto, tls, cert, options, good
  BadCerts,       \* certificates without a valid key
  MaxPorts,       \* bound: lines of a configuration
  MaxConfigs,     \* bound: configurations read
  NoCert

VARIABLES
  portPhase, configs,
  ports,          \* CI_CONF.PORTS
  oldPorts,       \* the ports of the configuration before
  bound,          \* socket -> the address it is bound to
  monitorFds,     \* sockets the monitor has open
  childFds,       \* sets of sockets that running children have open
  unheard         \* ghost: a TLS port has been opened at an address that was taken

portVars == <<portPhase, configs, ports, oldPorts, bound, monitorFds, childFds, unheard>>

Invalid == 0

PortsInit ==
  /\ portPhase = "reading" /\ configs = 1
  /\ ports = <<>> /\ oldPorts = <<>>
  /\ bound = <<>> /\ monitorFds = {} /\ childFds = {} /\ unheard = FALSE

(***************************************************************************)
(* Reading the lines                                                       *)
(***************************************************************************)
(* cfg_set_port: the port is in the list before its line is parsed.  A     *)
(* line without options is never one of TLS.  tls_details stands for       *)
(* tls_accept_details and serves for the certificate that accepted         *)
(* connections are shown; asked is a ghost, the protocol of the line.      *)
NewPort(l) ==
  [addr |-> l.addr, proto |-> l.proto, tls |-> l.tls /\ l.options, cert |-> IF l.options THEN l.cert ELSE NoCert,
   sock |-> Invalid, configured |-> FALSE, tls_details |-> FALSE, serves |-> NoCert,
   asked |-> l.proto]

cfg_set_port(l) ==
  /\ portPhase = "reading" /\ Len(ports) < MaxPorts
  /\ ports' = Append(ports, NewPort(l))
  /\ portPhase' = IF l.good THEN "reading" ELSE "failed"
  /\ UNCHANGED <<configs, oldPorts, bound, monitorFds, childFds, unheard>>

(***************************************************************************)
(* Opening                                                                 *)
(***************************************************************************)
OpenFds == monitorFds \cup UNION childFds
InUse(fds, b, addr) == \E s \in fds : b[s] = addr

(* create_server_context with the port's certificate.                      *)
create_server_context(p) == p.cert # NoCert /\ p.cert \notin BadCerts

(* icap_init_server, icap_init_server_tls: what a port becomes when it is  *)
(* opened.  s carries the ports done, the sockets and whether all is well. *)
(* The result of BIO_do_accept is not looked at: a TLS port whose address  *)
(* is taken is configured, and BIO_get_fd gives it no socket or, by        *)
(* s.closed, the number of the one that OpenSSL has closed, which the next *)
(* socket gets.                                                            *)
Taken(s, p) == InUse(s.open \cup OpenFds, s.bound, p.addr)
icap_init_server(s, p) == ~p.tls /\ ~Taken(s, p)
icap_init_server_tls(s, p) == p.tls /\ create_server_context(p)

Opened(s, p) ==
  LET fd == Len(s.bound) + 1
      q == [p EXCEPT !.configured = TRUE, !.tls_details = p.tls, !.serves = p.cert]
  IN  IF Taken(s, p)
      THEN [s EXCEPT !.ports = Append(@, [q EXCEPT !.sock = IF s.closed THEN fd ELSE Invalid]), !.unheard = TRUE]
      ELSE [s EXCEPT !.bound = Append(@, p.addr), !.open = @ \cup {fd}, !.ports = Append(@, [q EXCEPT !.sock = fd])]

(* One turn of init_server's loop.                                         *)
WithPort(s, p) ==
  IF ~s.ok THEN [s EXCEPT !.ports = Append(@, p)]
  ELSE IF p.configured THEN [s EXCEPT !.ports = Append(@, p)]
  ELSE IF icap_init_server(s, p) \/ icap_init_server_tls(s, p) THEN Opened(s, p)
  ELSE [s EXCEPT !.ports = Append(@, p), !.ok = FALSE]

init_server(ps, fds, ok) ==
  \E closed \in BOOLEAN :
    LET s == FoldLeft(WithPort, [ports |-> <<>>, bound |-> bound, open |-> fds, ok |-> ok,
                                 closed |-> closed, unheard |-> unheard], ps)
    IN  /\ ports' = s.ports /\ bound' = s.bound /\ monitorFds' = s.open /\ unheard' = s.unheard
        /\ portPhase' = IF s.ok THEN "running" ELSE "failed"

(***************************************************************************)
(* Keeping                                                                 *)
(***************************************************************************)
(* The protocol is not compared.                                           *)
ci_port_compare_config(p, q) == p.addr = q.addr /\ p.tls = q.tls

(* ci_port_move_configured, as a pair of the new and the old port; the     *)
(* protocol comes with the socket.  ci_port_reconfigure_tls changes the    *)
(* certificate if it can.                                                  *)
Kept(p, q) ==
  [p EXCEPT !.configured = q.configured, !.sock = q.sock, !.proto = q.proto, !.tls_details = q.tls_details,
            !.serves = IF p.tls /\ create_server_context(p) THEN p.cert ELSE q.serves]
Emptied(q) == [q EXCEPT !.configured = FALSE, !.sock = Invalid, !.tls_details = FALSE]

(* Mutant: the old port keeps the socket, too.                             *)
ci_port_move_configured_Shared(p, q) == <<Kept(p, q), [q EXCEPT !.configured = FALSE]>>

ci_port_move_configured(p, q) == <<Kept(p, q), Emptied(q)>>

(* One turn of ci_port_handle_reconfigure: the first old port that a new   *)
(* one is the same as; the assertion of ci_port_reconfigure_tls fails when *)
(* that has been moved already.                                            *)
Matched(s, p) ==
  LET same == {k \in DOMAIN s.old : ci_port_compare_config(p, s.old[k])}
  IN  IF same = {} THEN [s EXCEPT !.new = Append(@, p)]
      ELSE LET k == CHOOSE k \in same : \A j \in same : k <= j
               moved == ci_port_move_configured(p, s.old[k])
           IN  [new |-> Append(s.new, moved[1]), old |-> [s.old EXCEPT ![k] = moved[2]],
                ok |-> s.ok /\ (p.tls => s.old[k].tls_details)]

ci_port_handle_reconfigure(new, old) == FoldLeft(Matched, [new |-> <<>>, old |-> old, ok |-> new # <<>>], new)

(* ci_port_list_release closes (ci_port_close, icap_close_server_tls) what *)
(* sockets a list of ports still has.                                      *)
ci_port_list_release(ps, fds) == fds \ {ps[i].sock : i \in DOMAIN ps}

(***************************************************************************)
(* The server                                                              *)
(***************************************************************************)
(* The end of the file, at the start and in system_reconfigure.  A file    *)
(* without ports fails init_server or an assertion.                        *)
EndOfFile ==
  /\ portPhase = "reading"
  /\ LET s == ci_port_handle_reconfigure(ports, oldPorts)
     IN  init_server(s.new, ci_port_list_release(s.old, monitorFds), s.ok)
  /\ UNCHANGED <<configs, oldPorts, childFds>>

(* The monitor forks a child, which closes nothing; a child ends.          *)
Fork ==
  /\ portPhase = "running" /\ Cardinality(childFds) < 2
  /\ childFds' = childFds \cup {monitorFds}
  /\ UNCHANGED <<portPhase, configs, ports, oldPorts, bound, monitorFds, unheard>>

ChildEnds ==
  /\ \E c \in childFds : childFds' = childFds \ {c}
  /\ UNCHANGED <<portPhase, configs, ports, oldPorts, bound, monitorFds, unheard>>

(* system_reconfigure until it reads the file.                             *)
Reconfigure ==
  /\ portPhase = "running" /\ configs < MaxConfigs
  /\ portPhase' = "reading" /\ configs' = configs + 1
  /\ oldPorts' = ports /\ ports' = <<>>
  /\ UNCHANGED <<bound, monitorFds, childFds, unheard>>

PortsNext ==
  \/ \E l \in PortLines : cfg_set_port(l)
  \/ EndOfFile \/ Fork \/ ChildEnds \/ Reconfigure

(***************************************************************************)
(* Properties                                                              *)
(***************************************************************************)
(* A server that runs listens at every port of its configuration, at each  *)
(* with a socket of its own, and has no other listening socket open; a     *)
(* port that was there in the configuration before is served through the   *)
(* same socket, so that no waiting connection is lost; a TLS port shows a  *)
(* certificate that is valid, the new one if that is; and a port speaks    *)
(* the protocol of its line or, when its socket was kept, the one it had   *)
(* before (port.c:60).  Excepted is a server that has opened a TLS port at *)
(* an address that was taken, by children of the configuration before or   *)
(* by another line: it does not notice (net_io_ssl.c:565-567)              *)
(* (ci_port_handle_reconfigure, ci_port_move_configured,                   *)
(* ci_port_list_release, init_server, ci_port_reconfigure_tls).            *)
PortsAsConfigured ==
  portPhase = "running" /\ ~unheard =>
    /\ monitorFds = {ports[i].sock : i \in DOMAIN ports}
    /\ \A i \in DOMAIN ports :
         /\ ports[i].sock # Invalid /\ bound[ports[i].sock] = ports[i].addr
         /\ \A j \in DOMAIN ports : ports[i].sock = ports[j].sock => i = j
         /\ ports[i].tls = ports[i].tls_details
         /\ ports[i].tls => /\ ports[i].serves \notin BadCerts \cup {NoCert}
                            /\ create_server_context(ports[i]) => ports[i].serves = ports[i].cert
         /\ \A k \in DOMAIN oldPorts :
              ci_port_compare_config(ports[i], oldPorts[k]) => ports[i].sock = oldPorts[k].sock
         /\ ports[i].proto \in {ports[i].asked} \cup {oldPorts[k].proto : k \in {k \in DOMAIN oldPorts :
                                                    oldPorts[k].sock = ports[i].sock}}
=============================================================================
