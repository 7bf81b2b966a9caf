----------------------------- MODULE Connections -----------------------------
(***************************************************************************)
(* One connection of a process (net_io.c, os/unix/net_io.c,                *)
(* openssl/net_io_ssl.c), plain or TLS: connecting with a timeout,         *)
(* accepting, the reads and writes that wait and those that do not, the    *)
(* two ways to close, and the two closes a worker may do (mpmt_server.c).  *)
(* The process has one descriptor to give: once it is closed another       *)
(* thread may get the same one.  Data is a sequence of numbered units.     *)
(***************************************************************************)
EXTENDS Integers, Sequences

CONSTANTS
  SocketRoom,     \* units the socket takes before write says EAGAIN
  ReadSize,       \* units a read asks for
  MaxNetUnits     \* bound: units each side sends

ASSUME ConnectionsAssumption == SocketRoom \in Nat \ {0} /\ ReadSize \in Nat \ {0} /\ MaxNetUnits \in Nat

VARIABLES
  tls,            \* the connection is (to be) a TLS one
  side,           \* "none", "client", "server": who made the object
  fd,             \* the object's fd: "invalid" or "one"
  ctx,            \* its tls_conn_pcontext: "null", "live", "dangling"
  holder,          \* of the descriptor: "free", "us", "others"
  peer,           \* "silent", "up", "closed" (it sends no more), "reset"
  call,           \* what the thread is in
  result,         \* of its last call
  left,           \* units of the buffer that ci_write still has
  inbox, got,     \* units the socket has for us; units given to callers
  outbox, sent,   \* units the peer has not taken; all units the socket took
  stolen          \* a close hit a descriptor of another thread

objVars == <<tls, side, fd, ctx>>
sysVars == <<holder, stolen>>
dataVars == <<left, inbox, got, outbox, sent>>
netVars == <<objVars, sysVars, dataVars, peer, call, result>>

Shorter(a, b) == IF a < b THEN a ELSE b
NoData == /\ left' = <<>> /\ inbox' = <<>> /\ got' = <<>> /\ outbox' = <<>> /\ sent' = <<>>

ConnectionsInit ==
  /\ tls \in BOOLEAN /\ side = "none" /\ fd = "invalid" /\ ctx = "null"
  /\ holder = "free" /\ stolen = FALSE
  /\ peer = "silent" /\ call = "idle" /\ result = 0
  /\ left = <<>> /\ inbox = <<>> /\ got = <<>> /\ outbox = <<>> /\ sent = <<>>

(***************************************************************************)
(* Closing                                                                 *)
(***************************************************************************)
(* close(2) of the object's descriptor, whoever has it now.                *)
CloseDescriptor ==
  /\ holder' = IF fd = "invalid" THEN holder ELSE "free"
  /\ stolen' = (stolen \/ (fd # "invalid" /\ holder = "others"))

(* The object is forgotten: what it still points to is lost.               *)
Forget ==
  /\ side' = "none" /\ tls' \in BOOLEAN /\ fd' = "invalid" /\ ctx' = "null" /\ call' = "idle"
  /\ peer' = "silent"
  /\ NoData

(* ci_connection_hard_close leaves no descriptor and no TLS object in it.  *)
HardClosed == fd' = "invalid" /\ ctx' = IF ctx = "live" THEN "null" ELSE ctx

(* ci_connection_destroy closes only an object that has a descriptor: the  *)
(* TLS object of one that never got it is not freed.                       *)
ci_connection_destroy == CloseDescriptor /\ Forget

(* Mutant: the descriptor stays in the object.                             *)
ci_connection_hard_close_Keeps ==
  /\ side = "server" /\ call \in {"idle", "again"}
  /\ CloseDescriptor /\ fd' = fd /\ ctx' = "null"
  /\ \/ call = "idle" /\ call' = "again"
     \/ call' = "closed"
  /\ UNCHANGED <<tls, side, peer, result, dataVars>>

(* A worker closes what CI_NO_STATUS left and, after the loop, closes the  *)
(* same object again; the object then stays as it is until its next use.   *)
ci_connection_hard_close ==
  /\ side = "server" /\ call \in {"idle", "again"}
  /\ CloseDescriptor /\ HardClosed
  /\ \/ call = "idle" /\ call' = "again"
     \/ call' = "closed"
  /\ UNCHANGED <<tls, side, peer, result, dataVars>>

(* ci_linger_close: no more of ours, then what the peer still sends is     *)
(* thrown away until there is none for a while.  A TLS connection is       *)
(* closed hard.                                                            *)
ci_connection_linger_close ==
  /\ side = "server" /\ call = "idle"
  /\ \/ tls /\ CloseDescriptor /\ HardClosed /\ call' = "closed"
     \/ ~tls /\ call' = "lingers" /\ UNCHANGED <<holder, stolen, fd, ctx>>
  /\ UNCHANGED <<tls, side, peer, result, dataVars>>

(* The descriptor stays in the object: nobody closes it once more.         *)
ci_linger_close ==
  /\ call = "lingers"
  /\ \/ inbox # <<>> /\ peer # "reset" /\ inbox' = SubSeq(inbox, Shorter(ReadSize, Len(inbox)) + 1, Len(inbox))
        /\ got' = got \o SubSeq(inbox, 1, Shorter(ReadSize, Len(inbox)))
        /\ UNCHANGED <<holder, stolen, call>>
     \/ (inbox = <<>> \/ peer = "reset")
        /\ CloseDescriptor /\ call' = "closed" /\ UNCHANGED <<inbox, got>>
  /\ UNCHANGED <<objVars, peer, result, left, outbox, sent>>

(* The next connection of the worker is copied over the object.            *)
ci_copy_connection == call = "closed" /\ Forget /\ UNCHANGED <<sysVars, result>>

(***************************************************************************)
(* Making a connection                                                     *)
(***************************************************************************)
(* The listener resets the object and accepts; a failure leaves it         *)
(* without a descriptor.                                                   *)
icap_accept_raw_connection ==
  /\ ~tls /\ side = "none" /\ holder = "free"
  /\ \/ side' = "server" /\ fd' = "one" /\ holder' = "us" /\ peer' = "up"
     \/ fd' = "invalid" /\ UNCHANGED <<side, holder, peer>>
  /\ ctx' = "null"
  /\ UNCHANGED <<tls, stolen, call, result, dataVars>>

(* A handshake that fails frees the TLS object and leaves the pointer to   *)
(* it, until the listener's next round resets it.                          *)
icap_accept_tls_connection ==
  /\ tls /\ side = "none" /\ holder = "free"
  /\ \/ side' = "server" /\ fd' = "one" /\ holder' = "us" /\ ctx' = "live" /\ peer' = "up"
     \/ fd' = "invalid" /\ ctx' = "dangling" /\ UNCHANGED <<side, holder, peer>>
  /\ UNCHANGED <<tls, stolen, call, result, dataVars>>

(* A socket that is being connected, or none.                              *)
ci_socket_connect ==
  \/ fd' = "one" /\ holder' = "us" /\ call' = "connecting"
  \/ fd' = "invalid" /\ call' = "failed" /\ UNCHANGED holder

(* The first call of ci_connect_ms_to_address.                             *)
ci_connect_to_address_nonblock ==
  /\ ~tls /\ side = "none" /\ holder = "free"
  /\ side' = "client" /\ ctx' = "null" /\ ci_socket_connect
  /\ UNCHANGED <<tls, stolen, peer, result, dataVars>>

(* With TLS BIO_do_connect makes the socket, after the TLS object.         *)
ci_tls_connect_to_address_nonblock ==
  /\ tls /\ side = "none" /\ holder = "free"
  /\ side' = "client" /\ ctx' = "live" /\ ci_socket_connect
  /\ UNCHANGED <<tls, stolen, peer, result, dataVars>>

(* What ci_wait_ms_for_data returns: the socket's state first; a timeout   *)
(* or a signal only when there is nothing.                                 *)
ci_wait_ms_for_data(ready) ==
  IF peer = "reset" THEN {"error"} ELSE IF ready THEN {"ready"} ELSE {"timeout", "retry"}

(* ci_socket_connected_ok and ci_connection_init, which may fail.          *)
Connected == \/ call' = "idle" /\ result' = 1
             \/ call' = "failed" /\ UNCHANGED result

(* A plain connect waits until it is interrupted no more, and fails on a   *)
(* timeout.                                                                *)
ci_connect_ms_to_address ==
  /\ ~tls /\ call = "connecting"
  /\ \E r \in ci_wait_ms_for_data(peer # "silent") :
       \/ r = "ready" /\ Connected
       \/ r \in {"error", "timeout"} /\ call' = "failed" /\ UNCHANGED result
       \/ r = "retry" /\ UNCHANGED <<call, result>>
  /\ UNCHANGED <<objVars, sysVars, peer, dataVars>>

(* A TLS connect takes a timeout for a reason to wait again, and what is   *)
(* ready may be only a step of the handshake.                              *)
ci_tls_connect_ms_to_address ==
  /\ tls /\ call = "connecting"
  /\ \E r \in ci_wait_ms_for_data(peer # "silent") :
       \/ r = "ready" /\ Connected
       \/ r \in {"ready", "timeout", "retry"} /\ UNCHANGED <<call, result>>
       \/ r = "error" /\ call' = "failed" /\ UNCHANGED result
  /\ UNCHANGED <<objVars, sysVars, peer, dataVars>>

ConnectFails == call = "failed" /\ ci_connection_destroy /\ result' = 0

(* The caller of ci_connect is done.                                       *)
ClientDone == side = "client" /\ call = "idle" /\ ci_connection_destroy /\ UNCHANGED result

(***************************************************************************)
(* Reading and writing                                                     *)
(***************************************************************************)
(* A caller whose write failed gives the connection up.                    *)
Usable == fd = "one" /\ peer # "silent" /\ left = <<>>

(* read(2): what there is, up to ReadSize; 0 at the end; EAGAIN.           *)
Take ==
  LET n == Shorter(ReadSize, Len(inbox))
  IN got' = got \o SubSeq(inbox, 1, n) /\ inbox' = SubSeq(inbox, n + 1, Len(inbox)) /\ result' = n
CanTake == inbox # <<>> /\ peer # "reset"
NothingYet == inbox = <<>> /\ peer = "up"
ReadFails == result' = -1 /\ UNCHANGED <<inbox, got>>

(* ci_connection_read: reads; if there is nothing yet it waits.            *)
ci_connection_read ==
  /\ Usable /\ call = "idle"
  /\ \/ CanTake /\ Take /\ UNCHANGED call
     \/ NothingYet /\ call' = "read_wait" /\ UNCHANGED <<inbox, got, result>>
     \/ ~CanTake /\ ~NothingYet /\ ReadFails /\ UNCHANGED call
  /\ UNCHANGED <<objVars, sysVars, peer, left, outbox, sent>>

(* ci_read waits while the result has the bit of ci_wait_should_retry,     *)
(* which -1 has: a connection that is reset while it waits keeps it there. *)
ci_read ==
  /\ ~tls /\ call = "read_wait"
  /\ \E r \in ci_wait_ms_for_data(inbox # <<>> \/ peer = "closed") :
       \/ r = "ready" /\ call' = "idle" /\ (IF CanTake THEN Take ELSE ReadFails)
       \/ r = "retry" /\ UNCHANGED <<call, result, inbox, got>>
       \/ r = "error" /\ call' = "spins" /\ UNCHANGED <<result, inbox, got>>
       \/ r = "timeout" /\ call' = "idle" /\ ReadFails
  /\ UNCHANGED <<objVars, sysVars, peer, left, outbox, sent>>

(* With TLS it reads again only after a timeout, when there is nothing:    *)
(* otherwise the first result stands.                                      *)
ci_connection_read_tls ==
  /\ tls /\ call = "read_wait" /\ call' = "idle" /\ ReadFails
  /\ UNCHANGED <<objVars, sysVars, peer, left, outbox, sent>>

ci_read_nonblock ==
  /\ Usable /\ call = "idle"
  /\ \/ CanTake /\ Take
     \/ NothingYet /\ result' = 0 /\ UNCHANGED <<inbox, got>>
     \/ ~CanTake /\ ~NothingYet /\ ReadFails
  /\ UNCHANGED <<objVars, sysVars, peer, call, left, outbox, sent>>

(* With TLS the end of the stream, or an error, counts as nothing yet when *)
(* errno happens to be one that is ignored.                                *)
ci_connection_read_nonblock_tls ==
  /\ tls /\ Usable /\ call = "idle" /\ ~CanTake /\ ~NothingYet
  /\ result' = 0
  /\ UNCHANGED <<objVars, sysVars, peer, call, dataVars>>

(* write(2): as much of b as there is room for.                            *)
SocketFree == SocketRoom - Len(outbox)
CanPut == SocketFree > 0 /\ peer # "reset"
Put(b) ==
  LET n == Shorter(SocketFree, Len(b))
  IN outbox' = outbox \o SubSeq(b, 1, n) /\ sent' = sent \o SubSeq(b, 1, n)

(* The rest of the buffer after a write: b + bytes.                        *)
Rest(b) == SubSeq(b, Shorter(SocketFree, Len(b)) + 1, Len(b))

(* The n units that the caller writes next.                                *)
Buffer(n) == [i \in 1..n |-> Len(sent) + i]

(* ci_connection_write keeps writing until all is written.                 *)
ci_connection_write(n) ==
  /\ Usable /\ call = "idle" /\ Len(sent) + n <= MaxNetUnits
  /\ left' = Buffer(n) /\ call' = "writing"
  /\ UNCHANGED <<objVars, sysVars, peer, result, inbox, got, outbox, sent>>

(* The loop of ci_write, which returns count; ci_connection_write_tls      *)
(* returns what its last BIO_write wrote.                                  *)
ci_write ==
  /\ call = "writing"
  /\ \/ /\ CanPut /\ Put(left) /\ left' = Rest(left)
        /\ IF Rest(left) = <<>> THEN call' = "idle" /\ result' = 1 ELSE UNCHANGED <<call, result>>
     \/ ~CanPut /\ peer # "reset" /\ call' = "write_wait" /\ UNCHANGED <<left, result, outbox, sent>>
     \/ peer = "reset" /\ call' = "idle" /\ result' = -1 /\ UNCHANGED <<left, outbox, sent>>
  /\ UNCHANGED <<objVars, sysVars, peer, inbox, got>>

(* The wait of ci_write, as that of ci_read.                               *)
WriteWaits ==
  /\ ~tls /\ call = "write_wait"
  /\ \E r \in ci_wait_ms_for_data(SocketFree > 0) :
       \/ r = "ready" /\ call' = "writing" /\ UNCHANGED result
       \/ r = "retry" /\ UNCHANGED <<call, result>>
       \/ r = "timeout" /\ call' = "idle" /\ result' = -1
       \/ r = "error" /\ call' = "spins" /\ UNCHANGED result
  /\ UNCHANGED <<objVars, sysVars, peer, dataVars>>

ci_connection_write_tls ==
  /\ tls /\ call = "write_wait"
  /\ \E r \in ci_wait_ms_for_data(SocketFree > 0) :
       \/ r \in {"ready", "retry"} /\ call' = "writing" /\ UNCHANGED result
       \/ r \in {"timeout", "error"} /\ call' = "idle" /\ result' = -1
  /\ UNCHANGED <<objVars, sysVars, peer, dataVars>>

(* What ci_write_nonblock does not take stays with the caller.             *)
ci_write_nonblock(n) ==
  /\ Usable /\ call = "idle" /\ Len(sent) + n <= MaxNetUnits
  /\ \/ CanPut /\ Put(Buffer(n)) /\ result' = Shorter(SocketFree, n)
     \/ ~CanPut /\ peer # "reset" /\ result' = 0 /\ UNCHANGED <<outbox, sent>>
     \/ peer = "reset" /\ result' = -1 /\ UNCHANGED <<outbox, sent>>
  /\ UNCHANGED <<objVars, sysVars, peer, call, left, inbox, got>>

(* As with reading, an error may count as no room.                         *)
ci_connection_write_nonblock_tls ==
  /\ tls /\ Usable /\ call = "idle" /\ peer = "reset"
  /\ result' = 0
  /\ UNCHANGED <<objVars, sysVars, peer, call, dataVars>>

(***************************************************************************)
(* The other side, and the other threads                                   *)
(***************************************************************************)
PeerMoves ==
  /\ holder = "us"
  /\ \/ peer = "silent" /\ peer' = "up" /\ UNCHANGED <<inbox, outbox>>
     \/ /\ peer = "up" /\ Len(got) + Len(inbox) < MaxNetUnits
        /\ inbox' = Append(inbox, Len(got) + Len(inbox) + 1) /\ UNCHANGED <<peer, outbox>>
     \/ peer \in {"up", "closed"} /\ outbox # <<>> /\ outbox' = Tail(outbox) /\ UNCHANGED <<peer, inbox>>
     \/ peer = "up" /\ peer' = "closed" /\ UNCHANGED <<inbox, outbox>>
     \/ peer' = "reset" /\ peer # "reset" /\ UNCHANGED <<inbox, outbox>>
  /\ UNCHANGED <<objVars, sysVars, call, result, left, got, sent>>

OtherThreads ==
  /\ \/ holder = "free" /\ holder' = "others"
     \/ holder = "others" /\ holder' = "free"
  /\ UNCHANGED <<objVars, stolen, peer, call, result, dataVars>>

ConnectionsNext ==
  \/ ci_connection_hard_close \/ ci_connection_linger_close \/ ci_linger_close \/ ci_copy_connection
  \/ icap_accept_raw_connection \/ icap_accept_tls_connection
  \/ ci_connect_to_address_nonblock \/ ci_connect_ms_to_address
  \/ ci_tls_connect_to_address_nonblock \/ ci_tls_connect_ms_to_address
  \/ ConnectFails \/ ClientDone
  \/ ci_connection_read \/ ci_read \/ ci_connection_read_tls
  \/ ci_read_nonblock \/ ci_connection_read_nonblock_tls
  \/ \E n \in 1..ReadSize : ci_connection_write(n) \/ ci_write_nonblock(n)
  \/ ci_write \/ WriteWaits \/ ci_connection_write_tls \/ ci_connection_write_nonblock_tls
  \/ PeerMoves \/ OtherThreads

ConnectionsSpec == ConnectionsInit /\ [][ConnectionsNext]_netVars

(***************************************************************************)
(* Properties                                                              *)
(***************************************************************************)
InOrder(s) == s = [i \in 1..Len(s) |-> i]

(* Whatever the waits, signals, short reads and short writes: every unit   *)
(* crosses the connection once and in order; a write that reports success  *)
(* has nothing left; an open object has its descriptor to itself and, with *)
(* TLS, a TLS object; no close ever hits a descriptor that another thread  *)
(* got meanwhile, although a worker may close twice; and when no object is *)
(* left no descriptor of ours is.                                          *)
TransfersExact ==
  /\ InOrder(got \o inbox) /\ InOrder(sent)
  /\ call = "idle" /\ result > 0 => left = <<>>
  /\ ~stolen
  /\ fd = "one" /\ call # "closed" => holder = "us" /\ (tls => ctx = "live")
  /\ holder = "us" => fd = "one"
=============================================================================
