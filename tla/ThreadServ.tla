----------------------------- MODULE ThreadServ -----------------------------
(***************************************************************************)
(* What the two thread-per-client broadcast servers of HW8 (hw8_server.c   *)
(* and test_serv.c) share: main's accept loop, the table of client sockets *)
(* under the mutex mutx, the loop that reads a request and writes its      *)
(* result to every socket of the table, the process's descriptor table,    *)
(* and the clients at the other end (hw8_client.c).  The two servers       *)
(* differ in how a handler gets its descriptor and in how it unregisters:  *)
(* modules TestServ and Hw8Server add those steps and the next-state       *)
(* relation.                                                               *)
(*                                                                         *)
(* A handler thread is named after the connection main created it for.     *)
(* A request is the pair <<c, k>>: the k-th request of connection c.       *)
(* Its text, and the arithmetic on it, are abstracted: what matters here   *)
(* is who gets which message in which order.                               *)
(***************************************************************************)
EXTENDS Naturals, Sequences, FiniteSets

CONSTANTS Conns,    \* the connections clients may open
          Fds,      \* the descriptors accept() can return
          MAX_CLNT, \* entries of clnt_socks
          MaxReq,   \* bound: requests a client sends
          None

ASSUME FdsAssumption  == Fds \subseteq Nat \ {0}
ASSUME SizeAssumption == MAX_CLNT \in Nat \ {0} /\ MaxReq \in Nat
Requests == Conns \X (1 .. MaxReq)
ASSUME NoneAssumption == None \notin Conns \cup Requests

VARIABLES
  clnt_socks, \* the table of client sockets, a global array
  clnt_cnt,   \* how many of its entries are in use, a global
  mutx,       \* the thread that holds the mutex, None when it is free
  mpc,        \* main: "accept", then "append", then "create"
  clnt_sock,  \* main's local: what the last accept() returned
  cur,        \* the connection that descriptor was returned for
  pc,         \* each handler: where it is in handle_clnt
  sock,       \* each handler's own copy of its descriptor
  req,        \* the request a handler has read and not yet broadcast
  idx,        \* the loop index of the broadcast in progress
  files,      \* the open descriptors: the connection each refers to
  queued,     \* connections made and not yet accepted
  peer,       \* the client's end of each connection
  sent,       \* requests each client has written
  taken,      \* requests of each connection that some readv() returned
  stream,     \* what the kernel accepted for delivery to each client
  fate,       \* "running", or what ended the server
  prog        \* which of the servers this is

table == <<clnt_socks, clnt_cnt>>
main  == <<mpc, clnt_sock, cur>>
local == <<pc, sock, req, idx>>
net   == <<files, queued, peer, sent, taken, stream>>
vars  == <<clnt_socks, clnt_cnt, mutx, mpc, clnt_sock, cur, pc, sock, req,
           idx, files, queued, peer, sent, taken, stream, fate, prog>>

Slots    == 0 .. MAX_CLNT - 1
\* The client's end: open; open, its receive buffer full; closed (FIN sent);
\* gone (RST sent, either at exit with unread data or to a later write).
PeerStates == {"idle", "up", "stalled", "fin", "reset"}
Gone(c)    == peer[c] \in {"fin", "reset"}
\* Connections whose descriptor is in the table, between append and removal.
Registered(c) == \/ pc[c] \in {"start", "read", "lock", "send", "remove"}
                 \/ mpc = "create" /\ cur = c

Init == /\ clnt_socks = [i \in Slots |-> 0]
        /\ clnt_cnt = 0
        /\ mutx = None
        /\ mpc = "accept" /\ clnt_sock = 0 /\ cur = None
        /\ pc = [c \in Conns |-> "none"]
        /\ sock = [c \in Conns |-> 0]
        /\ req = [c \in Conns |-> None]
        /\ idx = 0
        /\ files = [fd \in Fds |-> None]
        /\ queued = {}
        /\ peer = [c \in Conns |-> "idle"]
        /\ sent = [c \in Conns |-> 0]
        /\ taken = [c \in Conns |-> 0]
        /\ stream = [c \in Conns |-> <<>>]
        /\ fate = "running"

-----------------------------------------------------------------------------
(* The clients. *)

Connect(c) ==
  /\ fate = "running" /\ peer[c] = "idle"
  /\ peer' = [peer EXCEPT ![c] = "up"]
  /\ queued' = queued \cup {c}
  /\ UNCHANGED <<table, mutx, main, local, files, sent, taken, stream, fate,
                 prog>>

\* The sending thread writes one request; the receiving thread is another one.
SendRequest(c) ==
  /\ peer[c] \in {"up", "stalled"} /\ sent[c] < MaxReq
  /\ sent' = [sent EXCEPT ![c] = @ + 1]
  /\ UNCHANGED <<table, mutx, main, local, files, queued, peer, taken, stream,
                 fate, prog>>

\* The receiving thread reads again and makes room in the socket.
Drain(c) ==
  /\ peer[c] = "stalled"
  /\ peer' = [peer EXCEPT ![c] = "up"]
  /\ UNCHANGED <<table, mutx, main, local, files, queued, sent, taken, stream,
                 fate, prog>>

\* close() and exit(1), or a signal: an orderly FIN, or an RST when received
\* data are still unread.
Exit(c) ==
  /\ peer[c] \in {"up", "stalled"}
  /\ \E end \in {"fin", "reset"} : peer' = [peer EXCEPT ![c] = end]
  /\ UNCHANGED <<table, mutx, main, local, files, queued, sent, taken, stream,
                 fate, prog>>

Client(c) == Connect(c) \/ SendRequest(c) \/ Drain(c) \/ Exit(c)

-----------------------------------------------------------------------------
(* main: accept, append under the mutex, create a handler. *)

\* POSIX: accept() returns the lowest descriptor that is not open.
Accept(c) ==
  /\ fate = "running" /\ mpc = "accept" /\ c \in queued
  /\ \E fd \in Fds :
       /\ files[fd] = None
       /\ \A other \in Fds : files[other] = None => fd <= other
       /\ files' = [files EXCEPT ![fd] = c]
       /\ clnt_sock' = fd
  /\ queued' = queued \ {c}
  /\ cur' = c
  /\ mpc' = "append"
  /\ UNCHANGED <<table, mutx, local, peer, sent, taken, stream, fate, prog>>

AppendEntry ==
  /\ fate = "running" /\ mpc = "append" /\ mutx = None
  /\ clnt_cnt < MAX_CLNT
  /\ clnt_socks' = [clnt_socks EXCEPT ![clnt_cnt] = clnt_sock]
  /\ clnt_cnt' = clnt_cnt + 1
  /\ mpc' = "create"
  /\ UNCHANGED <<mutx, clnt_sock, cur, local, net, fate, prog>>

\* Nothing checks the size of the table: the store of one client too many
\* lands outside the array.  What follows is undefined and not modelled.
AppendBeyond ==
  /\ fate = "running" /\ mpc = "append" /\ mutx = None
  /\ clnt_cnt = MAX_CLNT
  /\ clnt_cnt' = clnt_cnt + 1
  /\ fate' = "overrun"
  /\ UNCHANGED <<clnt_socks, mutx, main, local, net, prog>>

-----------------------------------------------------------------------------
(* A handler: read a request, broadcast its result. *)

ReadRequest(t) ==
  /\ fate = "running" /\ pc[t] = "read"
  /\ \E c \in Conns :
       /\ files[sock[t]] = c /\ taken[c] < sent[c]
       /\ taken' = [taken EXCEPT ![c] = @ + 1]
       /\ req' = [req EXCEPT ![t] = <<c, taken[c] + 1>>]
  /\ pc' = [pc EXCEPT ![t] = "lock"]
  /\ UNCHANGED <<table, mutx, main, sock, idx, files, queued, peer, sent,
                 stream, fate, prog>>

\* readv() returns 0 once everything a closed peer sent is read, or -1: the
\* connection was reset, or the descriptor is not open.
EndOfStream(fd) == LET c == files[fd] IN
  c # None => peer[c] = "reset" \/ (peer[c] = "fin" /\ taken[c] = sent[c])

ReadEnd(t) ==
  /\ fate = "running" /\ pc[t] = "read" /\ EndOfStream(sock[t])
  /\ pc' = [pc EXCEPT ![t] = "remove"]
  /\ UNCHANGED <<table, mutx, main, sock, req, idx, net, fate, prog>>

\* Variants: the broadcast without the mutex, and one that starts at entry 1.
NoLock(t) ==
  /\ fate = "running" /\ pc[t] = "lock"
  /\ mutx' = t
  /\ idx' = 0
  /\ pc' = [pc EXCEPT ![t] = "send"]
  /\ UNCHANGED <<table, main, sock, req, net, fate, prog>>
LockSkipFirst(t) ==
  /\ fate = "running" /\ pc[t] = "lock" /\ mutx = None
  /\ mutx' = t
  /\ idx' = 1
  /\ pc' = [pc EXCEPT ![t] = "send"]
  /\ UNCHANGED <<table, main, sock, req, net, fate, prog>>

Lock(t) ==
  /\ fate = "running" /\ pc[t] = "lock" /\ mutx = None
  /\ mutx' = t
  /\ idx' = 0
  /\ pc' = [pc EXCEPT ![t] = "send"]
  /\ UNCHANGED <<table, main, sock, req, net, fate, prog>>

\* One write() of the loop.  It blocks while the peer's buffer is full (no
\* step), and may itself fill that buffer; to a closed peer it provokes an
\* RST; on a descriptor that is not open it fails, and the code ignores it.
WriteOne(t) ==
  /\ fate = "running" /\ pc[t] = "send" /\ idx < clnt_cnt
  /\ LET c == files[clnt_socks[idx]]
         after == CASE c = None -> {peer}
                    [] c # None /\ peer[c] = "up" ->
                         {[peer EXCEPT ![c] = p] : p \in {"up", "stalled"}}
                    [] c # None /\ peer[c] = "stalled" -> {}
                    [] c # None /\ Gone(c) -> {[peer EXCEPT ![c] = "reset"]}
     IN /\ peer' \in after
        /\ stream' = IF c # None /\ peer[c] = "up"
                     THEN [stream EXCEPT ![c] = Append(@, req[t])]
                     ELSE stream
  /\ idx' = idx + 1
  /\ UNCHANGED <<table, mutx, main, pc, sock, req, files, queued, sent, taken,
                 fate, prog>>

\* A write() to a connection that was reset raises SIGPIPE, which neither
\* server ignores or handles: the whole process ends.
Sigpipe(t) ==
  /\ fate = "running" /\ pc[t] = "send" /\ idx < clnt_cnt
  /\ \E c \in Conns : files[clnt_socks[idx]] = c /\ peer[c] = "reset"
  /\ fate' = "sigpipe"
  /\ UNCHANGED <<table, mutx, main, local, net, prog>>

Unlock(t) ==
  /\ fate = "running" /\ pc[t] = "send" /\ idx >= clnt_cnt
  /\ mutx' = None
  /\ idx' = 0
  /\ req' = [req EXCEPT ![t] = None]
  /\ pc' = [pc EXCEPT ![t] = "read"]
  /\ UNCHANGED <<table, main, sock, net, fate, prog>>

Close(t) ==
  /\ fate = "running" /\ pc[t] = "close"
  /\ files' = [files EXCEPT ![sock[t]] = None]
  /\ pc' = [pc EXCEPT ![t] = "done"]
  /\ UNCHANGED <<table, mutx, main, sock, req, idx, queued, peer, sent, taken,
                 stream, fate, prog>>

-----------------------------------------------------------------------------
(* The state in which nothing is left to do: every client has come and gone, *)
(* and the server is waiting for another one, or has ended.                  *)
Finished ==
  /\ \/ fate # "running" /\ \A c \in Conns : Gone(c) \/ peer[c] = "idle"
     \/ /\ \A c \in Conns : Gone(c) /\ pc[c] = "done"
        /\ mpc = "accept" /\ mutx = None
  /\ UNCHANGED vars

-----------------------------------------------------------------------------
(* Properties the two servers share. *)

TypeOK ==
  /\ clnt_socks \in [Slots -> Fds \cup {0}]
  /\ clnt_cnt \in 0 .. MAX_CLNT + 1
  /\ mutx \in Conns \cup {None}
  /\ mpc \in {"accept", "append", "create"}
  /\ clnt_sock \in Fds \cup {0}
  /\ cur \in Conns \cup {None}
  /\ pc \in [Conns -> {"none", "start", "read", "lock", "send", "remove",
                       "close", "done"}]
  /\ sock \in [Conns -> Fds \cup {0}]
  /\ req \in [Conns -> Requests \cup {None}]
  /\ idx \in 0 .. MAX_CLNT
  /\ files \in [Fds -> Conns \cup {None}]
  /\ queued \subseteq Conns
  /\ peer \in [Conns -> PeerStates]
  /\ sent \in [Conns -> 0 .. MaxReq]
  /\ taken \in [Conns -> 0 .. MaxReq]
  /\ stream \in [Conns -> Seq(Requests)]
  /\ fate \in {"running", "sigpipe", "overrun"}

\* m comes before n in the sequence s.
Before(s, m, n) == \E i, j \in DOMAIN s : i < j /\ s[i] = m /\ s[j] = n

\* Two clients never receive two results in opposite orders, whoever asked
\* for them: the mutex makes the broadcasts of different handlers one
\* sequence (hw8_server.c send_all, test_serv.c lines 108-112).
SameOrder ==
  \A c, d \in Conns : \A i, j \in DOMAIN stream[c] :
    i < j /\ stream[c][i] # stream[c][j]
      => ~ Before(stream[d], stream[c][j], stream[c][i])

\* While a broadcast walks the table, nobody appends to it or removes from
\* it: main and the other handlers wait for the mutex.
StableDuringBroadcast ==
  [][mutx # None => UNCHANGED table]_vars
=============================================================================
