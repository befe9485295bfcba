----------------------------- MODULE Hw8Server ------------------------------
(***************************************************************************)
(* HW8/2020115885/hw8_server.c, and the class sample chat_serv.c it is     *)
(* built on, with chat_clnt.c: every handler gets the address of main's    *)
(* one clnt_sock, and unregistering shifts the table from one entry too    *)
(* late.  chat_serv.c takes only a 0 from read() for the end.              *)
(***************************************************************************)
EXTENDS ThreadServ

Create ==
  /\ fate = "running" /\ mpc = "create"
  /\ pc' = [pc EXCEPT ![cur] = "start"]
  /\ mpc' = "accept" /\ cur' = None
  /\ UNCHANGED <<table, mutx, clnt_sock, sock, req, idx, net, fate, prog>>

\* The copy of line 72 reads main's variable as it is when the thread gets to
\* run: main may have accepted another client by then.
Start(t) ==
  /\ fate = "running" /\ pc[t] = "start"
  /\ sock' = [sock EXCEPT ![t] = clnt_sock]
  /\ pc' = [pc EXCEPT ![t] = "read"]
  /\ UNCHANGED <<table, mutx, main, req, idx, net, fate, prog>>

FirstEntry(fd) == {i \in 0 .. clnt_cnt - 1 :
                     /\ clnt_socks[i] = fd
                     /\ \A j \in 0 .. i - 1 : clnt_socks[j] # fd}

\* "while (i++ < clnt_cnt-1)" has incremented i before the first assignment:
\* entry i stays, entry i + 1 is lost.  (The last assignment also copies the
\* entry past the table to a place that the decrement puts out of use.)
ShiftAfter(i) == [j \in Slots |-> IF j \in i + 1 .. clnt_cnt - 2
                                  THEN clnt_socks[j + 1] ELSE clnt_socks[j]]

\* Variant: one that counts down only when the descriptor was in the table, the
\* way test_serv.c does it.
RemoveIfFound(t) ==
  /\ fate = "running" /\ pc[t] = "remove" /\ mutx = None
  /\ \/ \E i \in FirstEntry(sock[t]) : /\ clnt_socks' = ShiftAfter(i)
                                       /\ clnt_cnt' = clnt_cnt - 1
     \/ FirstEntry(sock[t]) = {} /\ UNCHANGED table
  /\ pc' = [pc EXCEPT ![t] = "close"]
  /\ UNCHANGED <<mutx, main, sock, req, idx, net, fate, prog>>

Remove(t) ==
  /\ fate = "running" /\ pc[t] = "remove" /\ mutx = None
  /\ \/ \E i \in FirstEntry(sock[t]) : clnt_socks' = ShiftAfter(i)
     \/ FirstEntry(sock[t]) = {} /\ UNCHANGED clnt_socks
  /\ clnt_cnt' = clnt_cnt - 1
  /\ pc' = [pc EXCEPT ![t] = "close"]
  /\ UNCHANGED <<mutx, main, sock, req, idx, net, fate, prog>>

\* When read() returns -1, chat_serv.c sends -1 bytes to everybody, which
\* write() refuses, and reads again.  A connection that was reset reports its
\* error once, and then its end; a descriptor that another handler has closed
\* reports one for as long as accept() does not give it to somebody.
Closed(t) == files[sock[t]] = None

Spin(t) ==
  /\ prog = "chat_serv" /\ fate = "running" /\ pc[t] = "read" /\ mutx = None
  /\ \/ Closed(t)
     \/ \E c \in Conns : files[sock[t]] = c /\ peer[c] = "reset"
  /\ UNCHANGED vars

\* Only a 0 ends the loop of chat_serv.c.
ReadReturnsEnd(t) == ReadEnd(t) /\ ~ (prog = "chat_serv" /\ Closed(t))

Main == (\E c \in Conns : Accept(c)) \/ AppendEntry \/ AppendBeyond \/ Create

Handler(t) == \/ Start(t) \/ ReadRequest(t)
              \/ Spin(t) \/ ReadReturnsEnd(t)
              \/ Lock(t) \/ WriteOne(t) \/ Sigpipe(t) \/ Unlock(t)
              \/ Remove(t) \/ Close(t)

Next == \/ Main
        \/ \E c \in Conns : Client(c) \/ Handler(c)
        \/ Finished

Hw8Init == Init /\ prog \in {"hw8_server", "chat_serv"}

Spec == Hw8Init /\ [][Next]_vars

-----------------------------------------------------------------------------
(* What holds in spite of the shared descriptor and of the faulty shift. *)

\* clnt_cnt, decremented by every handler whether or not it found its entry,
\* counts the connections whose handler has not cleaned up: it never goes
\* negative and never runs ahead of them (lines 53 and 141).
CountsHandlers ==
  fate # "overrun" => clnt_cnt = Cardinality({c \in Conns : Registered(c)})

-----------------------------------------------------------------------------
(* What the comments say, and the code does not do. *)

\* "a thread for the new client" (chat_serv.c line 60): each handler serves
\* the connection it was created for.
HandlerServesItsClient ==
  \A c \in Conns : pc[c] = "read" => files[sock[c]] \in {c, None}

\* "send to all clients" (hw8_server.c line 91): when no broadcast or
\* registration is under way, every client whose handler is reading is in
\* the table.
EveryClientListed ==
  mutx = None =>
    \A c \in Conns :
      pc[c] = "read" /\ files[sock[c]] = c =>
        \E i \in 0 .. clnt_cnt - 1 : clnt_socks[i] = sock[c]

\* "the client exits normally or is killed (exit, Ctrl+C)" is a case the
\* handler handles (hw8_server.c line 95): it does not end the server.
ExitDoesNotEndServer == fate # "sigpipe"
=============================================================================
