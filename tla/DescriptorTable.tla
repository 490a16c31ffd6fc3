-------------------------- MODULE DescriptorTable ---------------------------
(***************************************************************************)
(* The connection tables of two single-threaded servers, both emptied by   *)
(* moving the last entry into the gap: the vector clients of               *)
(* topics/io/tcp_echo_server_nonblocking.cpp, which is gone through in     *)
(* every round, and pfds of network_thread in                              *)
(* extras/latency/v5_poll_pool_lockfree.cpp, where poll says how many      *)
(* entries to look for.  Closed descriptors are used again.  The listening *)
(* descriptor is pfds[0] and is left out of the table here.                *)
(***************************************************************************)
EXTENDS Naturals, Sequences, FiniteSets

CONSTANTS MaxFds,       \* clients at once: MAX_FDS - 1 for poll
          MaxConns      \* bounds the connections of a run

VARIABLES server,       \* "echo" or "poll"
          conn,         \* the kernel: open descriptor -> what recv finds there
          waiting,      \* connections to accept
          table,        \* clients, or pfds[1..nfds-1]: [fd, revents]
          pc, i, ret,
          told, seen,   \* the descriptors to serve in this round, those looked at
          junk          \* a revents nobody has written is in the table

vars == <<server, conn, waiting, table, pc, i, ret, told, seen, junk>>
Ready(fd) == conn[fd] # "nothing"
InTable == {table[k].fd : k \in DOMAIN table}
NewFd == CHOOSE fd \in 1..MaxFds + 1 : fd \notin DOMAIN conn /\ \A g \in 1..fd - 1 : g \in DOMAIN conn
Opened(fd) == [g \in DOMAIN conn \cup {fd} |-> IF g = fd THEN "nothing" ELSE conn[g]]
Closed(fd) == [g \in DOMAIN conn \ {fd} |-> conn[g]]
Loop == UNCHANGED <<server, waiting>>

Init ==
  /\ server \in {"echo", "poll"} /\ conn = [fd \in {} |-> "nothing"] /\ waiting = MaxConns
  /\ table = <<>> /\ pc = "round" /\ i = 1 /\ ret = 0 /\ told = {} /\ seen = {} /\ junk = FALSE

\* a client sends, closes its end, or its connection breaks
Client ==
  /\ pc # "ended"
  /\ \E fd \in DOMAIN conn :
       \/ conn[fd] = "nothing" /\ conn' = [conn EXCEPT ![fd] = "data"]
       \/ conn[fd] \in {"nothing", "data"} /\ \E x \in {"eof", "error"} : conn' = [conn EXCEPT ![fd] = x]
  /\ UNCHANGED <<server, waiting, table, pc, i, ret, told, seen, junk>>

\* what recv leaves in a descriptor it has read; an error is reported once
Drained(fd) == [conn EXCEPT ![fd] = IF @ = "error" THEN "eof" ELSE "nothing"]
\* close(fd); table[i] = table.back(); table.pop_back()
SwapRemoved == SubSeq([table EXCEPT ![i] = table[Len(table)]], 1, Len(table) - 1)

\* the echo server: accept, if somebody waits
EchoAccept ==
  /\ server = "echo" /\ pc = "round" /\ pc' = "scan" /\ i' = 1 /\ seen' = {}
  /\ \/ /\ waiting > 0 /\ waiting' = waiting - 1 /\ Cardinality(DOMAIN conn) < MaxFds
        /\ table' = Append(table, [fd |-> NewFd, revents |-> FALSE]) /\ conn' = Opened(NewFd)
     \/ UNCHANGED <<waiting, table, conn>>
  /\ told' = {table'[k].fd : k \in DOMAIN table'}
  /\ UNCHANGED <<server, ret, junk>>
\* accept fails for another reason: the loop is left and everything closed
EchoFail ==
  /\ server = "echo" /\ pc = "round" /\ pc' = "ended"
  /\ conn' = [fd \in DOMAIN conn \ InTable |-> conn[fd]] /\ table' = <<>>
  /\ UNCHANGED <<i, ret, told, seen, junk>> /\ Loop
EchoScanSkips ==
  /\ server = "echo" /\ pc = "scan" /\ i <= Len(table) /\ i' = i + 1
  /\ LET fd == table[i].fd IN
       /\ seen' = seen \cup {fd}
       /\ IF conn[fd] \in {"eof", "error"} THEN conn' = Closed(fd) /\ table' = SwapRemoved
          ELSE conn' = Drained(fd) /\ UNCHANGED table
  /\ UNCHANGED <<pc, ret, told, junk>> /\ Loop
EchoScan ==
  /\ server = "echo" /\ pc = "scan" /\ i <= Len(table)
  /\ LET fd == table[i].fd IN
       /\ seen' = seen \cup {fd}
       /\ \/ /\ conn[fd] \in {"eof", "error"}
             /\ conn' = Closed(fd) /\ table' = SwapRemoved /\ UNCHANGED i
          \/ /\ conn[fd] \in {"nothing", "data"}
             /\ conn' = Drained(fd) /\ i' = i + 1 /\ UNCHANGED table
  /\ UNCHANGED <<pc, ret, told, junk>> /\ Loop
\* the benchmark ends the loop when no client is connected
EchoRound ==
  /\ server = "echo" /\ pc = "scan" /\ i > Len(table)
  /\ pc' \in (IF table = <<>> THEN {"round", "ended"} ELSE {"round"})
  /\ UNCHANGED <<conn, table, i, ret, told, seen, junk>> /\ Loop

\* poll writes revents; the listening descriptor is looked at first
Poll ==
  /\ server = "poll" /\ pc = "round"
  /\ told' = {fd \in InTable : Ready(fd)} /\ seen' = {} /\ junk' = FALSE
  /\ ret' = Cardinality(told') + (IF waiting > 0 THEN 1 ELSE 0)
  /\ table' = [k \in DOMAIN table |-> [table[k] EXCEPT !.revents = table[k].fd \in told']]
  /\ pc' = (IF ret' = 0 THEN "round" ELSE IF waiting > 0 THEN "accept" ELSE "scan")
  /\ i' = 1 /\ UNCHANGED conn /\ Loop
\* a connection over MAX_FDS is closed at once, accept may fail, and a new entry's revents is what
\* the array held
PollAccept ==
  /\ server = "poll" /\ pc = "accept" /\ pc' = "scan" /\ ret' = ret - 1 /\ waiting' = waiting - 1
  /\ \/ /\ Len(table) < MaxFds /\ conn' = Opened(NewFd)
        /\ \E r \in BOOLEAN : table' = Append(table, [fd |-> NewFd, revents |-> r]) /\ junk' = r
     \/ UNCHANGED <<conn, table, junk>>
  /\ UNCHANGED <<server, i, told, seen>>
PollScan ==
  /\ server = "poll" /\ pc = "scan" /\ i <= Len(table) /\ ret > 0
  /\ LET fd == table[i].fd IN
     \/ ~table[i].revents /\ i' = i + 1 /\ UNCHANGED <<conn, table, ret, seen>>
     \/ /\ table[i].revents /\ ret' = ret - 1 /\ seen' = seen \cup {fd}
        /\ \/ conn[fd] = "eof" /\ conn' = Closed(fd) /\ table' = SwapRemoved /\ UNCHANGED i
           \/ conn[fd] # "eof" /\ conn' = Drained(fd) /\ i' = i + 1 /\ UNCHANGED table
  /\ UNCHANGED <<pc, told, junk>> /\ Loop
PollRound ==
  /\ server = "poll" /\ pc = "scan" /\ (i > Len(table) \/ ret = 0) /\ pc' = "round"
  /\ UNCHANGED <<conn, table, i, ret, told, seen, junk>> /\ Loop
\* g_running is false: every client is closed
PollStop ==
  /\ server = "poll" /\ pc = "round" /\ pc' = "ended"
  /\ conn' = [fd \in DOMAIN conn \ InTable |-> conn[fd]] /\ table' = <<>>
  /\ UNCHANGED <<i, ret, told, seen, junk>> /\ Loop

Next ==
  \/ Client \/ EchoAccept \/ EchoFail \/ EchoScan \/ EchoRound
  \/ Poll \/ PollAccept \/ PollScan \/ PollRound \/ PollStop

----------------------------------------------------------------------------
(* The table holds every open connection once, although descriptors come   *)
(* back after a close and entries move: none leaks, none is closed twice,  *)
(* and none is left open at the end.  And moving entries hides nobody:     *)
(* when a round is over, everyone who was to be served was, except that    *)
(* the revents of a new entry, which nobody has written, may use up a      *)
(* count poll meant for another.                                           *)
ConnectionsExact ==
  /\ InTable = DOMAIN conn /\ Len(table) = Cardinality(InTable)
  /\ pc = "ended" => DOMAIN conn = {}
  /\ pc = "scan" /\ (i > Len(table) \/ (server = "poll" /\ ret = 0)) /\ ~junk => told \subseteq seen
=============================================================================
