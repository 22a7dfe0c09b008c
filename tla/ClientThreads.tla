---------------------------- MODULE ClientThreads ----------------------------
(***************************************************************************)
(* The client as a process: main partitions the file, starts NUM_THREADS   *)
(* threads and joins them; the threads open and close sockets in one table *)
(* of descriptors.  On the other side is one ucp_server up to the point    *)
(* where it has connected back.  What a connected thread and the server    *)
(* then exchange is the subject of UcpTransfer; here a transfer is a state *)
(* of its thread.                                                          *)
(*                                                                         *)
(* Descriptors are counted from the first one behind the standard streams. *)
(* socket() does not fail for want of descriptors.                         *)
(***************************************************************************)
EXTENDS Integers, FiniteSets, FiniteSetsExt, Functions

CONSTANTS NUM_THREADS,
          OneHost,           \* whether client and server share a host: the choices
          PortsMayBeTaken,   \* other programs may hold the client's ports
          PartitionMayFail,  \* split may fail
          MetaMayBeLost,     \* a metadata datagram may be lost
          StrayMayCrash      \* reading through an uninitialised pointer may crash

ASSUME ThreadsAssumption ==
  /\ NUM_THREADS \in Nat \ {0}
  /\ OneHost \subseteq BOOLEAN
  /\ {PortsMayBeTaken, PartitionMayFail, MetaMayBeLost, StrayMayCrash}
       \subseteq BOOLEAN

Threads == 0 .. NUM_THREADS - 1

CLIENT_BASE_PORT == 6341
SERVER_BASE_PORT == 6342

VARIABLES mpc,       \* main: "partition", "create", "join", "returned"
          idx,       \* the index of main's loops
          crashed,   \* the client process has died
          pc,        \* of each thread: see Steps
          fdt,       \* the descriptor table: what each open descriptor is
          sock,      \* sock_fd of each thread
          tcp,       \* tcp_server_t of each thread
          backlog,   \* threads that have a connection to accept
          net,       \* metadata datagrams under way
          server,    \* "down", "failed", "bound", "metadata", "refused",
                     \* "connected", "exited"
          peer,      \* the port the server connects to
          oneHost    \* client and server share a host

mainVars == <<mpc, idx>>
serverVars == <<server, peer>>
vars == <<mainVars, crashed, pc, fdt, sock, tcp, backlog, net, serverVars, oneHost>>

Steps == {"none", "socket", "bind", "listen", "metadata", "accept", "transfer", "ended"}

NoServer == [sd |-> -1, max_sd |-> -1, fds |-> {}, freed |-> FALSE]

Init ==
  /\ mpc = "partition" /\ idx = 0
  /\ crashed = FALSE
  /\ pc = [t \in Threads |-> "none"]
  /\ fdt = << >>
  /\ sock = [t \in Threads |-> -1]
  /\ tcp = [t \in Threads |-> NoServer]
  /\ backlog = {}
  /\ net = {}
  /\ server = "down" /\ peer = 0
  /\ oneHost \in OneHost

-----------------------------------------------------------------------------
(***************************************************************************)
(* The descriptor table.  The kernel hands out the least unused number.    *)
(***************************************************************************)

NewFd == Min((0 .. Cardinality(DOMAIN fdt)) \ DOMAIN fdt)

Opened(fd, t, kind) ==
  [x \in DOMAIN fdt \cup {fd} |->
     IF x = fd THEN [thread |-> t, kind |-> kind] ELSE fdt[x]]

Closed(fd) == Restrict(fdt, DOMAIN fdt \ {fd})

Crash ==
  /\ crashed' = TRUE
  /\ fdt' = << >>
  /\ UNCHANGED <<mainVars, pc, sock, tcp, backlog, net, serverVars, oneHost>>

-----------------------------------------------------------------------------
(***************************************************************************)
(* main.                                                                   *)
(***************************************************************************)

\* One descriptor for each part.  When split fails there are no handles, and
\* main does not notice.
Partition(ok) ==
  /\ ~ crashed /\ mpc = "partition"
  /\ ok \/ PartitionMayFail
  /\ fdt' = IF ok THEN [t \in Threads |-> [thread |-> t, kind |-> "part"]] ELSE << >>
  /\ mpc' = "create"
  /\ UNCHANGED <<idx, crashed, pc, sock, tcp, backlog, net, serverVars, oneHost>>

\* Variant: one thread too many.
CreatesOneMore ==
  /\ ~ crashed /\ mpc = "create"
  /\ pc' = [pc EXCEPT ![idx] = "socket"]
  /\ IF idx + 1 <= NUM_THREADS THEN idx' = idx + 1 /\ mpc' = mpc
                               ELSE idx' = 0 /\ mpc' = "join"
  /\ UNCHANGED <<crashed, fdt, sock, tcp, backlog, net, serverVars, oneHost>>

CreateThread ==
  /\ ~ crashed /\ mpc = "create"
  /\ pc' = [pc EXCEPT ![idx] = "socket"]
  /\ IF idx + 1 < NUM_THREADS THEN idx' = idx + 1 /\ mpc' = mpc
                              ELSE idx' = 0 /\ mpc' = "join"
  /\ UNCHANGED <<crashed, fdt, sock, tcp, backlog, net, serverVars, oneHost>>

\* Variant: main waits for the first thread only.
JoinsFirst ==
  /\ ~ crashed /\ mpc = "join" /\ idx < NUM_THREADS
  /\ idx = 0 => pc[idx] = "ended"
  /\ idx' = idx + 1
  /\ UNCHANGED <<mpc, crashed, pc, fdt, sock, tcp, backlog, net, serverVars, oneHost>>

Join ==
  /\ ~ crashed /\ mpc = "join" /\ idx < NUM_THREADS
  /\ pc[idx] = "ended"
  /\ idx' = idx + 1
  /\ UNCHANGED <<mpc, crashed, pc, fdt, sock, tcp, backlog, net, serverVars, oneHost>>

\* Report, release the parts and return.
Return ==
  /\ ~ crashed /\ mpc = "join" /\ idx = NUM_THREADS
  /\ fdt' = Restrict(fdt, {fd \in DOMAIN fdt : fdt[fd].kind # "part"})
  /\ mpc' = "returned"
  /\ UNCHANGED <<idx, crashed, pc, sock, tcp, backlog, net, serverVars, oneHost>>

-----------------------------------------------------------------------------
(***************************************************************************)
(* block_thread: setting up.                                               *)
(***************************************************************************)

At(t, step) == ~ crashed /\ pc[t] = step

Goto(t, step) == pc' = [pc EXCEPT ![t] = step]

\* The first use of the handle; without handles it is a null pointer.
CreateSocket(t) ==
  /\ At(t, "socket")
  /\ t \in DOMAIN fdt /\ fdt[t].kind = "part"
  /\ fdt' = Opened(NewFd, t, "udp")
  /\ sock' = [sock EXCEPT ![t] = NewFd]
  /\ Goto(t, "bind")
  /\ UNCHANGED <<mainVars, crashed, tcp, backlog, net, serverVars, oneHost>>

NoHandles(t) ==
  /\ At(t, "socket") /\ t \notin DOMAIN fdt
  /\ Crash

UdpPort(t) == CLIENT_BASE_PORT + t

ServerHolds(port) ==
  /\ oneHost /\ port = SERVER_BASE_PORT
  /\ server \notin {"down", "failed", "refused", "exited"}

\* Variant: a socket that cannot be bound is closed.
BindOrClose(t, ok) ==
  /\ At(t, "bind")
  /\ IF ok THEN ~ ServerHolds(UdpPort(t))
           ELSE ServerHolds(UdpPort(t)) \/ PortsMayBeTaken
  /\ Goto(t, IF ok THEN "listen" ELSE "ended")
  /\ fdt' = IF ok THEN fdt ELSE Closed(sock[t])
  /\ UNCHANGED <<mainVars, crashed, sock, tcp, backlog, net, serverVars, oneHost>>

\* A thread that cannot bind its socket returns and leaves the socket open.
BindSocket(t, ok) ==
  /\ At(t, "bind")
  /\ IF ok THEN ~ ServerHolds(UdpPort(t))
           ELSE ServerHolds(UdpPort(t)) \/ PortsMayBeTaken
  /\ Goto(t, IF ok THEN "listen" ELSE "ended")
  /\ UNCHANGED <<mainVars, crashed, fdt, sock, tcp, backlog, net, serverVars, oneHost>>

\* When bind fails the structure is freed and returned all the same, and
\* block_thread writes the handler into it.  When listen fails the structure
\* stays as it is: no descriptor is watched, and max_sd is below every counted
\* one.  In both cases the socket stays open.
ServerAfter(outcome) ==
  CASE outcome = "started"       -> [sd |-> NewFd, max_sd |-> NewFd,
                                     fds |-> {NewFd}, freed |-> FALSE]
    [] outcome = "bind failed"   -> [NoServer EXCEPT !.freed = TRUE]
    [] outcome = "listen failed" -> [NoServer EXCEPT !.sd = NewFd]

StartOutcomes ==
  {"started"} \cup (IF PortsMayBeTaken THEN {"bind failed", "listen failed"} ELSE {})

tcp_server_start(t, outcome) ==
  /\ At(t, "listen")
  /\ fdt' = Opened(NewFd, t, "tcp")
  /\ tcp' = [tcp EXCEPT ![t] = ServerAfter(outcome)]
  /\ Goto(t, "metadata")
  /\ UNCHANGED <<mainVars, crashed, sock, backlog, net, serverVars, oneHost>>

\* Variant: the index of the thread is left out.
RemotePortOfAll(t) == SERVER_BASE_PORT

RemotePort(t) == SERVER_BASE_PORT + t

\* main sets dst_ip and dst_filename of the first thread only; those of the
\* others are uninitialised, so their datagram goes anywhere or nowhere.
SendMetadata(t) ==
  /\ At(t, "metadata")
  /\ \E d \in {net \cup {[to |-> RemotePort(t), from |-> UdpPort(t)]}}
              \cup (IF MetaMayBeLost \/ t # 0 THEN {net} ELSE {}) : net' = d
  /\ Goto(t, "accept")
  /\ UNCHANGED <<mainVars, crashed, fdt, sock, tcp, backlog, serverVars, oneHost>>

StrayPointer(t) ==
  /\ At(t, "metadata") /\ t # 0 /\ StrayMayCrash
  /\ Crash

-----------------------------------------------------------------------------
(***************************************************************************)
(* block_thread: the connection, and the end.                              *)
(***************************************************************************)

create_child_socket(srv, child) ==
  [srv EXCEPT !.fds = @ \cup {child}, !.max_sd = IF child > @ THEN child ELSE @]

\* Variant: the descriptor stays in the set.
CloseChildKeepsSet(srv, child) ==
  [srv EXCEPT !.max_sd = IF child = @ THEN @ - 1 ELSE @]

close_child_socket(srv, child) ==
  [srv EXCEPT !.fds = @ \ {child}, !.max_sd = IF child = @ THEN @ - 1 ELSE @]

\* tcp_server_accept, called until a connection has come; on a socket that does
\* not listen it fails for ever.
tcp_server_accept(t) ==
  /\ At(t, "accept") /\ t \in backlog /\ tcp[t].fds # {}
  /\ fdt' = Opened(NewFd, t, "tcp")
  /\ tcp' = [tcp EXCEPT ![t] = create_child_socket(@, NewFd)]
  /\ backlog' = backlog \ {t}
  /\ Goto(t, "transfer")
  /\ UNCHANGED <<mainVars, crashed, sock, net, serverVars, oneHost>>

\* accept on whatever the freed structure holds now: it fails again and
\* again, or the use of the freed memory ends the process.
UseFreed(t) ==
  /\ At(t, "accept") /\ tcp[t].freed
  /\ Crash

\* The children a tick looks at.
ScannedChildren(srv) == {fd \in srv.fds : srv.sd < fd /\ fd <= srv.max_sd}

\* A tick reads the end of the connection.
Disconnected(t) ==
  /\ At(t, "transfer") /\ server = "exited"
  /\ \E child \in ScannedChildren(tcp[t]) :
       /\ fdt' = Closed(child)
       /\ tcp' = [tcp EXCEPT ![t] = close_child_socket(@, child)]
  /\ UNCHANGED <<mainVars, crashed, pc, sock, backlog, net, serverVars, oneHost>>

\* The loop ends.  The TCP server is not stopped.
EndTransfer(t) ==
  /\ At(t, "transfer")
  /\ fdt' = Closed(sock[t])
  /\ Goto(t, "ended")
  /\ UNCHANGED <<mainVars, crashed, sock, tcp, backlog, net, serverVars, oneHost>>

-----------------------------------------------------------------------------
(***************************************************************************)
(* The server.                                                             *)
(***************************************************************************)

ClientHolds(port) ==
  /\ oneHost /\ ~ crashed
  /\ \E t \in Threads :
       UdpPort(t) = port /\ pc[t] \in {"listen", "metadata", "accept", "transfer"}

ServerBind ==
  /\ server = "down"
  /\ server' = IF ClientHolds(SERVER_BASE_PORT) THEN "failed" ELSE "bound"
  /\ UNCHANGED <<mainVars, crashed, pc, fdt, sock, tcp, backlog, net, peer, oneHost>>

\* The metadata: the server will connect to the port they came from.
ServerReceives ==
  /\ server = "bound"
  /\ \E d \in net :
       /\ d.to = SERVER_BASE_PORT
       /\ net' = net \ {d}
       /\ peer' = d.from
  /\ server' = "metadata"
  /\ UNCHANGED <<mainVars, crashed, pc, fdt, sock, tcp, backlog, oneHost>>

Listening(t) == ~ crashed /\ mpc # "returned" /\ tcp[t].fds # {}

\* Variant: the server connects to the client's base port plus one.
ConnectsToNext ==
  LET target == {t \in Threads : CLIENT_BASE_PORT + 1 + t = peer /\ Listening(t)}
  IN  /\ server = "metadata"
      /\ server' = IF target = {} THEN "refused" ELSE "connected"
      /\ backlog' = backlog \cup target
      /\ UNCHANGED <<mainVars, crashed, pc, fdt, sock, tcp, net, peer, oneHost>>

\* Connected, or the server gives up.
ServerConnects ==
  LET target == {t \in Threads : CLIENT_BASE_PORT + t = peer /\ Listening(t)}
  IN  /\ server = "metadata"
      /\ server' = IF target = {} THEN "refused" ELSE "connected"
      /\ backlog' = backlog \cup target
      /\ UNCHANGED <<mainVars, crashed, pc, fdt, sock, tcp, net, peer, oneHost>>

ServerExits ==
  /\ server = "connected"
  /\ server' = "exited"
  /\ UNCHANGED <<mainVars, crashed, pc, fdt, sock, tcp, backlog, net, peer, oneHost>>

-----------------------------------------------------------------------------

MainNext == (\E ok \in BOOLEAN : Partition(ok)) \/ CreateThread \/ Join \/ Return

SetUp(t) ==
  \/ CreateSocket(t) \/ NoHandles(t)
  \/ \E ok \in BOOLEAN : BindSocket(t, ok)
  \/ \E outcome \in StartOutcomes : tcp_server_start(t, outcome)
  \/ SendMetadata(t) \/ StrayPointer(t)
  \/ tcp_server_accept(t)

ServerNext == ServerBind \/ ServerReceives \/ ServerConnects

Next ==
  \/ MainNext
  \/ \E t \in Threads : SetUp(t) \/ UseFreed(t) \/ Disconnected(t) \/ EndTransfer(t)
  \/ ServerNext \/ ServerExits

Spec == Init /\ [][Next]_vars

\* Main, every thread and the server keep running.  Nothing is assumed of the
\* length of a transfer.
LiveSpec ==
  /\ Spec
  /\ WF_vars(MainNext)
  /\ \A t \in Threads : WF_vars(SetUp(t))
  /\ WF_vars(ServerNext)

\* Every transfer ends, too, which is more than UcpTransfer shows.
TransfersEnd == LiveSpec /\ \A t \in Threads : WF_vars(EndTransfer(t))

-----------------------------------------------------------------------------
(***************************************************************************)
(* Properties.                                                             *)
(***************************************************************************)

\* Main, threads and server hold what the code can put there.
TypeOK ==
  /\ mpc \in {"partition", "create", "join", "returned"}
  /\ idx \in Threads \/ (idx = NUM_THREADS /\ mpc \in {"join", "returned"})
  /\ crashed \in BOOLEAN
  /\ pc \in [Threads -> Steps]
  /\ IsFiniteSet(DOMAIN fdt) /\ DOMAIN fdt \subseteq Nat
  /\ \A fd \in DOMAIN fdt : fdt[fd] \in [thread : Threads, kind : {"part", "udp", "tcp"}]
  /\ sock \in [Threads -> Nat \cup {-1}]
  /\ tcp \in [Threads -> [sd : Int, max_sd : Int, fds : SUBSET Nat, freed : BOOLEAN]]
  /\ backlog \subseteq Threads
  /\ net \subseteq [to : Nat, from : Nat]
  /\ server \in {"down", "failed", "bound", "metadata", "refused", "connected", "exited"}
  /\ peer \in Nat
  /\ oneHost \in BOOLEAN

\* The windows, done and packet_count of ucp_client.c are used by the first
\* thread alone, though all threads could: no server listens on the ports the
\* other threads send to, and none connects to the ports they listen on.
WindowsHaveOneUser ==
  \A t \in Threads : pc[t] = "transfer" => t = 0

\* The thread is behind create_socket and before its end.
Running(t) == pc[t] \in {"bind", "listen", "metadata", "accept", "transfer"}

\* Every descriptor a thread is going to use, its part of the file, its UDP
\* socket and the sockets its select watches, is open and its own: none was
\* closed by somebody else, or closed, and reused under the same number.
HandlesAreOwn ==
  ~ crashed =>
    \A t \in Threads :
      /\ Running(t) =>
           /\ t \in DOMAIN fdt /\ fdt[t] = [thread |-> t, kind |-> "part"]
           /\ sock[t] \in DOMAIN fdt /\ fdt[sock[t]] = [thread |-> t, kind |-> "udp"]
      /\ \A fd \in tcp[t].fds :
           fd \in DOMAIN fdt /\ fdt[fd] = [thread |-> t, kind |-> "tcp"]

\* A tick looks at the descriptors from the listening one to max_sd.  Every
\* watched connection is among them: no descriptor below the listening one was
\* closed between listen and accept, so that the kernel hands out a larger one,
\* and max_sd follows it.  Acknowledgements on any other connection stay unread.
WatchedIsScanned ==
  \A t \in Threads : tcp[t].fds \subseteq tcp[t].sd .. tcp[t].max_sd

\* What makes main wait: a thread other than the first that has bound its
\* socket never ends, since nobody connects to its TCP server.  main returns
\* only when the others have all failed to bind theirs.
ReturnNeedsFailedBinds ==
  mpc = "returned" => \A t \in Threads : t # 0 => tcp[t] = NoServer

\* Once the server has the metadata the first thread begins its transfer,
\* unless bind or listen failed for its TCP server or the process has died: the
\* port is listened on before the metadata that make the server connect to it
\* can be received, and no other way of setting up loses the connection.
MetadataStartsTransfer ==
  (server = "metadata") ~>
    (pc[0] = "transfer" \/ tcp[0].fds = {} \/ crashed)

-----------------------------------------------------------------------------
(***************************************************************************)
(* What the repository says of the program and the program does not keep.  *)
(***************************************************************************)

\* main waits for each thread to close, reports and returns.
MainReturns == <>(mpc = "returned")

=============================================================================
