------------------------ MODULE ClientThreadsProofs -------------------------
(***************************************************************************)
(* Proofs about the client's threads, for any number of them: who uses the *)
(* windows, who owns which descriptor, and what a tick looks at.           *)
(***************************************************************************)
EXTENDS ClientThreads, ListLemmas, FiniteSetTheorems

-----------------------------------------------------------------------------
(***************************************************************************)
(* The inductive invariant.                                                *)
(***************************************************************************)

\* Only the first thread's metadata reach the server's port, so only the
\* first thread is connected to.
FirstIsServed ==
  /\ \A d \in net : d.to = SERVER_BASE_PORT => d.from = UdpPort(0)
  /\ server = "metadata" => peer = UdpPort(0)
  /\ backlog \subseteq {0}
  /\ WindowsHaveOneUser

\* Where the threads can be while main is in its loops.
MainOrder ==
  /\ mpc = "partition" => \A t \in Threads : pc[t] = "none"
  /\ mpc = "create" => \A t \in Threads : t >= idx => pc[t] = "none"
  /\ mpc = "join" => \A t \in Threads : t < idx => pc[t] = "ended"
  /\ mpc = "returned" => \A t \in Threads : pc[t] = "ended"

\* The descriptor of a part has the number of the part.
PartsInPlace ==
  \A fd \in DOMAIN fdt : fdt[fd].kind = "part" => fdt[fd].thread = fd

\* A TCP server exists from its start on, and watches its listening socket
\* if it watches anything.
ListenerIsWatched ==
  \A t \in Threads :
    /\ pc[t] \in {"none", "socket", "bind", "listen"} => tcp[t] = NoServer
    /\ tcp[t].fds # {} => tcp[t].sd \in tcp[t].fds

\* Until the first thread transfers, nothing is closed, and the numbers in
\* use have no gap.
NoGaps ==
  ~ crashed /\ pc[0] \notin {"transfer", "ended"} =>
    \A fd \in DOMAIN fdt : 0 .. fd \subseteq DOMAIN fdt

\* A thread other than the first ends at bind, before it has a TCP server.
OthersEndUnbound ==
  \A t \in Threads : t # 0 /\ pc[t] = "ended" => tcp[t] = NoServer

IInv ==
  /\ TypeOK
  /\ FirstIsServed
  /\ MainOrder
  /\ PartsInPlace
  /\ ListenerIsWatched
  /\ HandlesAreOwn
  /\ NoGaps
  /\ WatchedIsScanned
  /\ OthersEndUnbound

-----------------------------------------------------------------------------
(***************************************************************************)
(* The descriptor table.                                                   *)
(***************************************************************************)

\* The kernel hands out an unused number, and all below it are in use.
LEMMA NewFdIsLeast ==
  ASSUME TypeOK
  PROVE  /\ NewFd \in Nat \ DOMAIN fdt
         /\ \A y \in Nat : y < NewFd => y \in DOMAIN fdt
<1> DEFINE n == Cardinality(DOMAIN fdt)
           S == (0 .. n) \ DOMAIN fdt
<1>1. n \in Nat
  BY FS_CardinalityType DEF TypeOK
<1>2. S # {}
  <2> SUFFICES ASSUME S = {} PROVE FALSE
    OBVIOUS
  <2>1. 0 .. n \subseteq DOMAIN fdt
    OBVIOUS
  <2>2. Cardinality(0 .. n) <= n
    BY <2>1, FS_Subset DEF TypeOK
  <2>3. Cardinality(0 .. n) = n + 1
    BY <1>1, FS_Interval
  <2> QED
    BY <1>1, <2>2, <2>3
<1>3. S \in SUBSET Nat
  BY <1>1
<1>4. NewFd = Min(S)
  BY DEF NewFd
<1>5. NewFd \in S /\ \A y \in S : NewFd <= y
  BY <1>2, <1>3, <1>4, MinProperties
<1>6. ASSUME NEW y \in Nat, y < NewFd
      PROVE  y \in DOMAIN fdt
  BY <1>1, <1>5, <1>6
<1> QED
  BY <1>1, <1>5, <1>6

\* What a table is, whatever its entries.
TableOK ==
  /\ IsFiniteSet(DOMAIN fdt) /\ DOMAIN fdt \subseteq Nat
  /\ \A fd \in DOMAIN fdt : fdt[fd] \in [thread : Threads, kind : {"part", "udp", "tcp"}]

\* Opening keeps the table well-formed, ...
LEMMA OpenKeepsTable ==
  ASSUME TypeOK, NEW t \in Threads, NEW kind \in {"udp", "tcp"},
         fdt' = Opened(NewFd, t, kind)
  PROVE  /\ TableOK' /\ (PartsInPlace => PartsInPlace')
         /\ NewFd \in Nat \ DOMAIN fdt
         /\ DOMAIN fdt' = DOMAIN fdt \cup {NewFd}
         /\ fdt'[NewFd] = [thread |-> t, kind |-> kind]
         /\ \A x \in DOMAIN fdt : fdt'[x] = fdt[x]
<1>1. NewFd \in Nat \ DOMAIN fdt
  BY NewFdIsLeast
<1>2. /\ DOMAIN fdt' = DOMAIN fdt \cup {NewFd}
      /\ fdt'[NewFd] = [thread |-> t, kind |-> kind]
      /\ \A x \in DOMAIN fdt : fdt'[x] = fdt[x]
  BY <1>1 DEF Opened
<1>3. IsFiniteSet(DOMAIN fdt')
  BY <1>2, FS_AddElement DEF TypeOK
<1>4. TableOK'
  BY <1>1, <1>2, <1>3 DEF TypeOK, TableOK
<1>5. PartsInPlace => PartsInPlace'
  BY <1>1, <1>2 DEF PartsInPlace
<1> QED
  BY <1>1, <1>2, <1>4, <1>5

\* ... closing does, too.
LEMMA CloseKeepsTable ==
  ASSUME TypeOK, NEW fd, fdt' = Closed(fd)
  PROVE  /\ TableOK' /\ (PartsInPlace => PartsInPlace')
         /\ DOMAIN fdt' = DOMAIN fdt \ {fd}
         /\ \A x \in DOMAIN fdt : x # fd => fdt'[x] = fdt[x]
<1>1. /\ DOMAIN fdt' = DOMAIN fdt \ {fd}
      /\ \A x \in DOMAIN fdt : x # fd => fdt'[x] = fdt[x]
  BY DEF Closed, Restrict
<1>2. IsFiniteSet(DOMAIN fdt')
  BY <1>1, FS_Subset DEF TypeOK
<1>3. TableOK' /\ (PartsInPlace => PartsInPlace')
  BY <1>1, <1>2 DEF TypeOK, TableOK, PartsInPlace
<1> QED
  BY <1>1, <1>3

\* The tables main makes are well-formed.
LEMMA MainKeepsTable ==
  ASSUME TypeOK, PartsInPlace,
         (\E ok \in BOOLEAN : Partition(ok)) \/ Return \/ Crash
  PROVE  TableOK' /\ PartsInPlace'
<1>1. CASE Crash \/ Partition(FALSE)
  <2>1. fdt' = << >> /\ DOMAIN fdt' = {}
    BY <1>1 DEF Crash, Partition
  <2> QED
    BY <2>1, FS_EmptySet DEF TableOK, PartsInPlace
<1>2. CASE Partition(TRUE)
  <2>1. fdt' = [t \in Threads |-> [thread |-> t, kind |-> "part"]]
    BY <1>2 DEF Partition
  <2>2. IsFiniteSet(Threads)
    BY FS_Interval, ThreadsAssumption DEF Threads
  <2> QED
    BY <2>1, <2>2, ThreadsAssumption DEF TableOK, PartsInPlace, Threads
<1>3. CASE Return
  <2> DEFINE kept == {fd \in DOMAIN fdt : fdt[fd].kind # "part"}
  <2>1. DOMAIN fdt' = kept /\ \A fd \in kept : fdt'[fd] = fdt[fd]
    BY <1>3 DEF Return, Restrict
  <2>2. IsFiniteSet(kept)
    BY FS_Subset DEF TypeOK
  <2> QED
    BY <2>1, <2>2 DEF TypeOK, TableOK, PartsInPlace
<1> QED
  BY <1>1, <1>2, <1>3

-----------------------------------------------------------------------------
(***************************************************************************)
(* The initial states, and one lemma for each part of the invariant.       *)
(***************************************************************************)

TcpServers == [sd : Int, max_sd : Int, fds : SUBSET Nat, freed : BOOLEAN]

\* What starting a TCP server, accepting and closing make of the structure.
LEMMA NoServerIsServer == NoServer \in TcpServers
BY DEF NoServer, TcpServers

LEMMA StartedIsServer ==
  ASSUME NewFd \in Nat, NEW outcome \in StartOutcomes
  PROVE  /\ ServerAfter(outcome) \in TcpServers
         /\ ServerAfter(outcome).fds # {} =>
              /\ ServerAfter(outcome).fds = {NewFd}
              /\ ServerAfter(outcome).sd = NewFd /\ ServerAfter(outcome).max_sd = NewFd
<1>1. CASE outcome = "started"
  <2>1. ServerAfter(outcome) = [sd |-> NewFd, max_sd |-> NewFd, fds |-> {NewFd}, freed |-> FALSE]
    BY <1>1 DEF ServerAfter
  <2> QED
    BY <2>1 DEF TcpServers
<1>2. CASE outcome = "bind failed"
  <2>1. ServerAfter(outcome) = [sd |-> -1, max_sd |-> -1, fds |-> {}, freed |-> TRUE]
    BY <1>2 DEF ServerAfter, NoServer
  <2> QED
    BY <2>1 DEF TcpServers
<1>3. CASE outcome = "listen failed"
  <2>1. ServerAfter(outcome) = [sd |-> NewFd, max_sd |-> -1, fds |-> {}, freed |-> FALSE]
    BY <1>3 DEF ServerAfter, NoServer
  <2> QED
    BY <2>1 DEF TcpServers
<1> QED
  BY <1>1, <1>2, <1>3 DEF StartOutcomes

LEMMA ChildProperties ==
  ASSUME NEW srv \in TcpServers, NEW child \in Nat
  PROVE  /\ create_child_socket(srv, child) \in TcpServers
         /\ create_child_socket(srv, child).sd = srv.sd
         /\ create_child_socket(srv, child).fds = srv.fds \cup {child}
         /\ create_child_socket(srv, child).max_sd
              = IF child > srv.max_sd THEN child ELSE srv.max_sd
         /\ close_child_socket(srv, child) \in TcpServers
         /\ close_child_socket(srv, child).sd = srv.sd
         /\ close_child_socket(srv, child).fds = srv.fds \ {child}
         /\ close_child_socket(srv, child).max_sd
              = IF child = srv.max_sd THEN srv.max_sd - 1 ELSE srv.max_sd
<1> DEFINE larger == IF child > srv.max_sd THEN child ELSE srv.max_sd
           less == IF child = srv.max_sd THEN srv.max_sd - 1 ELSE srv.max_sd
\* One field after the other.
<1>1. /\ srv.fds \cup {child} \in SUBSET Nat /\ srv.fds \ {child} \in SUBSET Nat
      /\ larger \in Int /\ less \in Int
  BY DEF TcpServers
<1>2. ASSUME NEW f \in SUBSET Nat, NEW m \in Int
      PROVE  [srv EXCEPT !.fds = f, !.max_sd = m] \in TcpServers
  <2>1. [srv EXCEPT !.fds = f, !.max_sd = m] = [[srv EXCEPT !.fds = f] EXCEPT !.max_sd = m]
    OBVIOUS
  <2>2. [srv EXCEPT !.fds = f] \in TcpServers
    BY DEF TcpServers
  <2> QED
    BY <2>1, <2>2 DEF TcpServers
<1>3. /\ create_child_socket(srv, child) = [srv EXCEPT !.fds = srv.fds \cup {child}, !.max_sd = larger]
      /\ close_child_socket(srv, child) = [srv EXCEPT !.fds = srv.fds \ {child}, !.max_sd = less]
  BY DEF create_child_socket, close_child_socket
<1>4. /\ create_child_socket(srv, child) \in TcpServers
      /\ close_child_socket(srv, child) \in TcpServers
  <2> HIDE DEF larger, less
  <2> QED
    BY <1>1, <1>2, <1>3
<1>5. LET created == create_child_socket(srv, child)
      IN  /\ created.sd = srv.sd
          /\ created.fds = srv.fds \cup {child} /\ created.max_sd = larger
  BY DEF create_child_socket, TcpServers
<1>6. LET closed == close_child_socket(srv, child)
      IN  /\ closed.sd = srv.sd
          /\ closed.fds = srv.fds \ {child} /\ closed.max_sd = less
  BY DEF close_child_socket, TcpServers
<1> QED
  BY <1>4, <1>5, <1>6

\* Nothing has been opened when main begins.
LEMMA InitIInv == Init => IInv
<1> SUFFICES ASSUME Init PROVE IInv
  OBVIOUS
<1>1. fdt = << >> /\ DOMAIN fdt = {}
  BY DEF Init
<1>2. TypeOK
  <2>1. IsFiniteSet(DOMAIN fdt) /\ DOMAIN fdt \subseteq Nat
    BY <1>1, FS_EmptySet
  <2>2. idx \in Threads
    BY ThreadsAssumption DEF Init, Threads
  <2>3. tcp \in [Threads -> TcpServers]
    BY NoServerIsServer DEF Init
  <2>4. /\ pc \in [Threads -> Steps] /\ sock \in [Threads -> Nat \cup {-1}]
        /\ oneHost \in BOOLEAN
    BY ThreadsAssumption DEF Init, Steps
  <2> QED
    BY <1>1, <2>1, <2>2, <2>3, <2>4 DEF Init, TypeOK, TcpServers
<1>3. FirstIsServed /\ MainOrder /\ PartsInPlace
  BY <1>1 DEF Init, FirstIsServed, WindowsHaveOneUser, MainOrder, PartsInPlace
<1>4. /\ ListenerIsWatched /\ HandlesAreOwn /\ NoGaps /\ WatchedIsScanned
      /\ OthersEndUnbound
  BY <1>1 DEF Init, ListenerIsWatched, HandlesAreOwn, Running, NoGaps, WatchedIsScanned,
              OthersEndUnbound, NoServer
<1> QED
  BY <1>2, <1>3, <1>4 DEF IInv

\* The table stays well-formed.
LEMMA NextTable ==
  ASSUME TypeOK, PartsInPlace, Next
  PROVE  TableOK' /\ PartsInPlace'
<1>1. ASSUME NEW t \in Threads, CreateSocket(t) PROVE TableOK' /\ PartsInPlace'
  BY <1>1, OpenKeepsTable DEF CreateSocket
<1>2. ASSUME NEW t \in Threads, NEW outcome \in StartOutcomes, tcp_server_start(t, outcome)
      PROVE  TableOK' /\ PartsInPlace'
  BY <1>2, OpenKeepsTable DEF tcp_server_start
<1>3. ASSUME NEW t \in Threads, tcp_server_accept(t) PROVE TableOK' /\ PartsInPlace'
  BY <1>3, OpenKeepsTable DEF tcp_server_accept
<1>4. ASSUME NEW t \in Threads, Disconnected(t) PROVE TableOK' /\ PartsInPlace'
  <2>1. PICK child : fdt' = Closed(child)
    BY <1>4 DEF Disconnected
  <2> QED
    BY <2>1, CloseKeepsTable
<1>5. ASSUME NEW t \in Threads, EndTransfer(t) PROVE TableOK' /\ PartsInPlace'
  BY <1>5, CloseKeepsTable DEF EndTransfer
<1>6. ASSUME NEW t \in Threads, NoHandles(t) \/ StrayPointer(t) \/ UseFreed(t)
      PROVE  TableOK' /\ PartsInPlace'
  BY <1>6, MainKeepsTable DEF NoHandles, StrayPointer, UseFreed
<1>7. ASSUME UNCHANGED fdt PROVE TableOK' /\ PartsInPlace'
  BY <1>7 DEF TypeOK, TableOK, PartsInPlace
<1>8. ASSUME NEW t \in Threads,
             SendMetadata(t) \/ (\E ok \in BOOLEAN : BindSocket(t, ok))
      PROVE  UNCHANGED fdt
  BY <1>8 DEF SendMetadata, BindSocket
<1>9. ASSUME CreateThread \/ Join \/ ServerNext \/ ServerExits
      PROVE  UNCHANGED fdt
  BY <1>9 DEF CreateThread, Join, ServerNext, ServerBind, ServerReceives,
              ServerConnects, ServerExits
<1> QED
  BY <1>1, <1>2, <1>3, <1>4, <1>5, <1>6, <1>7, <1>8, <1>9, MainKeepsTable
     DEF Next, MainNext, SetUp

\* No step leaves the types.
LEMMA NextTypeOK ==
  ASSUME TypeOK, PartsInPlace, Next
  PROVE  TypeOK'
<1> DEFINE
     Rest == /\ mpc \in {"partition", "create", "join", "returned"}
             /\ idx \in Threads \/ (idx = NUM_THREADS /\ mpc \in {"join", "returned"})
             /\ crashed \in BOOLEAN
             /\ pc \in [Threads -> Steps]
             /\ sock \in [Threads -> Nat \cup {-1}]
             /\ tcp \in [Threads -> TcpServers]
             /\ backlog \subseteq Threads
             /\ net \subseteq [to : Nat, from : Nat]
             /\ server \in {"down", "failed", "bound", "metadata", "refused",
                            "connected", "exited"}
             /\ peer \in Nat
             /\ oneHost \in BOOLEAN
<1>1. Rest
  BY DEF TypeOK, TcpServers
<1>2. Threads \subseteq Nat
  BY DEF Threads
<1>3. ASSUME MainNext PROVE Rest'
  <2>1. ASSUME CreateThread PROVE Rest'
    <3>1. /\ mpc' \in {"create", "join"}
          /\ idx' \in Threads \/ (idx' = NUM_THREADS /\ mpc' = "join")
      BY <1>1, <2>1, ThreadsAssumption DEF CreateThread, Threads
    <3>2. pc' \in [Threads -> Steps]
      BY <1>1, <2>1 DEF CreateThread, Steps
    <3> QED
      BY <1>1, <2>1, <3>1, <3>2 DEF CreateThread, serverVars
  <2>2. ASSUME Join PROVE Rest'
    <3>1. mpc' = "join" /\ (idx' \in Threads \/ idx' = NUM_THREADS)
      BY <1>1, <2>2, ThreadsAssumption DEF Join, Threads
    <3> QED
      BY <1>1, <2>2, <3>1 DEF Join, serverVars
  <2>3. ASSUME (\E ok \in BOOLEAN : Partition(ok)) \/ Return PROVE Rest'
    BY <1>1, <2>3 DEF Partition, Return, serverVars
  <2> QED
    BY <1>3, <2>1, <2>2, <2>3 DEF MainNext
<1>4. ASSUME NEW t \in Threads, SetUp(t) PROVE Rest'
  <2> USE <1>1, <1>4 DEF mainVars, serverVars, Goto, Steps
  <2>1. ASSUME CreateSocket(t) PROVE Rest'
    BY <2>1, NewFdIsLeast DEF CreateSocket
  <2>2. ASSUME NEW ok \in BOOLEAN, BindSocket(t, ok) PROVE Rest'
    BY <2>2 DEF BindSocket
  <2>3. ASSUME NEW outcome \in StartOutcomes, tcp_server_start(t, outcome) PROVE Rest'
    <3>1. tcp' \in [Threads -> TcpServers]
      BY <2>3, NewFdIsLeast, StartedIsServer DEF tcp_server_start
    <3> QED
      BY <2>3, <3>1 DEF tcp_server_start
  <2>4. ASSUME SendMetadata(t) PROVE Rest'
    BY <2>4, <1>2 DEF SendMetadata, RemotePort, UdpPort, CLIENT_BASE_PORT, SERVER_BASE_PORT
  <2>5. ASSUME tcp_server_accept(t) PROVE Rest'
    <3>1. tcp' \in [Threads -> TcpServers]
      BY <2>5, NewFdIsLeast, ChildProperties DEF tcp_server_accept
    <3> QED
      BY <2>5, <3>1 DEF tcp_server_accept
  <2>6. ASSUME NoHandles(t) \/ StrayPointer(t) PROVE Rest'
    BY <2>6 DEF NoHandles, StrayPointer, Crash
  <2> QED
    BY <2>1, <2>2, <2>3, <2>4, <2>5, <2>6 DEF SetUp
<1>5. ASSUME NEW t \in Threads, UseFreed(t) \/ Disconnected(t) \/ EndTransfer(t)
      PROVE  Rest'
  <2> USE <1>1, <1>5 DEF mainVars, serverVars, Goto, Steps
  <2>1. ASSUME UseFreed(t) PROVE Rest'
    BY <2>1 DEF UseFreed, Crash
  <2>2. ASSUME Disconnected(t) PROVE Rest'
    <3>1. PICK child \in tcp[t].fds :
                 tcp' = [tcp EXCEPT ![t] = close_child_socket(@, child)]
      BY <2>2 DEF Disconnected, ScannedChildren
    <3>2. tcp[t] \in TcpServers /\ child \in Nat
      BY DEF TcpServers
    <3>3. tcp' \in [Threads -> TcpServers]
      BY <3>1, <3>2, ChildProperties
    <3> QED
      BY <2>2, <3>3 DEF Disconnected
  <2>3. ASSUME EndTransfer(t) PROVE Rest'
    BY <2>3 DEF EndTransfer
  <2> QED
    BY <2>1, <2>2, <2>3
<1>6. ASSUME ServerNext \/ ServerExits PROVE Rest'
  BY <1>1, <1>6, <1>2
     DEF ServerNext, ServerBind, ServerReceives, ServerConnects, ServerExits, mainVars, serverVars
<1>7. Rest'
  BY <1>3, <1>4, <1>5, <1>6 DEF Next
<1>8. TableOK'
  BY NextTable
<1> QED
  BY <1>7, <1>8 DEF TypeOK, TableOK, TcpServers

\* What a step does to the threads' positions: main starts one, or one that
\* runs moves on.
LEMMA ThreadsMove ==
  ASSUME TypeOK, Next
  PROVE  \/ UNCHANGED pc
         \/ CreateThread
         \/ \E t \in Threads, step \in Steps :
              /\ pc[t] \notin {"none", "ended"} /\ pc' = [pc EXCEPT ![t] = step]
              /\ step \notin {"none", "socket"}
              /\ step = "transfer" => tcp_server_accept(t)
              /\ pc[t] = "transfer" => step = "ended"
              /\ UNCHANGED mainVars
<1>1. ASSUME MainNext PROVE UNCHANGED pc \/ CreateThread
  BY <1>1 DEF MainNext, Partition, Join, Return
<1>2. ASSUME ServerNext \/ ServerExits PROVE UNCHANGED pc
  BY <1>2 DEF ServerNext, ServerBind, ServerReceives, ServerConnects, ServerExits
<1>3. ASSUME NEW t \in Threads,
             NoHandles(t) \/ StrayPointer(t) \/ UseFreed(t) \/ Disconnected(t)
      PROVE  UNCHANGED pc
  BY <1>3 DEF NoHandles, StrayPointer, UseFreed, Disconnected, Crash
<1>4. ASSUME NEW t \in Threads,
             \/ CreateSocket(t) \/ SendMetadata(t) \/ tcp_server_accept(t) \/ EndTransfer(t)
             \/ \E ok \in BOOLEAN : BindSocket(t, ok)
             \/ \E outcome \in StartOutcomes : tcp_server_start(t, outcome)
      PROVE  \E step \in Steps :
              /\ pc[t] \notin {"none", "ended"} /\ pc' = [pc EXCEPT ![t] = step]
              /\ step \notin {"none", "socket"}
              /\ step = "transfer" => tcp_server_accept(t)
              /\ pc[t] = "transfer" => step = "ended"
              /\ UNCHANGED mainVars
  <2> USE DEF At, Goto, Steps
  <2>1. CASE CreateSocket(t)
    BY <2>1 DEF CreateSocket
  <2>2. CASE SendMetadata(t)
    BY <2>2 DEF SendMetadata
  <2>3. CASE tcp_server_accept(t)
    <3>1. pc[t] = "accept" /\ pc' = [pc EXCEPT ![t] = "transfer"] /\ UNCHANGED mainVars
      BY <2>3 DEF tcp_server_accept
    <3> QED
      BY <2>3, <3>1
  <2>4. CASE EndTransfer(t)
    BY <2>4 DEF EndTransfer
  <2>5. ASSUME NEW ok \in BOOLEAN, BindSocket(t, ok)
        PROVE  /\ pc[t] = "bind" /\ UNCHANGED mainVars
               /\ pc' = [pc EXCEPT ![t] = IF ok THEN "listen" ELSE "ended"]
    BY <2>5 DEF BindSocket
  <2>6. ASSUME NEW outcome \in StartOutcomes, tcp_server_start(t, outcome)
        PROVE  /\ pc[t] = "listen" /\ UNCHANGED mainVars
               /\ pc' = [pc EXCEPT ![t] = "metadata"]
    BY <2>6 DEF tcp_server_start
  <2> QED
    BY <1>4, <2>1, <2>2, <2>3, <2>4, <2>5, <2>6
<1> QED
  BY <1>1, <1>2, <1>3, <1>4 DEF Next, SetUp

\* Only the first thread is served.
LEMMA NextFirstIsServed ==
  ASSUME TypeOK, FirstIsServed, Next
  PROVE  FirstIsServed'
<1> USE DEF UdpPort, RemotePort, CLIENT_BASE_PORT, SERVER_BASE_PORT
<1>1. WindowsHaveOneUser'
  <2>1. ASSUME NEW t \in Threads, tcp_server_accept(t) PROVE t = 0
    BY <2>1 DEF tcp_server_accept, FirstIsServed
  <2>2. CASE CreateThread
    BY <2>2 DEF CreateThread, FirstIsServed, WindowsHaveOneUser, TypeOK
  <2> QED
    BY <2>1, <2>2, ThreadsMove DEF FirstIsServed, WindowsHaveOneUser, TypeOK
<1> DEFINE Others == /\ \A d \in net : d.to = SERVER_BASE_PORT => d.from = UdpPort(0)
                     /\ server = "metadata" => peer = UdpPort(0)
                     /\ backlog \subseteq {0}
<1>2. Others
  BY DEF FirstIsServed
<1>3. ASSUME NEW t \in Threads, SendMetadata(t) PROVE Others'
  <2>1. \A d \in net' : d \in net \/ d = [to |-> RemotePort(t), from |-> UdpPort(t)]
    BY <1>3 DEF SendMetadata
  <2>2. UNCHANGED <<server, peer, backlog>>
    BY <1>3 DEF SendMetadata, serverVars
  <2>3. t \in Nat
    BY DEF Threads
  <2> QED
    BY <1>2, <2>1, <2>2, <2>3
<1>4. ASSUME ServerReceives PROVE Others'
  BY <1>2, <1>4 DEF ServerReceives
<1>5. ASSUME ServerConnects PROVE Others'
  <2>1. \A t \in Threads : CLIENT_BASE_PORT + t = peer => t = 0
    BY <1>2, <1>5 DEF ServerConnects, Threads
  <2>2. backlog' \subseteq {0}
    <3> DEFINE addressed == {t \in Threads : CLIENT_BASE_PORT + t = peer}
    <3>1. backlog' \subseteq backlog \cup addressed
      BY <1>5 DEF ServerConnects
    <3>2. addressed \subseteq {0}
      BY <2>1
    <3> QED
      BY <1>2, <3>1, <3>2
  <2>3. server' # "metadata" /\ UNCHANGED net
    BY <1>5 DEF ServerConnects
  <2> QED
    BY <1>2, <2>2, <2>3
<1>6. ASSUME ServerBind \/ ServerExits PROVE Others'
  <2>1. server' # "metadata" /\ UNCHANGED <<net, backlog>>
    BY <1>6 DEF ServerBind, ServerExits
  <2> QED
    BY <1>2, <2>1
<1>7. ASSUME UNCHANGED <<net, serverVars>>, backlog' \subseteq backlog PROVE Others'
  BY <1>2, <1>7 DEF serverVars
<1>8. ASSUME MainNext PROVE UNCHANGED <<net, serverVars, backlog>>
  BY <1>8 DEF MainNext, Partition, CreateThread, Join, Return
<1>9. ASSUME NEW t \in Threads,
             SetUp(t) \/ UseFreed(t) \/ Disconnected(t) \/ EndTransfer(t), ~ SendMetadata(t)
      PROVE  UNCHANGED <<net, serverVars>> /\ backlog' \subseteq backlog
  BY <1>9 DEF SetUp, CreateSocket, NoHandles, BindSocket, tcp_server_start, StrayPointer,
              tcp_server_accept, UseFreed, Disconnected, EndTransfer, Crash
<1>10. Others'
  <2> HIDE DEF Others
  <2> QED
    BY <1>3, <1>4, <1>5, <1>6, <1>7, <1>8, <1>9 DEF Next, ServerNext
<1> QED
  BY <1>1, <1>10 DEF FirstIsServed

\* Main's loops start and join every thread.
LEMMA NextMainOrder ==
  ASSUME TypeOK, MainOrder, Next
  PROVE  MainOrder'
<1>1. CASE CreateThread
  <2>1. /\ mpc = "create" /\ idx \in Threads /\ pc' = [pc EXCEPT ![idx] = "socket"]
        /\ \/ idx' = idx + 1 /\ mpc' = "create"
           \/ mpc' = "join" /\ idx' = 0
    BY <1>1 DEF CreateThread, TypeOK
  <2>2. \A t \in Threads : t >= idx + 1 => pc'[t] = "none"
    BY <2>1 DEF TypeOK, MainOrder, Threads
  <2>3. \A t \in Threads : ~ (t < 0)
    BY DEF Threads
  <2> QED
    BY <2>1, <2>2, <2>3 DEF MainOrder
<1>2. CASE MainNext /\ ~ CreateThread
  <2>1. CASE Join
    <3>1. /\ mpc = "join" /\ mpc' = "join" /\ UNCHANGED pc
          /\ idx \in Threads /\ pc[idx] = "ended" /\ idx' = idx + 1
      BY <2>1, ThreadsAssumption DEF Join, TypeOK
    <3>2. \A t \in Threads : t < idx => pc[t] = "ended"
      BY <3>1 DEF MainOrder
    <3>3. \A t \in Threads : t < idx + 1 => t < idx \/ t = idx
      BY <3>1 DEF Threads
    <3> QED
      BY <3>1, <3>2, <3>3 DEF MainOrder
  <2>2. CASE Return
    <3>1. mpc = "join" /\ mpc' = "returned" /\ UNCHANGED pc /\ idx = NUM_THREADS
      BY <2>2 DEF Return
    <3>2. \A t \in Threads : t < NUM_THREADS
      BY ThreadsAssumption DEF Threads
    <3> QED
      BY <3>1, <3>2 DEF MainOrder
  <2>3. CASE \E ok \in BOOLEAN : Partition(ok)
    BY <2>3 DEF Partition, MainOrder
  <2> QED
    BY <1>2, <2>1, <2>2, <2>3 DEF MainNext
<1>3. CASE ~ MainNext
  <2>1. UNCHANGED mainVars
    <3>1. ASSUME ServerNext \/ ServerExits PROVE UNCHANGED mainVars
      BY <3>1 DEF ServerNext, ServerBind, ServerReceives, ServerConnects, ServerExits
    <3>2. ASSUME NEW t \in Threads,
                 SetUp(t) \/ UseFreed(t) \/ Disconnected(t) \/ EndTransfer(t)
          PROVE  UNCHANGED mainVars
      BY <3>2 DEF SetUp, CreateSocket, NoHandles, BindSocket, tcp_server_start, StrayPointer,
                  SendMetadata, tcp_server_accept, UseFreed, Disconnected, EndTransfer, Crash
    <3> QED
      BY <1>3, <3>1, <3>2 DEF Next
  <2>2. ~ CreateThread
    BY <1>3 DEF MainNext
  <2>3. \A t \in Threads : pc[t] \in {"none", "ended"} => pc'[t] = pc[t]
    BY <2>2, ThreadsMove DEF TypeOK
  <2> QED
    BY <2>1, <2>3 DEF MainOrder, mainVars
<1> QED
  BY <1>1, <1>2, <1>3

\* A TCP server that was started watches its listening socket.
LEMMA NextListenerIsWatched ==
  ASSUME TypeOK, MainOrder, ListenerIsWatched, Next
  PROVE  ListenerIsWatched'
<1> USE DEF ListenerIsWatched
<1> DEFINE TypeOfTcp == pc \in [Threads -> Steps] /\ tcp \in [Threads -> TcpServers]
<1>1. TypeOfTcp
  BY DEF TypeOK, TcpServers
\* No thread gets behind the start of its server, no structure changes.
<1>2. ASSUME UNCHANGED tcp,
             \A t \in Threads :
               pc'[t] # pc[t] =>
                 /\ pc'[t] \in {"none", "socket", "bind", "listen"}
                      => pc[t] \in {"none", "socket", "bind", "listen"}
                 /\ pc'[t] \in {"metadata", "accept", "transfer"}
                      => pc[t] \in {"metadata", "accept", "transfer"}
      PROVE  ListenerIsWatched'
  BY <1>2
<1>3. ASSUME MainNext PROVE ListenerIsWatched'
  <2>1. CASE CreateThread
    <3>1. /\ UNCHANGED tcp /\ pc' = [pc EXCEPT ![idx] = "socket"]
          /\ idx \in Threads => pc[idx] = "none"
      BY <2>1 DEF CreateThread, MainOrder, Threads
    <3> QED
      BY <1>1, <1>2, <3>1
  <2>2. CASE Join \/ Return \/ (\E ok \in BOOLEAN : Partition(ok))
    BY <1>2, <2>2 DEF Join, Return, Partition
  <2> QED
    BY <1>3, <2>1, <2>2 DEF MainNext
<1>4. ASSUME ServerNext \/ ServerExits PROVE ListenerIsWatched'
  BY <1>2, <1>4 DEF ServerNext, ServerBind, ServerReceives, ServerConnects, ServerExits
<1>5. ASSUME NEW t \in Threads, NoHandles(t) \/ StrayPointer(t) \/ UseFreed(t)
      PROVE  ListenerIsWatched'
  BY <1>2, <1>5 DEF NoHandles, StrayPointer, UseFreed, Crash
<1>6. ASSUME NEW t \in Threads, CreateSocket(t) \/ SendMetadata(t) \/ EndTransfer(t)
      PROVE  ListenerIsWatched'
  <2>1. UNCHANGED tcp
    BY <1>6 DEF CreateSocket, SendMetadata, EndTransfer
  <2>2. \E step \in Steps : /\ pc' = [pc EXCEPT ![t] = step]
                            /\ \/ step = "bind" /\ pc[t] = "socket"
                               \/ step = "accept" /\ pc[t] = "metadata"
                               \/ step = "ended"
    BY <1>6 DEF CreateSocket, SendMetadata, EndTransfer, At, Goto, Steps
  <2> QED
    BY <1>1, <1>2, <2>1, <2>2
<1>7. ASSUME NEW t \in Threads, NEW ok \in BOOLEAN, BindSocket(t, ok)
      PROVE  ListenerIsWatched'
  <2>1. /\ UNCHANGED tcp /\ pc[t] = "bind"
        /\ pc' = [pc EXCEPT ![t] = IF ok THEN "listen" ELSE "ended"]
    BY <1>7 DEF BindSocket, At, Goto
  <2> QED
    BY <1>1, <1>2, <2>1
<1>8. ASSUME NEW t \in Threads, NEW outcome \in StartOutcomes, tcp_server_start(t, outcome)
      PROVE  ListenerIsWatched'
  <2>1. /\ pc' = [pc EXCEPT ![t] = "metadata"]
        /\ \A u \in Threads : u # t => tcp'[u] = tcp[u]
    BY <1>1, <1>8 DEF tcp_server_start, Goto
  <2>2. tcp'[t] = ServerAfter(outcome)
    BY <1>1, <1>8 DEF tcp_server_start
  <2>3. tcp'[t].fds # {} => tcp'[t].sd \in tcp'[t].fds
    <3>1. NewFd \in Nat
      BY NewFdIsLeast
    <3> QED
      BY <2>2, <3>1, StartedIsServer
  <2> QED
    BY <1>1, <2>1, <2>3
<1>9. ASSUME NEW t \in Threads, tcp_server_accept(t) PROVE ListenerIsWatched'
  <2>1. /\ pc[t] = "accept" /\ pc' = [pc EXCEPT ![t] = "transfer"] /\ tcp[t].fds # {}
        /\ \A u \in Threads : u # t => tcp'[u] = tcp[u]
        /\ tcp'[t] = create_child_socket(tcp[t], NewFd)
    BY <1>1, <1>9 DEF tcp_server_accept, At, Goto
  <2>2. tcp'[t].sd = tcp[t].sd /\ tcp[t].fds \subseteq tcp'[t].fds
    <3>1. NewFd \in Nat /\ tcp[t] \in TcpServers
      BY <1>1, NewFdIsLeast
    <3>2. create_child_socket(tcp[t], NewFd).sd = tcp[t].sd
      BY <3>1, ChildProperties
    <3>3. create_child_socket(tcp[t], NewFd).fds = tcp[t].fds \cup {NewFd}
      BY <3>1, ChildProperties
    <3> QED
      BY <2>1, <3>2, <3>3, Zenon
  <2> QED
    BY <1>1, <2>1, <2>2
<1>10. ASSUME NEW t \in Threads, Disconnected(t) PROVE ListenerIsWatched'
  <2>1. PICK child \in ScannedChildren(tcp[t]) : tcp' = [tcp EXCEPT ![t] = close_child_socket(@, child)]
    BY <1>10 DEF Disconnected
  <2>2. /\ pc[t] = "transfer" /\ UNCHANGED pc
        /\ \A u \in Threads : u # t => tcp'[u] = tcp[u]
        /\ tcp'[t] = close_child_socket(tcp[t], child)
    BY <1>1, <1>10, <2>1 DEF Disconnected, At
  <2>3. tcp[t] \in TcpServers /\ child \in tcp[t].fds /\ child > tcp[t].sd /\ child \in Nat
    BY <1>1, <2>1 DEF ScannedChildren, TcpServers
  <2>4. tcp'[t].sd = tcp[t].sd /\ tcp'[t].fds = tcp[t].fds \ {child}
    <3>1. close_child_socket(tcp[t], child).sd = tcp[t].sd
      BY <2>3, ChildProperties
    <3>2. close_child_socket(tcp[t], child).fds = tcp[t].fds \ {child}
      BY <2>3, ChildProperties
    <3> QED
      BY <2>2, <3>1, <3>2, Zenon
  <2>5. tcp'[t].fds # {} => tcp'[t].sd \in tcp'[t].fds
    BY <1>1, <2>2, <2>3, <2>4 DEF TcpServers
  <2> QED
    BY <1>1, <2>2, <2>5
<1> QED
  BY <1>3, <1>4, <1>5, <1>6, <1>7, <1>8, <1>9, <1>10 DEF Next, SetUp

\* No gaps before the first thread transfers: until then nothing is closed.
LEMMA NextNoGaps ==
  ASSUME TypeOK, FirstIsServed, MainOrder, NoGaps, Next
  PROVE  NoGaps'
<1>1. 0 \in Threads
  BY ThreadsAssumption DEF Threads
<1>2. ASSUME crashed' \/ pc'[0] \in {"transfer", "ended"} PROVE NoGaps'
  BY <1>2 DEF NoGaps
<1>3. ASSUME pc[0] \in {"transfer", "ended"} PROVE crashed' \/ pc'[0] \in {"transfer", "ended"}
  <2>1. ~ CreateThread \/ idx # 0
    BY <1>1, <1>3 DEF CreateThread, MainOrder, Threads
  <2>2. CASE CreateThread
    BY <1>1, <1>3, <2>1, <2>2 DEF CreateThread, TypeOK
  <2>3. CASE ~ CreateThread
    BY <1>1, <1>3, <2>3, ThreadsMove DEF TypeOK, Steps, tcp_server_accept, At
  <2> QED
    BY <2>2, <2>3
<1>4. ASSUME UNCHANGED fdt, UNCHANGED crashed \/ crashed',
             pc[0] \notin {"transfer", "ended"}
      PROVE  NoGaps'
  BY <1>4 DEF NoGaps
<1>5. ASSUME NEW t \in Threads, NEW kind \in {"udp", "tcp"}, fdt' = Opened(NewFd, t, kind),
             ~ crashed, pc[0] \notin {"transfer", "ended"}
      PROVE  NoGaps'
  <2>1. DOMAIN fdt' = DOMAIN fdt \cup {NewFd} /\ NewFd \in Nat
    BY <1>5, OpenKeepsTable
  <2>2. 0 .. NewFd \subseteq DOMAIN fdt'
    BY <2>1, NewFdIsLeast
  <2>3. \A fd \in DOMAIN fdt : 0 .. fd \subseteq DOMAIN fdt
    BY <1>5 DEF NoGaps
  <2> QED
    BY <2>1, <2>2, <2>3 DEF NoGaps
<1>6. ASSUME MainNext, pc[0] \notin {"transfer", "ended"} PROVE NoGaps'
  <2>1. CASE Partition(TRUE)
    <3>1. DOMAIN fdt' = Threads
      BY <2>1 DEF Partition
    <3> QED
      BY <3>1, ThreadsAssumption DEF NoGaps, Threads
  <2>2. CASE Partition(FALSE)
    <3>1. DOMAIN fdt' = {}
      BY <2>2 DEF Partition
    <3> QED
      BY <3>1 DEF NoGaps
  <2>3. CASE CreateThread \/ Join
    BY <1>4, <1>6, <2>3 DEF CreateThread, Join
  <2>4. ~ Return
    <3>1. Return => pc[0] = "ended"
      BY <1>1, ThreadsAssumption DEF Return, MainOrder
    <3> QED
      BY <1>6, <3>1
  <2> QED
    BY <1>6, <2>1, <2>2, <2>3, <2>4 DEF MainNext
<1>7. ASSUME NEW t \in Threads, SetUp(t), pc[0] \notin {"transfer", "ended"} PROVE NoGaps'
  <2>1. CASE CreateSocket(t)
    BY <1>5, <1>7, <2>1 DEF CreateSocket, At
  <2>2. ASSUME NEW outcome \in StartOutcomes, tcp_server_start(t, outcome) PROVE NoGaps'
    BY <1>5, <1>7, <2>2 DEF tcp_server_start, At
  <2>3. CASE tcp_server_accept(t)
    BY <1>5, <1>7, <2>3 DEF tcp_server_accept, At
  <2>4. CASE SendMetadata(t) \/ (\E ok \in BOOLEAN : BindSocket(t, ok))
    BY <1>4, <1>7, <2>4 DEF SendMetadata, BindSocket
  <2>5. CASE NoHandles(t) \/ StrayPointer(t)
    BY <1>2, <2>5 DEF NoHandles, StrayPointer, Crash
  <2> QED
    BY <1>7, <2>1, <2>2, <2>3, <2>4, <2>5 DEF SetUp
<1>8. ASSUME NEW t \in Threads, UseFreed(t) \/ Disconnected(t) \/ EndTransfer(t),
             pc[0] \notin {"transfer", "ended"}
      PROVE  NoGaps'
  <2>1. CASE UseFreed(t)
    BY <1>2, <2>1 DEF UseFreed, Crash
  <2>2. ~ Disconnected(t) /\ ~ EndTransfer(t)
    BY <1>8 DEF Disconnected, EndTransfer, At, FirstIsServed, WindowsHaveOneUser
  <2> QED
    BY <1>8, <2>1, <2>2
<1>9. ASSUME ServerNext \/ ServerExits, pc[0] \notin {"transfer", "ended"} PROVE NoGaps'
  BY <1>4, <1>9 DEF ServerNext, ServerBind, ServerReceives, ServerConnects, ServerExits
<1> QED
  BY <1>2, <1>3, <1>6, <1>7, <1>8, <1>9 DEF Next

\* What a thread relies on: that its part and its UDP socket are open, and the
\* sockets it watches.
PartAndSocketOpen(t) ==
  Running(t) =>
    /\ t \in DOMAIN fdt /\ fdt[t] = [thread |-> t, kind |-> "part"]
    /\ sock[t] \in DOMAIN fdt /\ fdt[sock[t]] = [thread |-> t, kind |-> "udp"]

WatchedOpen(t) ==
  \A fd \in tcp[t].fds : fd \in DOMAIN fdt /\ fdt[fd] = [thread |-> t, kind |-> "tcp"]

\* A process that has died does not come back.
LEMMA CrashIsFinal ==
  ASSUME Next, crashed
  PROVE  crashed'
<1>1. ASSUME MainNext \/ ServerNext \/ ServerExits PROVE crashed'
  BY <1>1 DEF MainNext, Partition, CreateThread, Join, Return, ServerNext, ServerBind,
              ServerReceives, ServerConnects, ServerExits
<1>2. ASSUME NEW t \in Threads, SetUp(t) \/ UseFreed(t) \/ Disconnected(t) \/ EndTransfer(t)
      PROVE  crashed'
  BY <1>2 DEF SetUp, CreateSocket, NoHandles, BindSocket, tcp_server_start, SendMetadata,
              StrayPointer, tcp_server_accept, UseFreed, Disconnected, EndTransfer, At
<1> QED
  BY <1>1, <1>2 DEF Next

\* Nobody closes what another one uses.
LEMMA NextHandlesAreOwn ==
  ASSUME TypeOK, FirstIsServed, MainOrder, PartsInPlace, ListenerIsWatched, HandlesAreOwn, Next,
         ~ crashed, ~ crashed'
  PROVE  HandlesAreOwn'
<1>1. \A u \in Threads : PartAndSocketOpen(u) /\ WatchedOpen(u)
  BY DEF HandlesAreOwn, PartAndSocketOpen, WatchedOpen
<1>2. SUFFICES \A u \in Threads : PartAndSocketOpen(u)' /\ WatchedOpen(u)'
  BY DEF HandlesAreOwn, PartAndSocketOpen, WatchedOpen
<1>3. pc \in [Threads -> Steps] /\ sock \in [Threads -> Nat \cup {-1}] /\ tcp \in [Threads -> TcpServers]
  BY DEF TypeOK, TcpServers
<1>4. ASSUME UNCHANGED <<fdt, sock, tcp>>, \A u \in Threads : Running(u)' => Running(u)
      PROVE  \A u \in Threads : PartAndSocketOpen(u)' /\ WatchedOpen(u)'
  BY <1>1, <1>4 DEF PartAndSocketOpen, WatchedOpen
<1>5. ASSUME MainNext PROVE \A u \in Threads : PartAndSocketOpen(u)' /\ WatchedOpen(u)'
  <2>1. CASE CreateThread
    BY <1>3, <1>4, <2>1 DEF CreateThread, Running
  <2>2. CASE Join
    BY <1>4, <2>2 DEF Join, Running
  <2>3. ASSUME NEW ok \in BOOLEAN, Partition(ok), NEW u \in Threads
        PROVE  PartAndSocketOpen(u)' /\ WatchedOpen(u)'
    <3>1. pc[u] = "none" /\ UNCHANGED <<pc, tcp>>
      BY <2>3 DEF Partition, MainOrder
    <3>2. tcp[u].fds = {}
      BY <3>1 DEF ListenerIsWatched, NoServer
    <3> QED
      BY <3>1, <3>2 DEF PartAndSocketOpen, WatchedOpen, Running
  <2>4. ASSUME Return, NEW u \in Threads
        PROVE  PartAndSocketOpen(u)' /\ WatchedOpen(u)'
    <3>1. pc[u] = "ended" /\ UNCHANGED <<pc, tcp>>
      BY <2>4, ThreadsAssumption DEF Return, MainOrder, Threads
    <3>2. \A fd \in DOMAIN fdt : fdt[fd].kind = "tcp" => fd \in DOMAIN fdt' /\ fdt'[fd] = fdt[fd]
      BY <2>4 DEF Return, Restrict
    <3>3. WatchedOpen(u)'
      BY <1>1, <3>1, <3>2 DEF WatchedOpen
    <3> QED
      BY <3>1, <3>3 DEF PartAndSocketOpen, Running
  <2> QED
    BY <1>5, <2>1, <2>2, <2>3, <2>4 DEF MainNext
<1>6. ASSUME NEW t \in Threads, NEW u \in Threads, CreateSocket(t)
      PROVE  PartAndSocketOpen(u)' /\ WatchedOpen(u)'
  <2>1. /\ NewFd \in Nat \ DOMAIN fdt /\ DOMAIN fdt' = DOMAIN fdt \cup {NewFd}
        /\ fdt'[NewFd] = [thread |-> t, kind |-> "udp"]
        /\ \A x \in DOMAIN fdt : fdt'[x] = fdt[x]
    BY <1>6, OpenKeepsTable DEF CreateSocket
  <2>2. /\ UNCHANGED tcp /\ sock' = [sock EXCEPT ![t] = NewFd]
        /\ pc' = [pc EXCEPT ![t] = "bind"]
    BY <1>6 DEF CreateSocket, Goto
  <2>3. t \in DOMAIN fdt /\ fdt[t] = [thread |-> t, kind |-> "part"]
    BY <1>6 DEF CreateSocket, PartsInPlace, TypeOK
  <2>4. PartAndSocketOpen(u)'
    <3>1. CASE u = t
      BY <1>3, <2>1, <2>2, <2>3, <3>1 DEF PartAndSocketOpen
    <3>2. CASE u # t
      BY <1>1, <1>3, <2>1, <2>2, <3>2 DEF PartAndSocketOpen, Running
    <3> QED
      BY <3>1, <3>2
  <2>5. WatchedOpen(u)'
    BY <1>1, <2>1, <2>2 DEF WatchedOpen
  <2> QED
    BY <2>4, <2>5
<1>7. ASSUME NEW t \in Threads, NEW u \in Threads, NEW outcome \in StartOutcomes, tcp_server_start(t, outcome)
      PROVE  PartAndSocketOpen(u)' /\ WatchedOpen(u)'
  <2>1. /\ NewFd \in Nat \ DOMAIN fdt /\ DOMAIN fdt' = DOMAIN fdt \cup {NewFd}
        /\ fdt'[NewFd] = [thread |-> t, kind |-> "tcp"]
        /\ \A x \in DOMAIN fdt : fdt'[x] = fdt[x]
    BY <1>7, OpenKeepsTable DEF tcp_server_start
  <2>2. /\ UNCHANGED sock /\ pc[t] = "listen" /\ pc' = [pc EXCEPT ![t] = "metadata"]
        /\ u # t => tcp'[u] = tcp[u]
        /\ tcp'[t].fds \subseteq {NewFd}
    <3>1. /\ UNCHANGED sock /\ pc[t] = "listen" /\ pc' = [pc EXCEPT ![t] = "metadata"]
          /\ u # t => tcp'[u] = tcp[u]
      BY <1>3, <1>7 DEF tcp_server_start, At, Goto
    <3>2. tcp'[t] = ServerAfter(outcome)
      BY <1>3, <1>7 DEF tcp_server_start
    <3>3. ServerAfter(outcome).fds \subseteq {NewFd}
      BY <2>1, StartedIsServer
    <3> QED
      BY <3>1, <3>2, <3>3
  <2>3. PartAndSocketOpen(u)'
    BY <1>1, <1>3, <2>1, <2>2 DEF PartAndSocketOpen, Running
  <2>4. WatchedOpen(u)'
    BY <1>1, <2>1, <2>2 DEF WatchedOpen
  <2> QED
    BY <2>3, <2>4
<1>8. ASSUME NEW t \in Threads, NEW u \in Threads, tcp_server_accept(t)
      PROVE  PartAndSocketOpen(u)' /\ WatchedOpen(u)'
  <2>1. /\ NewFd \in Nat \ DOMAIN fdt /\ DOMAIN fdt' = DOMAIN fdt \cup {NewFd}
        /\ fdt'[NewFd] = [thread |-> t, kind |-> "tcp"]
        /\ \A x \in DOMAIN fdt : fdt'[x] = fdt[x]
    BY <1>8, OpenKeepsTable DEF tcp_server_accept
  <2>2. /\ UNCHANGED sock /\ pc[t] = "accept" /\ pc' = [pc EXCEPT ![t] = "transfer"]
        /\ u # t => tcp'[u] = tcp[u]
        /\ tcp'[t] = create_child_socket(tcp[t], NewFd)
    BY <1>3, <1>8 DEF tcp_server_accept, At, Goto
  <2>3. tcp'[t].fds = tcp[t].fds \cup {NewFd}
    <3>1. NewFd \in Nat /\ tcp[t] \in TcpServers
      BY <1>3, <2>1
    <3>2. create_child_socket(tcp[t], NewFd).fds = tcp[t].fds \cup {NewFd}
      BY ONLY <3>1, ChildProperties
    <3> QED
      BY <2>2, <3>2
  <2>4. PartAndSocketOpen(u)'
    BY <1>1, <1>3, <2>1, <2>2 DEF PartAndSocketOpen, Running
  <2>5. WatchedOpen(u)'
    BY <1>1, <2>1, <2>2, <2>3 DEF WatchedOpen
  <2> QED
    BY <2>4, <2>5
\* What is closed has the kind and the thread of no one else's.
<1>9. ASSUME NEW t \in Threads, NEW u \in Threads, Disconnected(t)
       PROVE  PartAndSocketOpen(u)' /\ WatchedOpen(u)'
  <2>1. PICK child \in tcp[t].fds :
           /\ fdt' = Closed(child) /\ tcp' = [tcp EXCEPT ![t] = close_child_socket(@, child)]
    BY <1>9 DEF Disconnected, ScannedChildren
  <2>2. /\ child \in DOMAIN fdt /\ fdt[child] = [thread |-> t, kind |-> "tcp"]
        /\ \A x \in DOMAIN fdt \ {child} : x \in DOMAIN fdt' /\ fdt'[x] = fdt[x]
    BY <1>1, <2>1, CloseKeepsTable DEF WatchedOpen
  <2>3. /\ u # t => tcp'[u] = tcp[u]
        /\ tcp'[t].fds = tcp[t].fds \ {child}
    BY <1>3, <2>1, ChildProperties DEF TcpServers
  <2>4. UNCHANGED <<pc, sock>> /\ (Running(u)' => Running(u))
    BY <1>9 DEF Disconnected, Running
  <2>5. PartAndSocketOpen(u)'
    BY <1>1, <2>2, <2>4 DEF PartAndSocketOpen
  <2>6. WatchedOpen(u)'
    BY <1>1, <2>2, <2>3 DEF WatchedOpen
  <2> QED
    BY <2>5, <2>6
<1>10. ASSUME NEW t \in Threads, NEW u \in Threads, EndTransfer(t)
       PROVE  PartAndSocketOpen(u)' /\ WatchedOpen(u)'
  <2>1. /\ pc[t] = "transfer" /\ pc' = [pc EXCEPT ![t] = "ended"]
        /\ UNCHANGED <<sock, tcp>> /\ fdt' = Closed(sock[t])
    BY <1>10 DEF EndTransfer, At, Goto
  <2>2. /\ sock[t] \in DOMAIN fdt /\ fdt[sock[t]] = [thread |-> t, kind |-> "udp"]
        /\ \A x \in DOMAIN fdt \ {sock[t]} : x \in DOMAIN fdt' /\ fdt'[x] = fdt[x]
    BY <1>1, <2>1, CloseKeepsTable DEF PartAndSocketOpen, Running
  <2>3. PartAndSocketOpen(u)'
    BY <1>1, <1>3, <2>1, <2>2 DEF PartAndSocketOpen, Running
  <2>4. WatchedOpen(u)'
    BY <1>1, <2>1, <2>2 DEF WatchedOpen
  <2> QED
    BY <2>3, <2>4
<1>11. ASSUME NEW t \in Threads, SendMetadata(t) \/ (\E ok \in BOOLEAN : BindSocket(t, ok))
       PROVE  \A u \in Threads : PartAndSocketOpen(u)' /\ WatchedOpen(u)'
  <2>1. UNCHANGED <<fdt, sock, tcp>>
    BY <1>11 DEF SendMetadata, BindSocket
  <2>2. \E step \in Steps : pc[t] \in {"metadata", "bind"} /\ pc' = [pc EXCEPT ![t] = step]
    BY <1>11 DEF SendMetadata, BindSocket, At, Goto, Steps
  <2>3. \A u \in Threads : Running(u)' => Running(u)
    BY <1>3, <2>2 DEF Running
  <2> QED
    BY <1>4, <2>1, <2>3
<1>12. ASSUME ServerNext \/ ServerExits
       PROVE  \A u \in Threads : PartAndSocketOpen(u)' /\ WatchedOpen(u)'
  BY <1>4, <1>12 DEF ServerNext, ServerBind, ServerReceives, ServerConnects, ServerExits, Running
<1>13. ASSUME NEW t \in Threads, NoHandles(t) \/ StrayPointer(t) \/ UseFreed(t)
       PROVE  FALSE
  BY <1>13 DEF NoHandles, StrayPointer, UseFreed, Crash
<1> QED
  BY <1>5, <1>6, <1>7, <1>8, <1>9, <1>10, <1>11, <1>12, <1>13 DEF Next, SetUp

\* What is watched lies between the listening socket and max_sd: a connection
\* accepted by the first thread has a number above its listening socket, since
\* there are no gaps.
LEMMA NextWatchedIsScanned ==
  ASSUME TypeOK, FirstIsServed, ListenerIsWatched, HandlesAreOwn, NoGaps, WatchedIsScanned, Next
  PROVE  WatchedIsScanned'
<1>1. tcp \in [Threads -> TcpServers] /\ \A u \in Threads : tcp[u] \in TcpServers
  BY DEF TypeOK, TcpServers
<1>2. \A u \in Threads : tcp[u].fds \subseteq tcp[u].sd .. tcp[u].max_sd
  BY DEF WatchedIsScanned
<1>3. ASSUME UNCHANGED tcp PROVE WatchedIsScanned'
  BY <1>3 DEF WatchedIsScanned
<1>4. ASSUME NEW t \in Threads, NEW srv, tcp' = [tcp EXCEPT ![t] = srv],
             srv.fds \subseteq srv.sd .. srv.max_sd
      PROVE  WatchedIsScanned'
  BY <1>1, <1>2, <1>4 DEF WatchedIsScanned
<1>5. ASSUME NEW t \in Threads, NEW outcome \in StartOutcomes, tcp_server_start(t, outcome)
      PROVE  WatchedIsScanned'
  <2>1. NewFd \in Nat
    BY NewFdIsLeast
  <2> DEFINE srv == ServerAfter(outcome)
  <2>2. tcp' = [tcp EXCEPT ![t] = srv]
    BY <1>5 DEF tcp_server_start
  <2>3. srv.fds # {} => srv.fds = {NewFd} /\ srv.sd = NewFd /\ srv.max_sd = NewFd
    BY <2>1, StartedIsServer
  <2> HIDE DEF srv
  <2>4. srv.fds \subseteq srv.sd .. srv.max_sd
    BY <2>1, <2>3
  <2> QED
    BY <1>4, <2>2, <2>4
<1>6. ASSUME NEW t \in Threads, tcp_server_accept(t) PROVE WatchedIsScanned'
  <2> DEFINE srv == create_child_socket(tcp[t], NewFd)
  <2>1. NewFd \in Nat \ DOMAIN fdt /\ tcp' = [tcp EXCEPT ![t] = srv]
    BY <1>1, <1>6, NewFdIsLeast DEF tcp_server_accept
  <2>2. t = 0 /\ ~ crashed /\ pc[t] = "accept" /\ tcp[t].fds # {}
    BY <1>6 DEF tcp_server_accept, At, FirstIsServed
  <2>3. tcp[t].sd \in tcp[t].fds /\ tcp[t].sd \in DOMAIN fdt
    BY <2>2 DEF ListenerIsWatched, HandlesAreOwn
  <2>4. 0 .. tcp[t].sd \subseteq DOMAIN fdt
    BY <2>2, <2>3 DEF NoGaps
  <2>5. tcp[t].sd < NewFd
    BY <1>1, <2>1, <2>4 DEF TcpServers
  <2>6. /\ srv.sd = tcp[t].sd /\ srv.fds = tcp[t].fds \cup {NewFd}
        /\ srv.max_sd = IF NewFd > tcp[t].max_sd THEN NewFd ELSE tcp[t].max_sd
    <3>1. NewFd \in Nat /\ tcp[t] \in TcpServers
      BY <1>1, <2>1
    <3> QED
      BY ONLY <3>1, ChildProperties
  <2>7. /\ tcp[t].sd \in Int /\ tcp[t].max_sd \in Int
        /\ tcp[t].fds \subseteq tcp[t].sd .. tcp[t].max_sd
    BY <1>1, <1>2 DEF TcpServers
  <2> HIDE DEF srv
  <2>8. srv.fds \subseteq srv.sd .. srv.max_sd
    BY <2>1, <2>5, <2>6, <2>7
  <2> QED
    BY <1>4, <2>1, <2>8
<1>7. ASSUME NEW t \in Threads, Disconnected(t) PROVE WatchedIsScanned'
  <2>1. PICK child \in tcp[t].fds : tcp' = [tcp EXCEPT ![t] = close_child_socket(@, child)]
    BY <1>7 DEF Disconnected, ScannedChildren
  <2> DEFINE srv == close_child_socket(tcp[t], child)
  <2>2. tcp' = [tcp EXCEPT ![t] = srv]
    BY <1>1, <2>1
  <2>3. /\ tcp[t].sd \in Int /\ tcp[t].max_sd \in Int /\ child \in Nat
        /\ tcp[t].fds \subseteq tcp[t].sd .. tcp[t].max_sd
    BY <1>1, <1>2 DEF TcpServers
  <2>4. /\ srv.sd = tcp[t].sd /\ srv.fds = tcp[t].fds \ {child}
        /\ srv.max_sd = IF child = tcp[t].max_sd THEN tcp[t].max_sd - 1 ELSE tcp[t].max_sd
    BY <1>1, <2>3, ChildProperties
  <2> HIDE DEF srv
  <2>5. srv.fds \subseteq srv.sd .. srv.max_sd
    BY <2>3, <2>4
  <2> QED
    BY <1>4, <2>2, <2>5
<1>8. ASSUME MainNext \/ ServerNext \/ ServerExits PROVE UNCHANGED tcp
  BY <1>8 DEF MainNext, Partition, CreateThread, Join, Return, ServerNext, ServerBind,
              ServerReceives, ServerConnects, ServerExits
<1>9. ASSUME NEW t \in Threads,
             \/ CreateSocket(t) \/ NoHandles(t) \/ SendMetadata(t) \/ StrayPointer(t)
             \/ UseFreed(t) \/ EndTransfer(t) \/ (\E ok \in BOOLEAN : BindSocket(t, ok))
      PROVE  UNCHANGED tcp
  BY <1>9 DEF CreateSocket, NoHandles, SendMetadata, StrayPointer, UseFreed, EndTransfer,
              BindSocket, Crash
<1> QED
  BY <1>3, <1>5, <1>6, <1>7, <1>8, <1>9 DEF Next, SetUp

\* Which thread ends in a step, and where: the first at the end of its
\* transfer, any other at bind.
LEMMA EndsAtBind ==
  ASSUME TypeOK, FirstIsServed, Next, NEW t \in Threads, t # 0, pc'[t] = "ended"
  PROVE  \/ pc[t] = "ended"
         \/ pc[t] = "bind" /\ BindSocket(t, FALSE)
<1> SUFFICES ASSUME pc[t] # "ended" PROVE pc[t] = "bind" /\ BindSocket(t, FALSE)
  OBVIOUS
<1>1. pc \in [Threads -> Steps]
  BY DEF TypeOK
<1>2. ASSUME MainNext \/ ServerNext \/ ServerExits PROVE FALSE
  BY <1>1, <1>2 DEF MainNext, Partition, CreateThread, Join, Return, ServerNext, ServerBind,
                    ServerReceives, ServerConnects, ServerExits
<1>3. ASSUME NEW u \in Threads,
             \/ CreateSocket(u) \/ NoHandles(u) \/ SendMetadata(u) \/ StrayPointer(u)
             \/ tcp_server_accept(u) \/ UseFreed(u) \/ Disconnected(u)
             \/ (\E outcome \in StartOutcomes : tcp_server_start(u, outcome))
      PROVE  FALSE
  BY <1>1, <1>3 DEF CreateSocket, NoHandles, SendMetadata, StrayPointer, tcp_server_accept,
                    UseFreed, Disconnected, tcp_server_start, Crash, Goto
<1>4. ASSUME NEW u \in Threads, EndTransfer(u) PROVE FALSE
  <2>1. u = 0
    BY <1>4 DEF EndTransfer, At, FirstIsServed, WindowsHaveOneUser
  <2> QED
    BY <1>1, <1>4, <2>1 DEF EndTransfer, Goto
<1>5. ASSUME NEW u \in Threads, NEW ok \in BOOLEAN, BindSocket(u, ok)
      PROVE  pc[t] = "bind" /\ BindSocket(t, FALSE)
  <2>1. pc[u] = "bind" /\ pc' = [pc EXCEPT ![u] = IF ok THEN "listen" ELSE "ended"]
    BY <1>5 DEF BindSocket, At, Goto
  <2>2. u = t /\ ok = FALSE
    BY <1>1, <2>1
  <2> QED
    BY <1>5, <2>1, <2>2
<1> QED
  BY <1>2, <1>3, <1>4, <1>5 DEF Next, SetUp

\* An ended thread starts no TCP server, and one that ends at bind has none.
LEMMA NextOthersEndUnbound ==
  ASSUME TypeOK, FirstIsServed, ListenerIsWatched, OthersEndUnbound, Next
  PROVE  OthersEndUnbound'
<1> SUFFICES ASSUME NEW t \in Threads, t # 0, pc'[t] = "ended"
             PROVE  tcp'[t] = NoServer
  BY DEF OthersEndUnbound
<1>1. tcp \in [Threads -> TcpServers]
  BY DEF TypeOK, TcpServers
<1>2. CASE pc[t] = "bind" /\ BindSocket(t, FALSE)
  BY <1>2 DEF BindSocket, ListenerIsWatched
<1>3. CASE pc[t] = "ended"
  <2>1. tcp[t] = NoServer
    BY <1>3 DEF OthersEndUnbound
  <2>2. ASSUME NEW u \in Threads, (\E outcome \in StartOutcomes : tcp_server_start(u, outcome))
               \/ tcp_server_accept(u) \/ Disconnected(u)
        PROVE  tcp'[t] = tcp[t]
    <3>1. pc[u] # "ended"
      BY <2>2 DEF tcp_server_start, tcp_server_accept, Disconnected, At
    <3>2. \E srv : tcp' = [tcp EXCEPT ![u] = srv]
      BY <2>2 DEF tcp_server_start, tcp_server_accept, Disconnected
    <3> QED
      BY <1>1, <1>3, <3>1, <3>2
  <2>3. ASSUME \/ MainNext \/ ServerNext \/ ServerExits
               \/ \E u \in Threads :
                    \/ CreateSocket(u) \/ NoHandles(u) \/ SendMetadata(u) \/ StrayPointer(u)
                    \/ UseFreed(u) \/ EndTransfer(u) \/ (\E ok \in BOOLEAN : BindSocket(u, ok))
        PROVE  UNCHANGED tcp
    BY <2>3 DEF MainNext, Partition, CreateThread, Join, Return, ServerNext, ServerBind,
                ServerReceives, ServerConnects, ServerExits, CreateSocket, NoHandles,
                SendMetadata, StrayPointer, UseFreed, EndTransfer, BindSocket, Crash
  <2> QED
    BY <2>1, <2>2, <2>3 DEF Next, SetUp
<1> QED
  BY <1>2, <1>3, EndsAtBind

-----------------------------------------------------------------------------
(***************************************************************************)
(* The theorems.                                                           *)
(***************************************************************************)

\* Each step of client or server keeps the inductive invariant.
LEMMA NextIInv == IInv /\ [Next]_vars => IInv'
<1> SUFFICES ASSUME IInv, [Next]_vars PROVE IInv'
  OBVIOUS
<1>1. CASE Next
  <2>1. /\ TypeOK /\ FirstIsServed /\ MainOrder /\ PartsInPlace /\ ListenerIsWatched
        /\ HandlesAreOwn /\ NoGaps /\ WatchedIsScanned /\ OthersEndUnbound
    BY DEF IInv
  <2>2. TypeOK' /\ PartsInPlace'
    BY <1>1, <2>1, NextTypeOK, NextTable
  <2>3. FirstIsServed' /\ MainOrder' /\ ListenerIsWatched' /\ NoGaps' /\ WatchedIsScanned'
    BY <1>1, <2>1, NextFirstIsServed, NextMainOrder, NextListenerIsWatched, NextNoGaps,
       NextWatchedIsScanned
  <2>4. OthersEndUnbound'
    BY <1>1, <2>1, NextOthersEndUnbound
  <2>5. crashed => crashed'
    BY <1>1, <2>1, CrashIsFinal
  <2>6. HandlesAreOwn'
    <3>1. CASE crashed'
      BY <3>1 DEF HandlesAreOwn
    <3>2. CASE ~ crashed'
      BY <1>1, <2>1, <2>5, <3>2, NextHandlesAreOwn
    <3> QED
      BY <3>1, <3>2
  <2> QED
    BY <2>2, <2>3, <2>4, <2>6 DEF IInv
<1>2. CASE UNCHANGED vars
  BY <1>2 DEF vars, mainVars, serverVars, IInv, TypeOK, FirstIsServed, WindowsHaveOneUser, MainOrder,
              PartsInPlace, ListenerIsWatched, HandlesAreOwn, Running, NoGaps, WatchedIsScanned,
              OthersEndUnbound
<1> QED
  BY <1>1, <1>2

\* In every reachable state, however many threads there are.
LEMMA IInvIsInvariant == Spec => []IInv
<1> QED
  BY InitIInv, NextIInv, PTL DEF Spec

\* Main, threads and server stay within their types.
THEOREM ClientThreadsTypes == Spec => []TypeOK
<1>1. IInv => TypeOK
  BY DEF IInv
<1> QED
  BY <1>1, IInvIsInvariant, PTL

\* Only the first thread ever uses the windows, done and packet_count of
\* ucp_client.c, which no lock protects.
THEOREM OneUserOfWindows == Spec => []WindowsHaveOneUser
<1>1. IInv => WindowsHaveOneUser
  BY DEF IInv, FirstIsServed
<1> QED
  BY <1>1, IInvIsInvariant, PTL

\* No thread finds a descriptor it is going to use closed, or open as somebody
\* else's.
THEOREM HandlesStayOwn == Spec => []HandlesAreOwn
<1>1. IInv => HandlesAreOwn
  BY DEF IInv
<1> QED
  BY <1>1, IInvIsInvariant, PTL

\* A tick scans every descriptor a thread watches: accept returns a number above
\* the listening one, and max_sd follows it.
THEOREM TickSeesEveryChild == Spec => []WatchedIsScanned
<1>1. IInv => WatchedIsScanned
  BY DEF IInv
<1> QED
  BY <1>1, IInvIsInvariant, PTL

\* main returns only when every thread but the first has failed to bind its
\* socket: it has joined them all, and the others end nowhere else.
THEOREM ReturnNeedsFailures == Spec => []ReturnNeedsFailedBinds
<1>1. IInv => ReturnNeedsFailedBinds
  BY DEF IInv, MainOrder, OthersEndUnbound, ReturnNeedsFailedBinds
<1> QED
  BY <1>1, IInvIsInvariant, PTL

\* With more than two threads, and there are ten, a client whose ports no
\* other program takes never returns from main: the port of the server is that
\* of the second thread, and no other thread can fail to bind its own.
THEOREM ClientNeverReturns ==
  ASSUME NUM_THREADS > 2, ~ PortsMayBeTaken
  PROVE  Spec => [](mpc # "returned")
<1> DEFINE OthersRun == \A t \in Threads : t \notin {0, 1} => pc[t] # "ended"
<1>1. Init => IInv /\ OthersRun
  BY InitIInv DEF Init
<1>2. IInv /\ OthersRun /\ [Next]_vars => IInv' /\ OthersRun'
  <2> SUFFICES ASSUME IInv, OthersRun, [Next]_vars,
                      NEW t \in Threads, t \notin {0, 1}, pc'[t] = "ended"
               PROVE  FALSE
    BY NextIInv
  <2>1. TypeOK /\ FirstIsServed /\ t # 0 /\ pc[t] # "ended"
    BY DEF IInv
  <2>2. ~ BindSocket(t, FALSE)
    <3>1. UdpPort(t) # SERVER_BASE_PORT
      BY DEF Threads, UdpPort, CLIENT_BASE_PORT, SERVER_BASE_PORT
    <3> QED
      BY <3>1 DEF BindSocket, ServerHolds
  <2>3. CASE Next
    BY <2>1, <2>2, <2>3, EndsAtBind
  <2>4. CASE UNCHANGED vars
    BY <2>1, <2>4 DEF vars
  <2> QED
    BY <2>3, <2>4
<1>3. IInv /\ OthersRun => mpc # "returned"
  <2>1. 2 \in Threads /\ 2 \notin {0, 1}
    BY ThreadsAssumption DEF Threads
  <2> QED
    BY <2>1 DEF IInv, MainOrder
<1> QED
  BY <1>1, <1>2, <1>3, PTL DEF Spec

=============================================================================
