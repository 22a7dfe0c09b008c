----------------------------- MODULE UcpTransfer -----------------------------
(***************************************************************************)
(* A client thread and the server, composed over the channels between      *)
(* them: the transfer of one part of a file.                               *)
(***************************************************************************)
EXTENDS UcpClient, UcpServer

vars == <<channelVars, clientVars, serverVars>>

Init == ChannelInit /\ ClientInit /\ ServerInit

ClientStep == ClientNext /\ UNCHANGED serverVars
ServerStep == ServerNext /\ UNCHANGED clientVars

Next == ClientStep \/ ServerStep

Spec == Init /\ [][Next]_vars

-----------------------------------------------------------------------------
(***************************************************************************)
(* Fairness.  Every thread keeps running.  A datagram that is sent again   *)
(* and again arrives again and again, though never the metadata, which is  *)
(* sent once.  select does not time out for ever while bytes are on their  *)
(* way.                                                                    *)
(***************************************************************************)

AsClient(A) == A /\ UNCHANGED serverVars

\* The client sends a packet and the network does not lose it.
Lossy == IF DataMayBeLost THEN SeqNos ELSE {}
Reaches(n) == /\ SendPending \/ SendFromFile \/ Resend
              /\ Last(inFlight') = n /\ n \in udp'
AsServer(A) == A /\ UNCHANGED clientVars

Fairness ==
  /\ WF_vars(ClientStep)
  /\ SF_vars(AsClient(Receive))
  /\ \A n \in Lossy : SF_vars(AsClient(Reaches(n)))
  /\ WF_vars(AsServer(ReceiveMetadata \/ Exit))
  /\ WF_vars(AsServer(Push \/ Leave \/ Cancelled))
  /\ \A n \in SeqNos : SF_vars(AsServer(ReceiveData(n, TRUE)))
  /\ WF_vars(AsServer(Pop \/ Answer \/ AskForMissing \/ Finish \/ Cancel))

LiveSpec == Spec /\ Fairness

-----------------------------------------------------------------------------
(***************************************************************************)
(* Invariants.                                                             *)
(***************************************************************************)

\* Channels, client and server hold what the code can put there.
ChannelTypes ==
  /\ metaInFlight \in BOOLEAN
  /\ udp \subseteq SeqNos
  /\ conn \in {"none", "open", "closed"}
  /\ stream \in Seq(ucp_ctrl_packet_t) /\ Len(stream) <= StreamCap
  /\ skew \in 0 .. CTRL_SIZE - 1

ClientTypes ==
  /\ cpc \in {"meta", "accept", "send", "tick", "closed"}
  /\ nextSeqNo \in 0 .. NumPackets
  /\ inFlight \in Seq(SeqNos) /\ pending \in Seq(SeqNos)
  /\ done \in BOOLEAN /\ child \in BOOLEAN
  /\ rspPkt \in ucp_packet_t

ServerTypes ==
  /\ mpc \in {"meta", "join", "exit"}
  /\ rpc \in {"none", "receive", "push", "return", "done"}
  /\ qpc \in {"none", "loop", "answer", "missing", "cancel", "done"}
  /\ saved \subseteq SeqNos /\ failed \in BOOLEAN
  /\ queue \in Seq(report_t)
  /\ sequencer \in sequencer_t
  /\ missing \subseteq SeqNos
  /\ success \in BOOLEAN

TypeOK == ChannelTypes /\ ClientTypes /\ ServerTypes

Held == ToSet(inFlight) \cup ToSet(pending)

\* A packet that was sent stays in one of the client's windows until its data
\* is in the server's file, however answers are lost, repeated or misread.
AckedIsSaved == (0 .. nextSeqNo - 1) \ Held \subseteq saved

\* The loop of block_thread unlinks what it sends from one window before it
\* appends it to the other, so a packet has one place in the two windows.
WindowsHoldOnce ==
  /\ IsInjective(inFlight \o pending)
  /\ Held \subseteq 0 .. nextSeqNo - 1

\* A client that leaves its loop without a FIN has delivered the whole part.
ExhaustedIsComplete ==
  (cpc = "closed" /\ ~ done) => saved = SeqNos

\* Whatever the server acknowledges or asks for is a packet the client has
\* sent: asking for a number no packet has would go on for ever.
AnswersAreForSent ==
  \A i \in DOMAIN stream : stream[i].seq_no < nextSeqNo

\* The sequencer counts numbers of failed saves as received.  The receiving
\* thread returns after the first failure, so there is at most one of them.
RecordedIsSavedButOne ==
  Cardinality(Covered(sequencer.seq) \ saved) <= 1

\* The sequencing thread sends its FIN only after a save has failed (is_last
\* of a report is not used, so without a failure the server never finishes),
\* and by then the receiving thread has left its loop: pthread_cancel meets no
\* thread that is receiving, saving or pushing a report, only one that may
\* still print its error.
FinSent == qpc \in {"cancel", "done"}
FinishNeedsFailure == FinSent => failed /\ rpc \in {"return", "done"}

-----------------------------------------------------------------------------
(***************************************************************************)
(* Action and liveness properties.                                         *)
(***************************************************************************)

\* A packet the client has dropped does not come back into a window: neither
\* a late NACK nor an answer read twice revives it.
DroppedStaysDropped ==
  [][\A n \in (0 .. nextSeqNo - 1) \ Held : n \notin Held']_vars

\* The client leaves its loop: each packet is acknowledged, or resent until
\* it is, although records behind the first one of a read are thrown away.
ClientCloses == <>(cpc = "closed")

-----------------------------------------------------------------------------
(***************************************************************************)
(* What the repository says of the program and the program does not keep.  *)
(***************************************************************************)

\* "File received successfully" is printed when the file has been received.
SuccessIsComplete == success => saved = SeqNos

\* Every packet reaches the file: "ensuring reliable delivery of file packets".
\* But requests for a number the sequencer has forgotten can be read ahead of
\* its ACK for ever; the client prefers what is requested to what is in
\* flight, and never sends again a packet that was lost.
EverythingSaved == <>(saved = SeqNos)

\* A client that acts on a FIN was sent one.
FinIsFromServer == done => FinSent

-----------------------------------------------------------------------------
(***************************************************************************)
(* The transfer implements the abstract one.                               *)
(***************************************************************************)

Unsent == nextSeqNo .. NumPackets - 1

Reliable == INSTANCE ReliableTransfer
              WITH Packets  <- SeqNos,
                   held     <- Unsent \cup Held,
                   received <- saved,
                   declared <- FinSent,
                   outcome  <- CASE cpc # "closed" -> "running"
                                 [] cpc = "closed" /\ done -> "stopped"
                                 [] OTHER -> "complete"

\* Client and server together release a packet only after it was received,
\* and end the transfer with everything released or with the FIN.
ImplementsReliableTransfer == Reliable!RTSpec

=============================================================================
