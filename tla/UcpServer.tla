------------------------------ MODULE UcpServer ------------------------------
(***************************************************************************)
(* ucp_server.c: main opens the transfer and waits for two threads; the    *)
(* receiving thread saves data packets and reports them through a queue;   *)
(* the sequencing thread answers each report with a control packet, keeps  *)
(* the sequencer, and asks for what is missing.                            *)
(*                                                                         *)
(* The file holds two sets of functions named send_ctrl_packet, send_ack,  *)
(* send_nack and send_fin; the ones over TCP (lines 31 to 55), which its   *)
(* calls fit, are modelled.                                                *)
(***************************************************************************)
EXTENDS UcpChannels, Sequencer

CONSTANTS QueueCap,      \* bound: reports in the queue
          SaveMayFail    \* file_io_save_packet may fail

\* A part of p bytes has at most p packets and p is a uint32_t, so that every
\* sequence number is below UINT32_MAX.
ASSUME ServerAssumption ==
  /\ QueueCap \in Nat \ {0} /\ SaveMayFail \in BOOLEAN
  /\ NumPackets <= UINT32_MAX

VARIABLES mpc,         \* main: "meta", "join", "exit"
          rpc,         \* receiving_thread: "none", "receive", "push", "return",
                       \* "done"
          qpc,         \* sequencing_thread: "none", "loop", "answer", "missing",
                       \* "cancel", "done"
          saved,       \* packets whose data is in the file
          failed,      \* history: a save has failed
          report,      \* the report the receiving thread is about to push
          queue,       \* seq_queue: pairs of sequence number and flag
          cur,         \* the report the sequencing thread has popped
          sequencer,   \* its sequencer_t
          missing,     \* numbers it still has to ask for in this turn
          success      \* main printed "File received successfully"

serverVars == <<mpc, rpc, qpc, saved, failed, report, queue, cur, sequencer,
                missing, success>>

\* The pairs the two threads hand over.
report_t == [seq_no : SeqNos, flag : {UCP_FLAG_ACK, UCP_FLAG_NACK}]

NoReport == [seq_no |-> 0, flag |-> 0]

ServerInit ==
  /\ mpc = "meta" /\ rpc = "none" /\ qpc = "none"
  /\ saved = {} /\ failed = FALSE
  /\ report = NoReport
  /\ queue = << >>
  /\ cur = NoReport
  /\ sequencer = sequencer_init
  /\ missing = {}
  /\ success = FALSE

-----------------------------------------------------------------------------
(***************************************************************************)
(* main.                                                                   *)
(***************************************************************************)

\* The metadata opens the file, the server connects back to the client,
\* which listens since before it sent them, and starts the two threads.
ReceiveMetadata ==
  /\ mpc = "meta"
  /\ TakeMeta
  /\ conn' = "open"
  /\ mpc' = "join" /\ rpc' = "receive" /\ qpc' = "loop"
  /\ UNCHANGED <<udp, stream, skew>>
  /\ UNCHANGED <<saved, failed, report, queue, cur, sequencer, missing, success>>

\* Both threads are joined.
Exit ==
  /\ mpc = "join" /\ qpc = "done" /\ rpc = "done"
  /\ conn' = "closed"
  /\ success' = TRUE
  /\ mpc' = "exit"
  /\ UNCHANGED <<metaInFlight, udp, stream, skew>>
  /\ UNCHANGED <<rpc, qpc, saved, failed, report, queue, cur, sequencer, missing>>

-----------------------------------------------------------------------------
(***************************************************************************)
(* receiving_thread.                                                       *)
(***************************************************************************)

\* Variant: a packet that is in the file already is not reported again.
ReceiveOnce(n, ok) ==
  /\ rpc = "receive" /\ Len(queue) < QueueCap
  /\ ok \/ SaveMayFail
  /\ TakeData(n)
  /\ saved' = IF ok THEN saved \cup {n} ELSE saved
  /\ failed' = (failed \/ ~ ok)
  /\ report' = [seq_no |-> n, flag |-> IF ok THEN UCP_FLAG_ACK ELSE UCP_FLAG_NACK]
  /\ rpc' = IF n \in saved THEN "receive" ELSE "push"
  /\ UNCHANGED <<metaInFlight, conn, stream, skew>>
  /\ UNCHANGED <<mpc, qpc, queue, cur, sequencer, missing, success>>

\* Receive a data packet and write it to the file, with or without success.
ReceiveData(n, ok) ==
  /\ rpc = "receive" /\ Len(queue) < QueueCap
  /\ ok \/ SaveMayFail
  /\ TakeData(n)
  /\ saved' = IF ok THEN saved \cup {n} ELSE saved
  /\ failed' = (failed \/ ~ ok)
  /\ report' = [seq_no |-> n, flag |-> IF ok THEN UCP_FLAG_ACK ELSE UCP_FLAG_NACK]
  /\ rpc' = "push"
  /\ UNCHANGED <<metaInFlight, conn, stream, skew>>
  /\ UNCHANGED <<mpc, qpc, queue, cur, sequencer, missing, success>>

\* Variant: the thread goes on after a failed save.
PushAndGoOn ==
  /\ rpc = "push"
  /\ queue' = Append(queue, report)
  /\ report' = NoReport
  /\ rpc' = "receive"
  /\ UNCHANGED channelVars
  /\ UNCHANGED <<mpc, qpc, saved, failed, cur, sequencer, missing, success>>

\* sequencing_queue_push; after a failed save the thread leaves its loop.
Push ==
  /\ rpc = "push"
  /\ queue' = Append(queue, report)
  /\ report' = NoReport
  /\ rpc' = IF report.flag = UCP_FLAG_ACK THEN "receive" ELSE "return"
  /\ UNCHANGED channelVars
  /\ UNCHANGED <<mpc, qpc, saved, failed, cur, sequencer, missing, success>>

\* The error is printed and the thread returns.  The queue is unlocked by then:
\* the sequencing thread may take the report and even finish in between.
Leave ==
  /\ rpc = "return"
  /\ rpc' = "done"
  /\ UNCHANGED channelVars
  /\ UNCHANGED <<mpc, qpc, saved, failed, report, queue, cur, sequencer, missing,
                 success>>

\* A cancellation that was requested takes effect where the thread receives
\* or prints; locking the queue is no cancellation point.
Cancelled ==
  /\ qpc = "done" /\ rpc \in {"receive", "return"}
  /\ rpc' = "done"
  /\ UNCHANGED channelVars
  /\ UNCHANGED <<mpc, qpc, saved, failed, report, queue, cur, sequencer, missing,
                 success>>

\* A packet of another type, the metadata once more, is dropped.
ReceiveUnknown ==
  /\ rpc = "receive"
  /\ TakeMeta
  /\ UNCHANGED <<udp, conn, stream, skew>>
  /\ UNCHANGED serverVars

-----------------------------------------------------------------------------
(***************************************************************************)
(* sequencing_thread.                                                      *)
(***************************************************************************)

\* Not complete yet: take the next report, if there is one.
Pop ==
  /\ qpc = "loop" /\ ~ sequencer_complete(sequencer)
  /\ queue # << >>
  /\ cur' = Head(queue)
  /\ queue' = Tail(queue)
  /\ sequencer' = sequencer_merge(sequencer)
  /\ qpc' = "answer"
  /\ UNCHANGED channelVars
  /\ UNCHANGED <<mpc, rpc, saved, failed, report, missing, success>>

AfterAnswer == qpc' = IF missing' = {} THEN "loop" ELSE "missing"

\* Variant: the flag is compared with the one of first data packets, whose value
\* is that of ACK.
AnswerTakesAckForLast ==
  /\ qpc = "answer"
  /\ tcp_client_send(ucp_packet_init_ctrl(cur.seq_no, cur.flag))
  /\ sequencer' = sequencer_add(sequencer, cur.seq_no, cur.flag = UCP_FLAG_ACK)
  /\ missing' = sequencer_missing(sequencer')
  /\ cur' = NoReport
  /\ AfterAnswer
  /\ UNCHANGED <<metaInFlight, udp, conn, skew>>
  /\ UNCHANGED <<mpc, rpc, saved, failed, report, queue, success>>

\* Send the control packet, add the number to the sequencer and begin to ask
\* for missing numbers.  The number counts as the last one when the flag of
\* the report, ACK or NACK, equals a flag of data packets.
Answer ==
  /\ qpc = "answer"
  /\ tcp_client_send(ucp_packet_init_ctrl(cur.seq_no, cur.flag))
  /\ sequencer' = sequencer_add(sequencer, cur.seq_no, cur.flag = UCP_FLAG_DATA_END)
  /\ missing' = sequencer_missing(sequencer')
  /\ cur' = NoReport
  /\ AfterAnswer
  /\ UNCHANGED <<metaInFlight, udp, conn, skew>>
  /\ UNCHANGED <<mpc, rpc, saved, failed, report, queue, success>>

\* send_nack for the missing numbers, in increasing order.
AskForMissing ==
  /\ qpc = "missing"
  /\ tcp_client_send(ucp_packet_init_ctrl(Min(missing), UCP_FLAG_NACK))
  /\ missing' = missing \ {Min(missing)}
  /\ AfterAnswer
  /\ UNCHANGED <<metaInFlight, udp, conn, skew>>
  /\ UNCHANGED <<mpc, rpc, saved, failed, report, queue, cur, sequencer, success>>

\* Complete: send the FIN.
Finish ==
  /\ qpc = "loop" /\ sequencer_complete(sequencer)
  /\ tcp_client_send(ucp_packet_init_ctrl(sequencer.expectedLastSeqNo, UCP_FLAG_FIN))
  /\ sequencer' = sequencer_merge(sequencer)
  /\ qpc' = "cancel"
  /\ UNCHANGED <<metaInFlight, udp, conn, skew>>
  /\ UNCHANGED <<mpc, rpc, saved, failed, report, queue, cur, missing, success>>

\* pthread_cancel requests the end of the receiving thread, and this one
\* returns.
Cancel ==
  /\ qpc = "cancel"
  /\ qpc' = "done"
  /\ UNCHANGED channelVars
  /\ UNCHANGED <<mpc, rpc, saved, failed, report, queue, cur, sequencer, missing,
                 success>>

ServerNext ==
  \/ ReceiveMetadata \/ Exit
  \/ \E n \in SeqNos, ok \in BOOLEAN : ReceiveData(n, ok)
  \/ Push \/ Leave \/ Cancelled \/ ReceiveUnknown
  \/ Pop \/ Answer \/ AskForMissing \/ Finish \/ Cancel

=============================================================================
