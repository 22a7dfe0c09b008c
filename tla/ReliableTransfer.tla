-------------------------- MODULE ReliableTransfer ---------------------------
(***************************************************************************)
(* What a transfer promises, without windows, channels and threads: the    *)
(* sender holds every packet until the receiver has it, and it is through  *)
(* when it holds none.  It may stop early only after the receiver declared *)
(* the transfer finished.                                                  *)
(***************************************************************************)
EXTENDS Integers

CONSTANT Packets

VARIABLES held,       \* packets the sender still answers for
          received,   \* packets the receiver has
          declared,   \* the receiver declared the transfer finished
          outcome     \* "running", "complete" or "stopped"

rtVars == <<held, received, declared, outcome>>

RTInit ==
  /\ held = Packets
  /\ received = {}
  /\ declared = FALSE
  /\ outcome = "running"

Deliver(p) ==
  /\ received' = received \cup {p}
  /\ UNCHANGED <<held, declared, outcome>>

Release(p) ==
  /\ outcome = "running"
  /\ p \in held \cap received
  /\ held' = held \ {p}
  /\ UNCHANGED <<received, declared, outcome>>

Declare ==
  /\ ~ declared
  /\ declared' = TRUE
  /\ UNCHANGED <<held, received, outcome>>

Complete ==
  /\ outcome = "running" /\ held = {}
  /\ outcome' = "complete"
  /\ UNCHANGED <<held, received, declared>>

Stop ==
  /\ outcome = "running" /\ declared
  /\ outcome' = "stopped"
  /\ UNCHANGED <<held, received, declared>>

RTNext ==
  \/ \E p \in Packets : Deliver(p) \/ Release(p)
  \/ Declare \/ Complete \/ Stop

RTSpec == RTInit /\ [][RTNext]_rtVars

=============================================================================
