------------------------------ MODULE PacketPipe ------------------------------
(***************************************************************************)
(* What one direction of a tunnel promises to the code above it: a pipe    *)
(* that hands on what was written, in order, until it breaks; and a pipe   *)
(* that reports end-of-file has handed on everything.                      *)
(***************************************************************************)
EXTENDS Naturals

CONSTANT Streams

VARIABLES
  written,    \* packets put into the pipe
  closed,     \* the writer is done
  delivered,  \* packets handed on, a prefix of those written
  state       \* "open", "done" (end-of-file) or "broken"

pipeVars == <<written, closed, delivered, state>>

PipeInit ==
  /\ written = [s \in Streams |-> 0]
  /\ closed = [s \in Streams |-> FALSE]
  /\ delivered = [s \in Streams |-> 0]
  /\ state = [s \in Streams |-> "open"]

Write(s) ==
  /\ ~closed[s]
  /\ written' = [written EXCEPT ![s] = @ + 1]
  /\ UNCHANGED <<closed, delivered, state>>

Close(s) ==
  /\ ~closed[s]
  /\ closed' = [closed EXCEPT ![s] = TRUE]
  /\ UNCHANGED <<written, delivered, state>>

Deliver(s) ==
  /\ state[s] = "open"
  /\ delivered[s] < written[s]
  /\ delivered' = [delivered EXCEPT ![s] = @ + 1]
  /\ UNCHANGED <<written, closed, state>>

Finish(s) ==
  /\ state[s] = "open"
  /\ closed[s]
  /\ delivered[s] = written[s]
  /\ state' = [state EXCEPT ![s] = "done"]
  /\ UNCHANGED <<written, closed, delivered>>

Break(s) ==
  /\ state[s] = "open"
  /\ state' = [state EXCEPT ![s] = "broken"]
  /\ UNCHANGED <<written, closed, delivered>>

PipeNext ==
  \E s \in Streams : Write(s) \/ Close(s) \/ Deliver(s) \/ Finish(s) \/ Break(s)

PipeSpec == PipeInit /\ [][PipeNext]_pipeVars
===============================================================================
