--------------------------- MODULE SessionMailbox ---------------------------
(***************************************************************************)
(* What the channel queues promise a session that is in use, whatever      *)
(* queues, consumers, sweeps and runs there are: the session has one       *)
(* mailbox, which is emptied in order; a message is delivered once; one    *)
(* batch is gathered or served at a time, and a batch is served whole or   *)
(* not at all.                                                             *)
(***************************************************************************)
EXTENDS Sequences

CONSTANTS Sessions, Messages

VARIABLES
  open,    \* the mailboxes accept messages
  seen,    \* messages delivered so far
  box,     \* box[s]: what waits for session s, in the order of delivery
  batch,   \* batch[s]: the messages gathered for the next run of s
  serving, \* serving[s]: the messages that the run of s answers
  cleared  \* messages that a user cleared

vars == <<open, seen, box, batch, serving, cleared>>

Init ==
  /\ open = TRUE
  /\ seen = {}
  /\ box = [s \in Sessions |-> <<>>]
  /\ batch = [s \in Sessions |-> {}]
  /\ serving = [s \in Sessions |-> {}]
  /\ cleared = {}

(* A new message goes to the end of the mailbox.                           *)
Deliver(s, m) ==
  /\ m \notin seen
  /\ seen' = seen \cup {m}
  /\ box' = [box EXCEPT ![s] = Append(@, m)]
  /\ UNCHANGED <<open, batch, serving, cleared>>

(* The oldest message begins a batch, when the last one is over.           *)
Pick(s) ==
  /\ box[s] # <<>> /\ batch[s] = {} /\ serving[s] = {}
  /\ batch' = [batch EXCEPT ![s] = {Head(box[s])}]
  /\ box' = [box EXCEPT ![s] = Tail(box[s])]
  /\ UNCHANGED <<open, seen, serving, cleared>>

(* What waits joins the batch.                                             *)
Waiting(s) == {box[s][i] : i \in DOMAIN box[s]}

Gather(s) ==
  /\ batch[s] # {}
  /\ batch' = [batch EXCEPT ![s] = @ \cup Waiting(s)]
  /\ box' = [box EXCEPT ![s] = <<>>]
  /\ UNCHANGED <<open, seen, serving, cleared>>

(* The batch is served, or dropped; the run that serves it ends.           *)
Serve(s) ==
  /\ batch[s] # {}
  /\ serving' = [serving EXCEPT ![s] = batch[s]]
  /\ batch' = [batch EXCEPT ![s] = {}]
  /\ UNCHANGED <<open, seen, box, cleared>>

Drop(s) ==
  /\ batch[s] # {}
  /\ batch' = [batch EXCEPT ![s] = {}]
  /\ UNCHANGED <<open, seen, box, serving, cleared>>

Finish(s) ==
  /\ serving[s] # {}
  /\ serving' = [serving EXCEPT ![s] = {}]
  /\ UNCHANGED <<open, seen, box, batch, cleared>>

(* The user clears the mailbox.                                            *)
Clear(s) ==
  /\ box[s] # <<>>
  /\ box' = [box EXCEPT ![s] = <<>>]
  /\ cleared' = cleared \cup Waiting(s)
  /\ UNCHANGED <<open, seen, batch, serving>>

(* The program shuts down, and nothing is promised any more.               *)
Close ==
  /\ open' = FALSE
  /\ seen' = {}
  /\ box' = [s \in Sessions |-> <<>>]
  /\ batch' = [s \in Sessions |-> {}]
  /\ serving' = [s \in Sessions |-> {}]
  /\ cleared' = {}

SessionStep(s) ==
  \/ Pick(s) \/ Gather(s) \/ Serve(s) \/ Drop(s) \/ Finish(s) \/ Clear(s)
  \/ \E m \in Messages : Deliver(s, m)

Next == open /\ (Close \/ \E s \in Sessions : SessionStep(s))

Spec == Init /\ [][Next]_vars
=============================================================================
