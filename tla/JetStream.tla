------------------------------ MODULE JetStream ------------------------------
(***************************************************************************)
(* The stream of NatsQueue and its named pull consumers: every message is  *)
(* kept, and a consumer is a filter, a position and the messages that were *)
(* delivered and not acknowledged.                                         *)
(*                                                                         *)
(* A consumer is made by the first fetch with its filter and delivers the  *)
(* stream from its beginning.  The server deletes it, with its position,   *)
(* when no fetch was waiting for five minutes (inactive_threshold), and    *)
(* the next fetch makes it again.  A message that is not acknowledged is   *)
(* delivered again after five minutes (ack_wait); both times are left out, *)
(* so that either may happen at any moment at which it could.              *)
(***************************************************************************)
EXTENDS Naturals, Sequences

VARIABLES log,      \* the VLINDER stream
          consumers \* the server's consumers

Unmade == [made |-> FALSE, seen |-> 0, owed |-> {}]

Publish(m) == log' = Append(log, m)

\* Mutant: the filter leaves the submission open.
FilterOfKind(c, m) == m.kind = c.kind

\* A consumer is named after its filter: a kind of message, or any, of one run (submission)
\* or of all, which is written 0.
Filter(c, m) == c.kind \in {"any", m.kind} /\ c.run \in {0, m.run}

\* A fetch on consumer c may return the message at i.
Delivers(c, i) ==
    /\ Filter(c, log[i])
    /\ \/ i \in consumers[c].owed
       \/ /\ i > consumers[c].seen
          /\ \A j \in (consumers[c].seen + 1)..(i - 1) : ~Filter(c, log[j])

Later(i, j) == IF i > j THEN i ELSE j

\* Mutant: the position runs ahead of the message that was delivered.
FetchPast(c, i, acked) ==
    consumers' = [consumers EXCEPT ![c] =
        [made |-> TRUE, seen |-> Later(@.seen, i + 1),
         owed |-> IF acked THEN @.owed \ {i} ELSE @.owed \cup {i}]]

\* fetch_one and the acknowledgement the caller sends right after it, which may fail.
Fetch(c, i, acked) ==
    consumers' = [consumers EXCEPT ![c] =
        [made |-> TRUE, seen |-> Later(@.seen, i),
         owed |-> IF acked THEN @.owed \ {i} ELSE @.owed \cup {i}]]

\* An acknowledgement later than that; the server ignores one it does not wait for.
Acknowledge(c, i) == consumers' = [consumers EXCEPT ![c].owed = @ \ {i}]

\* The server deletes a consumer that nobody waits on.
Expire(c) == /\ consumers[c].made
             /\ consumers' = [consumers EXCEPT ![c] = Unmade]
=============================================================================
