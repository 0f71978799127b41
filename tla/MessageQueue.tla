----------------------------- MODULE MessageQueue -----------------------------
(***************************************************************************)
(* What the trait MessageQueue promises, whichever backend stands behind   *)
(* it: a receive hands out a message that was sent, under the key of its   *)
(* sender, to who asked for it; once acknowledged it is not handed out     *)
(* again, unless the server forgot the consumer.  A message may be handed  *)
(* out any number of times before that, and in any order.                  *)
(***************************************************************************)
EXTENDS Naturals, Sequences

CONSTANTS Receivers, \* who receives; an ask is a kind and the names it fixes
          Ask        \* the ask of each of them

VARIABLES sent,   \* the keys of the messages, in the order of the sends
          given,  \* the message each receiver has, with the key it was told
          settled \* the messages each receiver has acknowledged

vars == <<sent, given, settled>>

Nobody == [message |-> 0, key |-> [kind |-> "none"]]

Init == /\ sent = <<>>
        /\ given = [r \in Receivers |-> Nobody]
        /\ settled = [r \in Receivers |-> {}]

\* The key is of the kind and has the names.
IsAsked(ask, key) ==
    \/ ask.kind = "any"
    \/ ask.kind = key.kind /\ \A f \in DOMAIN ask.names : key.names[f] = ask.names[f]

Send == /\ Len(sent') = Len(sent) + 1
        /\ SubSeq(sent', 1, Len(sent)) = sent
        /\ UNCHANGED settled

Receive(r) == /\ given[r] = Nobody
              /\ \E i \in DOMAIN sent \ settled[r] :
                     /\ IsAsked(Ask[r], sent[i])
                     /\ given' = [given EXCEPT ![r] = [message |-> i, key |-> sent[i]]]
              /\ UNCHANGED <<sent, settled>>

Released(r) == given' \in {given, [given EXCEPT ![r] = Nobody]}

\* The acknowledgement, which may fail or come too late.
Acknowledge(r) == /\ given[r] # Nobody
                  /\ settled' \in {settled, [settled EXCEPT ![r] = @ \cup {given[r].message}]}
                  /\ Released(r)
                  /\ UNCHANGED sent

\* The receiver is done with a message, answered or not, or stopped.
Leave(r) == /\ Released(r)
            /\ \/ Send
               \/ UNCHANGED <<sent, settled>>

Forget(r) == /\ settled' = [settled EXCEPT ![r] = {}]
             /\ UNCHANGED <<sent, given>>

Next == \/ Send /\ UNCHANGED given
        \/ \E r \in Receivers : Receive(r) \/ Acknowledge(r) \/ Leave(r) \/ Forget(r)

Spec == Init /\ [][Next]_vars
===============================================================================
