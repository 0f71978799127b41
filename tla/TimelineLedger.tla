--------------------------- MODULE TimelineLedger ---------------------------
(***************************************************************************)
(* What time travel relies on, whatever fork and promote do: a ledger of   *)
(* messages that is only ever appended to, in which every entry is named   *)
(* by its content and continues an earlier one, and timelines that are     *)
(* created but neither deleted nor moved, and stay sealed once sealed.     *)
(*                                                                         *)
(* The actions are stated over the old and the new value of a variable, so *)
(* that they say what a step may do without saying which step it is.       *)
(***************************************************************************)
EXTENDS Naturals, Sequences

VARIABLES nodes,     \* the entries, in the order they were written
          timelines  \* [session, fork_point, sealed] of each timeline

\* The content address of an entry: all it is made of but its place and outcome.
Hash(n) == <<n.type, n.body, n.parent, n.session>>

Start == nodes = <<>> /\ timelines = <<>>

\* Everything recorded so far is still there, and unchanged.
Kept(old, new) == /\ Len(old) <= Len(new)
                  /\ \A i \in DOMAIN old : new[i] = old[i]

\* One entry is added: its content is new and its parent, if any, is older.
AppendNode ==
    /\ Len(nodes') = Len(nodes) + 1
    /\ Kept(nodes, nodes')
    /\ \A i \in DOMAIN nodes : Hash(nodes[i]) # Hash(nodes'[Len(nodes) + 1])
    /\ nodes'[Len(nodes) + 1].parent \in 0..Len(nodes)
    /\ UNCHANGED timelines

\* One timeline is opened, at the root or at a recorded entry of its session.
OpenTimeline ==
    /\ Len(timelines') = Len(timelines) + 1
    /\ Kept(timelines, timelines')
    /\ LET t == timelines'[Len(timelines) + 1] IN
         /\ ~t.sealed
         /\ t.fork_point # 0 => /\ t.fork_point \in DOMAIN nodes
                                /\ nodes[t.fork_point].session = t.session
    /\ UNCHANGED nodes

SealTimeline(b) ==
    /\ timelines' = [timelines EXCEPT ![b].sealed = TRUE]
    /\ UNCHANGED nodes

Step == AppendNode \/ OpenTimeline \/ \E b \in DOMAIN timelines : SealTimeline(b)

LedgerSpec == Start /\ [][Step]_<<nodes, timelines>>
=============================================================================
