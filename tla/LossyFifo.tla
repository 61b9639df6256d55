------------------------------ MODULE LossyFifo ------------------------------
(***************************************************************************)
(* What the ingestor's receive path promises to the MQTT subscriptions:    *)
(* a message handed in is either accepted or lost at that moment; accepted *)
(* messages are delivered once each, in the order of acceptance, and the   *)
(* messages of one source never overtake one another.                      *)
(***************************************************************************)
EXTENDS Naturals, Sequences

CONSTANT Source

VARIABLES sent,       \* per source, the number of messages handed in so far
          accepted,   \* the accepted messages, in the order of acceptance
          delivered,  \* the number of accepted messages already delivered
          lost        \* the number of messages refused

vars == <<sent, accepted, delivered, lost>>

Init ==
    /\ sent = [s \in Source |-> 0]
    /\ accepted = << >>
    /\ delivered = 0
    /\ lost = 0

HandIn(s) == sent' = [sent EXCEPT ![s] = @ + 1]

Accept(s) ==
    /\ HandIn(s)
    /\ accepted' = Append(accepted, <<s, sent[s] + 1>>)
    /\ UNCHANGED <<delivered, lost>>

Lose(s) ==
    /\ HandIn(s)
    /\ lost' = lost + 1
    /\ UNCHANGED <<accepted, delivered>>

Deliver ==
    /\ delivered < Len(accepted)
    /\ delivered' = delivered + 1
    /\ UNCHANGED <<sent, accepted, lost>>

Next == Deliver \/ \E s \in Source : Accept(s) \/ Lose(s)

Spec == Init /\ [][Next]_vars
==============================================================================
