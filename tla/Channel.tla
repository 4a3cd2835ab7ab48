-------------------------------- MODULE Channel --------------------------------
(***************************************************************************)
(* What a connection promises its reader: the messages that were sent, each *)
(* whole and once, in the order in which they were sent, as long as no size *)
(* is torn.  After that nothing is promised of what the reader gets.        *)
(***************************************************************************)
EXTENDS Naturals, Sequences

VARIABLES sent, delivered, torn

vars == <<sent, delivered, torn>>

Init == sent = <<>> /\ delivered = <<>> /\ torn = FALSE

Send ==
  /\ Len(sent') = Len(sent) + 1
  /\ \A n \in 1 .. Len(sent) : sent'[n] = sent[n]
  /\ UNCHANGED <<delivered, torn>>

Deliver ==
  /\ ~torn /\ Len(delivered) < Len(sent)
  /\ delivered' = Append(delivered, sent[Len(delivered) + 1])
  /\ UNCHANGED <<sent, torn>>

Tear == torn' = TRUE /\ UNCHANGED <<sent, delivered>>

DeliverAnything == torn /\ UNCHANGED <<sent, torn>>

Next == Send \/ Deliver \/ Tear \/ DeliverAnything

Spec == Init /\ [][Next]_vars
===============================================================================
