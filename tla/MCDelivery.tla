----------------------------- MODULE MCDelivery -----------------------------
(* Delivery with one delivery at a time and two kinds of render request.   *)
EXTENDS Delivery

CONSTANT d1

Senders == {d1}
NoPreviewExport == {FALSE}
Requests == {[type |-> "preview", regenerate |-> FALSE, unapproved |-> FALSE],
             [type |-> "final", regenerate |-> TRUE, unapproved |-> FALSE]}
=============================================================================
