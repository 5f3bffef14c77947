----------------------------- MODULE MCDecoder ------------------------------
(* Replies of up to two names per list over three group names: enough for *)
(* the spec's own example (added g1, changed empty, removed g2 and g3).    *)
(* The event order is the one the callbacks were written for: a boundary  *)
(* at the close of every data element, inner ones included.  Under it     *)
(* every reply with at most one name per list decodes back; under each of *)
(* the other five orders some such reply does not.                        *)
EXTENDS Decoder

MCGroupNames == {"g1", "g2", "g3"}

MCOrders == {[at |-> "close", nested |-> TRUE]}

=============================================================================
