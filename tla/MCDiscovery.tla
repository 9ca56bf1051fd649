----------------------------- MODULE MCDiscovery -----------------------------
(* An instance of Discovery for TLC: an exporter whose name is too long for a *)
(* label and is, when cut, the other's in capital letters; its second address *)
(* does not fit into the receive buffer, and the other has none.              *)
EXTENDS Discovery

Adverts ==
  [long |-> [instance |-> "PAD-long", host |-> "PAD-long", addrs |-> <<"a1", "a2">>, txt |-> <<>>],
   deck |-> [instance |-> "pad", host |-> "deck", addrs |-> <<>>, txt |-> <<"t2">>]]

Cut == [n \in {"PAD-long", "pad", "deck"} |-> IF n = "PAD-long" THEN "PAD" ELSE n]
Small ==
  [n \in {"PAD-long", "PAD", "pad", "deck", "a1", "a2"} |-> IF n = "PAD" THEN "pad" ELSE n]

Static == <<[host |-> "deck", port |-> 1]>>

Questions ==
  {{[name |-> <<"instance", "PAD">>, qtype |-> "SRV", unicast |-> FALSE],
    [name |-> <<"host", "deck">>, qtype |-> "TXT", unicast |-> FALSE]}}
=============================================================================
