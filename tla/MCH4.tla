-------------------------------- MODULE MCH4 --------------------------------
(* Streams made of sample packets of every type: without and with payload, *)
(* ISO with reserved bits set, too large for the storage, and cut short or *)
(* spoilt by a byte that is no indicator.                                  *)
EXTENDS H4

Samples == { <<1, 3, 12, 0>>,           <<1, 3, 12, 2, 7, 9>>,
             <<2, 0, 0, 1, 0, 4>>,      <<2, 0, 0, 0, 1, 4>>,
             <<3, 0, 0, 1, 2>>,         <<4, 14, 0>>,  <<4, 14, 2, 1, 5>>,
             <<5, 0, 0, 1, 192, 8>>,    <<5, 0, 0, 9, 0, 1>>,
             <<0, 1>>,                  <<1, 3>> }

MCStreams == {a \o b \o a : a \in Samples, b \in Samples}
=============================================================================
