------------------------------- MODULE MCErtm -------------------------------
(***************************************************************************)
(* Instances of Ertm for TLC.                                              *)
(***************************************************************************)
EXTENDS Ertm, TLC

CONSTANTS a, b

\* Both sides send, one SDU is segmented, no queue reaches the threshold; and a
\* side that sends enough for the other to become busy.
Traffic == {(a :> <<1, 2>>) @@ (b :> <<1>>), (a :> <<1, 1, 1, 1>>) @@ (b :> <<2>>)}

\* Enough frames for a sequence number to be used a second time.
Lap == {(a :> [i \in 1..65 |-> 1]) @@ (b :> << >>)}
=============================================================================
