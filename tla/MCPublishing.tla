---------------------------- MODULE MCPublishing ----------------------------
(* Values for the constants of Publishing that a cfg cannot write down. *)
EXTENDS Publishing, TLC

Give(from, to, sure) == [now |-> from, to |-> to, priced |-> TRUE, confidence |-> sure]
Unpriced == [now |-> 0, to |-> 100, priced |-> FALSE, confidence |-> 30]

\* The second workload gains most; the first, which has a container without request and
\* price, and the third gain the same, and one of them is cut off.  Or there is only the
\* first, which grows by more than it gains.
FewAdvices ==
  {(<<1, "app">> :> Give(300, 200, 85) @@ <<1, "proxy">> :> Unpriced
      @@ <<2, "app">> :> Give(400, 100, 85) @@ <<3, "app">> :> Give(200, 100, 60)),
   (<<1, "app">> :> Give(100, 400, 85) @@ <<1, "proxy">> :> Give(200, 100, 40))}
=============================================================================
