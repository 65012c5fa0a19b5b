----------------------------- MODULE MCBackOffice -----------------------------
EXTENDS BackOffice, TLC

CONSTANTS x1, x2, z1, z2

World(owed, matches, observed, readable, mismatches) ==
  [owed |-> owed, pendingMatches |-> matches, observed |-> observed, encumbered |-> 0,
   readable |-> readable, mismatches |-> mismatches]

(* Ample reserves, a thin buffer, an unreadable wallet, a projection that    *)
(* does not match under a critical mismatch.                                 *)
MCWorlds == {World(2, TRUE, 4, TRUE, "none"), World(2, TRUE, 2, TRUE, "none"),
             World(2, TRUE, 4, FALSE, "none"), World(0, FALSE, 4, TRUE, "critical")}

MCCollateral == x1 :> 1 @@ x2 :> 2

(* Two signers, an authorization for each nonce from each, and a second one  *)
(* for nonce 0.                                                              *)
MCAuthNonce == <<0, 0, 1, 1, 0>>
MCAuthSigner == <<"s1", "s2", "s1", "s2", "s1">>

(* A target with a failover target, both configured for escalations only.    *)
MCFailover == z1 :> {z2} @@ z2 :> {}
MCSubscribes == [t \in Targets |-> {"re_escalated"}]
=============================================================================
