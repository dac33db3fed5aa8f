---------------------------- MODULE MCRevaultPsbt ----------------------------
(***************************************************************************)
(* Small instances of RevaultPsbt.                                           *)
(*                                                                          *)
(* Revocation: a Cancel with and without its fee-bumping input, and the       *)
(* UnvaultEmergency that spends the same Unvault txo, for two stakeholders   *)
(* and a manager.                                                           *)
(* Batch: a Spend of two Unvault txos, one of which could also be spent by a  *)
(* smaller Spend, for a stakeholder and a manager with its cosigner.         *)
(***************************************************************************)
EXTENDS RevaultPsbt

CONSTANTS c1, c2, s1, s2, m1, k1, f1

Req(k, t, i, y) == [key |-> k, tx |-> t, input |-> i, type |-> y]
ALL == "All"
ACP == "AllPlusAnyoneCanPay"

OneCopy == {c1}
TwoCopies == {c1, c2}

RevKeys == {s1, s2, m1, f1}
RevPrevouts == {"unvault", "feebump"}
RevWsh == {"unvault"}
RevBranches ==
  [o \in RevPrevouts |->
     IF o = "unvault"
     THEN {[keys |-> {s1, s2}, csv |-> FALSE], [keys |-> {m1}, csv |-> TRUE]}
     ELSE {[keys |-> {f1}, csv |-> FALSE]}]
RevTxs == {"cancel", "bumped", "unemer"}
RevKind == [t \in RevTxs |-> IF t = "unemer" THEN "UnvaultEmergency" ELSE "Cancel"]
RevVin ==
  [t \in RevTxs |-> IF t = "bumped" THEN <<"unvault", "feebump">> ELSE <<"unvault">>]
RevVout == [t \in RevTxs |-> IF t = "unemer" THEN "emergency" ELSE "deposit"]
RevRequests ==
  {Req(s1, "cancel", 1, ACP), Req(s2, "cancel", 1, ACP), Req(s2, "bumped", 1, ALL),
   Req(s1, "unemer", 1, ACP), Req(s2, "unemer", 1, ACP), Req(m1, "cancel", 1, ACP),
   Req(f1, "bumped", 2, ALL), Req(f1, "bumped", 1, ALL)}

BatchKeys == {s1, m1, k1}
BatchPrevouts == {"unvault1", "unvault2"}
BatchBranches ==
  [o \in BatchPrevouts |->
     {[keys |-> {s1}, csv |-> FALSE], [keys |-> {m1, k1}, csv |-> TRUE]}]
BatchTxs == {"spend12", "spend1"}
BatchKind == [t \in BatchTxs |-> "Spend"]
BatchVin ==
  [t \in BatchTxs |->
     IF t = "spend12" THEN <<"unvault1", "unvault2">> ELSE <<"unvault1">>]
BatchVout == [t \in BatchTxs |-> t]
BatchRequests ==
  {Req(k, "spend12", i, ALL) : k \in {m1, k1}, i \in 1..2}
  \cup {Req(m1, "spend1", 1, ALL), Req(s1, "spend12", 1, ALL)}
=============================================================================
