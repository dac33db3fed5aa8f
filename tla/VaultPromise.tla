----------------------------- MODULE VaultPromise -----------------------------
(***************************************************************************)
(* What a Revault wallet promises about the coins deposited in it, without a  *)
(* word about transactions: from a deposit they are unvaulted or sent to the  *)
(* Emergency address, unvaulted coins go back to a deposit, or to the         *)
(* Emergency address, or, when they rested for Csv blocks, are spent.         *)
(***************************************************************************)
EXTENDS Integers

CONSTANTS
  Coins,   \* the coins of each funding transaction
  Csv      \* blocks that unvaulted coins rest before they can be spent

VARIABLES
  place,   \* coin -> the kind of output that holds it
  rest     \* coin -> blocks since it came there, counted up to Csv

vars == <<place, rest>>

Init == place = [c \in Coins |-> "Deposit"] /\ rest = [c \in Coins |-> 0]

Move(C, to) ==
  /\ place' = [c \in Coins |-> IF c \in C THEN to ELSE place[c]]
  /\ rest' = [c \in Coins |-> IF c \in C THEN 0 ELSE rest[c]]

Unvault(c) == place[c] = "Deposit" /\ Move({c}, "Unvault")

Revault(c) == place[c] = "Unvault" /\ Move({c}, "Deposit")

Emergency(c) == place[c] \in {"Deposit", "Unvault"} /\ Move({c}, "Emergency")

Spend(C) ==
  /\ \A c \in C : place[c] = "Unvault" /\ rest[c] >= Csv
  /\ Move(C, "External")

Block ==
  /\ rest' = [c \in Coins |-> IF rest[c] < Csv THEN rest[c] + 1 ELSE Csv]
  /\ UNCHANGED place

Next ==
  \/ \E c \in Coins : Unvault(c) \/ Revault(c) \/ Emergency(c)
  \/ \E C \in SUBSET Coins : Spend(C)
  \/ Block

Spec == Init /\ [][Next]_vars
=============================================================================
