------------------------------ MODULE FlashSale ------------------------------
(***************************************************************************)
(* What a flash sale promises its users: a unit is sold only while one is  *)
(* left, and a user gets at most one.  MSRedis (redis学习) is the program  *)
(* that tries to deliver it with four separate redis commands.             *)
(***************************************************************************)
EXTENDS Naturals

CONSTANTS Users,    \* the users that may ask for a unit
          Stock     \* units on sale

VARIABLES stock,    \* units left
          sold      \* users that were charged a unit

Init == stock = Stock /\ sold = {}

Sell(u) ==
    /\ stock > 0
    /\ u \notin sold
    /\ stock' = stock - 1
    /\ sold' = sold \cup {u}

Next == \E u \in Users : Sell(u)

Spec == Init /\ [][Next]_<<stock, sold>>
=============================================================================
