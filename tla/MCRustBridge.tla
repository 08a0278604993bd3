---------------------------- MODULE MCRustBridge ----------------------------
(* Instances of RustBridge for TLC: a cast of calls with a class, a size and *)
(* a command key each.                                                       *)
EXTENDS RustBridge, TLC

CONSTANTS u1, u2, a1, a2, a3, b1, b2, b3

MCClass == [c \in Calls |->
  IF c \in {u1, u2} THEN "urgent" ELSE IF c \in {a1, a2, a3} THEN "user" ELSE "background"]

(* b1 and b2 are the same background request; every other call is its own. *)
MCKey == [c \in Calls |-> IF c \in {b1, b2} THEN "same" ELSE c]

MCBytes == [c \in Calls |-> IF c = a2 THEN 3 ELSE IF c \in {u1, u2} THEN 1 ELSE 2]

MCImmediate == {u1, u2} \cap Calls
=============================================================================
