-------------------------- MODULE MCUserInterface --------------------------
(***************************************************************************)
(* Values for TLC: one client that gives commands and asks for the state,  *)
(* and one that makes a mistake.                                           *)
(***************************************************************************)
EXTENDS UserInterface

MCMessages ==
  [c \in Clients |-> IF c = "c1" THEN {"STATE", "STARTOBS", "STOPOBS"}
                                 ELSE {"STARTOBS", "BADTOBS"}]
=============================================================================
