----------------------------- MODULE MC_Devnet -----------------------------
(***************************************************************************)
(* Devnet for TLC: up to three processes, one after the other, each of     *)
(* which may end at any point of its promises.                             *)
(***************************************************************************)
EXTENDS Devnet

ASSUME DevnetBounds == DevnetAssumption
=============================================================================
