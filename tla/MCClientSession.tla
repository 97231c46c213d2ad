---------------------------- MODULE MCClientSession ----------------------------
(* ClientSession for TLC: one licence, two pings that may pass each other. *)
EXTENDS ClientSession, TLC

CONSTANTS p1, p2, l1

PingSymmetry == Permutations(Pings)
===============================================================================
