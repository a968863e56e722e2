------------------------------ MODULE MCAccess ------------------------------
(***************************************************************************)
(* Access on a small instance: two threads that call the rate limiter, or  *)
(* two sessions with one API key, or one tab with two requests, or two     *)
(* tabs with one each, and two vaults with a user each.                    *)
(***************************************************************************)
EXTENDS Access

CONSTANTS q1, q2, s1, s2, t1, t2, r1, r2, u1, u2

MCVault == {{u1}, {u1, u2}}
MCCrowds == {{q1, q2}, {s1, s2}, {<<t1, r1>>, <<t1, r2>>}, {<<t1, r1>>, <<t2, r1>>}}
=============================================================================
