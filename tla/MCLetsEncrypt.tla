----------------------------- MODULE MCLetsEncrypt -----------------------------
(* The programs of the run: administrators of either kind of server, one    *)
(* certificate with and without an administrator, two certificates.         *)
EXTENDS LetsEncrypt, TLC

CONSTANTS c1, c2, a1, a2, s1, s2, s3

P(isSecure, certificates, admins, n) ==
  [secure |-> isSecure, certificates |-> certificates, admins |-> admins, faults |-> n]

MCPrograms == {
  P(FALSE, {}, {a1, a2}, 0),
  P(TRUE, {}, {a1, a2}, 0),
  P(TRUE, {c1}, {}, 2),
  P(TRUE, {c1, c2}, {}, 1)}

MCCallers == {c1, c2, a1, a2, Main}
MCCertificates == {c1, c2}
MCAdmins == {a1, a2}
MCNetServers == {s1, s2, s3}
================================================================================
