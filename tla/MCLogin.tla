---- MODULE MCLogin ----
(* A small instance of Identity for TLC; Login.cfg chooses the sizes. *)
EXTENDS Identity, TLC

CONSTANTS c1, c2, ip1, ip2

\* Two calls run the same code, and addresses are only keys.
MCSymmetry == Permutations(Clients) \cup Permutations(IPs)

\* No list at all, and one that has the address's domain.
MCSettingDomains == {{}, {"guest"}}

\* A student, and a student who is also a super-administrator.
MCAccounts == [admin : {None, [role |-> "SUPER_ADMIN", status |-> "ACTIVE"]},
               student : {"ACTIVE"}]

====
