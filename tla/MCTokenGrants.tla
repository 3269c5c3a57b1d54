--------------------------- MODULE MCTokenGrants ---------------------------
(* Small instances of TokenGrants: the rows of one user at one client.    *)
EXTENDS TokenGrants, TLC

CONSTANTS s1, s2, c1, c2, t1, t2, t3, t4, r1, r2, r3

RowSymmetry == Permutations(Requests) \cup Permutations(Sessions)

Load(kinds, expiring, begins, issues) ==
  [kinds |-> kinds, expiring |-> expiring, begins |-> begins, issues |-> issues]

Issued == {"authorize", "code", "refresh"}

Sweeps == {"logout", "passwordChange", "revokeConsent", "revokeClient"}

GrantLoads ==
  { \* replays and revocations of single grants while requests fail
    Load(Issued \cup {"oauthRevoke", "failure"}, {}, 5, 4),
    \* the sweeps of a user against codes and rotations in flight, and all
    \* sweeps beside each other
    Load(Issued \cup {"logout"}, {}, 4, 3),
    Load(Issued \cup {"passwordChange"}, {}, 3, 2),
    Load({"login", "refresh", "passwordChange"}, {}, 4, 2),
    Load({"authorize"} \cup Sweeps, {}, 3, 1),
    \* a reset, which takes its locks in another order, beside the sweeps; and
    \* beside redemptions with a purge (TokenGrantsReset.cfg has the tokens a
    \* redemption leaves after a reset)
    Load({"authorize", "login", "reset", "revokeConsent", "revokeClient"}, {}, 3, 1),
    Load({"authorize", "code", "login", "reset", "revokeClient", "purgeTokens"}, {}, 4, 1),
    \* the sweeps that pass over no expired row, while rows expire
    Load(Issued \cup {"revokeConsent", "revokeClient"}, Codes \cup Tokens, 4, 3),
    Load(Issued \cup {"login", "revokeClient"}, Tokens, 4, 3),
    \* the purges, and a reset beside them
    Load(Issued \cup {"purgeCodes", "purgeTokens"}, Codes \cup Tokens, 4, 3),
    Load(Issued \cup {"reset", "purgeCodes", "purgeTokens"}, Codes \cup Tokens, 3, 3) }

\* A password reset.
ResetLoads == {Load(Issued \cup {"reset"}, {}, 3, 2)}

============================================================================
