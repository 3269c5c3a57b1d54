------------------------- MODULE TokenGrants_proofs -------------------------
(***************************************************************************)
(* Proofs about the token endpoint for any codes, sessions, tokens and     *)
(* requests: type correctness, one live token per grant, one access token  *)
(* per code, what was ended stays ended, a replay denies every access      *)
(* token of its grant, and no requests wait for each other in a circle.    *)
(*                                                                         *)
(* IInv says of each request what its position in its script tells of its  *)
(* transaction (Kept), that no two requests share an uncommitted row, a    *)
(* new row or a lock (Compatible), and that the tokens of a grant are one  *)
(* family (OneFamily), at most one of them live (OneLiveToken), and that   *)
(* a code that bought an access token is spent (SpentKeys).                *)
(***************************************************************************)
EXTENDS TokenGrants, TLAPS

(* The scripts *)

LEMMA OpNames ==
  Ops = {"mint", "redeem", "redeemBare", "burnCode", "replayCode", "rotate", "burnToken",
         "replayToken", "endFamily", "login", "logout", "passwordChange", "reset",
         "revokeConsent", "revokeClient", "purgeTokens", "purgeCodes"}
BY DEF Ops, Script

\* The statements of each operation, one by one.
LEMMA Scripts ==
  /\ Len(Script["mint"]) = 2 /\ Script["mint"][1] = "shareSession"
  /\ Script["mint"][2] = "commit"
  /\ Len(Script["redeem"]) = 4 /\ Script["redeem"][1] = "spendCode"
  /\ Script["redeem"][2] = "lockClientShared" /\ Script["redeem"][3] = "insert"
  /\ Script["redeem"][4] = "commit"
  /\ Len(Script["redeemBare"]) = 3 /\ Script["redeemBare"][1] = "spendCode"
  /\ Script["redeemBare"][2] = "sign" /\ Script["redeemBare"][3] = "commit"
  /\ Len(Script["burnCode"]) = 2 /\ Script["burnCode"][1] = "spendCode"
  /\ Script["burnCode"][2] = "commit"
  /\ Len(Script["replayCode"]) = 6 /\ Script["replayCode"][1] = "lockUser"
  /\ Script["replayCode"][2] = "findFamily" /\ Script["replayCode"][3] = "seeCodeFamily"
  /\ Script["replayCode"][4] = "revokeSeen" /\ Script["replayCode"][5] = "commit"
  /\ Script["replayCode"][6] = "deny"
  /\ Len(Script["rotate"]) = 6 /\ Script["rotate"][1] = "lockUserShared"
  /\ Script["rotate"][2] = "lockClientShared" /\ Script["rotate"][3] = "spendToken"
  /\ Script["rotate"][4] = "lockClientShared" /\ Script["rotate"][5] = "insert"
  /\ Script["rotate"][6] = "commit"
  /\ Len(Script["burnToken"]) = 2 /\ Script["burnToken"][1] = "revokeById"
  /\ Script["burnToken"][2] = "commit"
  /\ Len(Script["replayToken"]) = 5 /\ Script["replayToken"][1] = "lockUser"
  /\ Script["replayToken"][2] = "seeFamily" /\ Script["replayToken"][3] = "revokeSeen"
  /\ Script["replayToken"][4] = "commit" /\ Script["replayToken"][5] = "deny"
  /\ Len(Script["endFamily"]) = 4 /\ Script["endFamily"][1] = "lockUser"
  /\ Script["endFamily"][2] = "seeFamily" /\ Script["endFamily"][3] = "revokeSeen"
  /\ Script["endFamily"][4] = "commit"
  /\ Len(Script["login"]) = 3 /\ Script["login"][1] = "lockClientShared"
  /\ Script["login"][2] = "insert" /\ Script["login"][3] = "commit"
  /\ Len(Script["logout"]) = 12 /\ Script["logout"][1] = "seeSessions"
  /\ Script["logout"][2] = "endSeen" /\ Script["logout"][3] = "seeEndedCodes"
  /\ Script["logout"][4] = "spendEnded" /\ Script["logout"][5] = "commit"
  /\ Script["logout"][6] = "seeCodes" /\ Script["logout"][7] = "voidSeen"
  /\ Script["logout"][8] = "commit" /\ Script["logout"][9] = "lockUser"
  /\ Script["logout"][10] = "seeUnexpired" /\ Script["logout"][11] = "revokeSeen"
  /\ Script["logout"][12] = "commit"
  /\ Len(Script["passwordChange"]) = 11 /\ Script["passwordChange"][1] = "seeCodes"
  /\ Script["passwordChange"][2] = "voidSeen" /\ Script["passwordChange"][3] = "lockUser"
  /\ Script["passwordChange"][4] = "seeUnexpired" /\ Script["passwordChange"][5] = "revokeSeen"
  /\ Script["passwordChange"][6] = "commit" /\ Script["passwordChange"][7] = "seeSessions"
  /\ Script["passwordChange"][8] = "endSeen" /\ Script["passwordChange"][9] = "seeEndedCodes"
  /\ Script["passwordChange"][10] = "spendEnded" /\ Script["passwordChange"][11] = "commit"
  /\ Len(Script["reset"]) = 11 /\ Script["reset"][1] = "lockUser"
  /\ Script["reset"][2] = "seeUnexpired" /\ Script["reset"][3] = "revokeSeen"
  /\ Script["reset"][4] = "seeCodes" /\ Script["reset"][5] = "voidSeen"
  /\ Script["reset"][6] = "commit" /\ Script["reset"][7] = "seeSessions"
  /\ Script["reset"][8] = "endSeen" /\ Script["reset"][9] = "seeEndedCodes"
  /\ Script["reset"][10] = "spendEnded" /\ Script["reset"][11] = "commit"
  /\ Len(Script["revokeConsent"]) = 6 /\ Script["revokeConsent"][1] = "seeCodes"
  /\ Script["revokeConsent"][2] = "voidSeen" /\ Script["revokeConsent"][3] = "lockUser"
  /\ Script["revokeConsent"][4] = "seeUnrevoked" /\ Script["revokeConsent"][5] = "revokeSeen"
  /\ Script["revokeConsent"][6] = "commit"
  /\ Len(Script["revokeClient"]) = 4 /\ Script["revokeClient"][1] = "lockClient"
  /\ Script["revokeClient"][2] = "seeUnrevoked" /\ Script["revokeClient"][3] = "revokeSeen"
  /\ Script["revokeClient"][4] = "commit"
  /\ Len(Script["purgeTokens"]) = 3 /\ Script["purgeTokens"][1] = "seeDeadFamilies"
  /\ Script["purgeTokens"][2] = "deleteSeen" /\ Script["purgeTokens"][3] = "commit"
  /\ Len(Script["purgeCodes"]) = 3 /\ Script["purgeCodes"][1] = "seeExpiredCodes"
  /\ Script["purgeCodes"][2] = "deleteSeen" /\ Script["purgeCodes"][3] = "commit"
<1>1. /\ Len(Script["mint"]) = 2 /\ Script["mint"][1] = "shareSession"
      /\ Script["mint"][2] = "commit"
  BY DEF Script, recordClient
<1>2. /\ Len(Script["redeem"]) = 4 /\ Script["redeem"][1] = "spendCode"
      /\ Script["redeem"][2] = "lockClientShared" /\ Script["redeem"][3] = "insert"
      /\ Script["redeem"][4] = "commit"
  BY DEF Script, markUsed, create
<1>3. /\ Len(Script["redeemBare"]) = 3 /\ Script["redeemBare"][1] = "spendCode"
      /\ Script["redeemBare"][2] = "sign" /\ Script["redeemBare"][3] = "commit"
  BY DEF Script, markUsed
<1>4. /\ Len(Script["burnCode"]) = 2 /\ Script["burnCode"][1] = "spendCode"
      /\ Script["burnCode"][2] = "commit"
  BY DEF Script, markUsed
<1>5. /\ Len(Script["replayCode"]) = 6 /\ Script["replayCode"][1] = "lockUser"
      /\ Script["replayCode"][2] = "findFamily" /\ Script["replayCode"][3] = "seeCodeFamily"
      /\ Script["replayCode"][4] = "revokeSeen" /\ Script["replayCode"][5] = "commit"
      /\ Script["replayCode"][6] = "deny"
  BY DEF Script, revokeFamilyByAuthorizationCode
<1>6. /\ Len(Script["rotate"]) = 6 /\ Script["rotate"][1] = "lockUserShared"
      /\ Script["rotate"][2] = "lockClientShared" /\ Script["rotate"][3] = "spendToken"
      /\ Script["rotate"][4] = "lockClientShared" /\ Script["rotate"][5] = "insert"
      /\ Script["rotate"][6] = "commit"
  BY DEF Script, revokeIfActive, create
<1>7. /\ Len(Script["burnToken"]) = 2 /\ Script["burnToken"][1] = "revokeById"
      /\ Script["burnToken"][2] = "commit"
  BY DEF Script, revoke
<1>8. /\ Len(Script["replayToken"]) = 5 /\ Script["replayToken"][1] = "lockUser"
      /\ Script["replayToken"][2] = "seeFamily" /\ Script["replayToken"][3] = "revokeSeen"
      /\ Script["replayToken"][4] = "commit" /\ Script["replayToken"][5] = "deny"
  BY DEF Script, revokeFamily
<1>9. /\ Len(Script["endFamily"]) = 4 /\ Script["endFamily"][1] = "lockUser"
      /\ Script["endFamily"][2] = "seeFamily" /\ Script["endFamily"][3] = "revokeSeen"
      /\ Script["endFamily"][4] = "commit"
  BY DEF Script, revokeFamily
<1>10. /\ Len(Script["login"]) = 3 /\ Script["login"][1] = "lockClientShared"
       /\ Script["login"][2] = "insert" /\ Script["login"][3] = "commit"
  BY DEF Script, create
<1>11. /\ Len(Script["logout"]) = 12 /\ Script["logout"][1] = "seeSessions"
       /\ Script["logout"][2] = "endSeen" /\ Script["logout"][3] = "seeEndedCodes"
       /\ Script["logout"][4] = "spendEnded" /\ Script["logout"][5] = "commit"
       /\ Script["logout"][6] = "seeCodes" /\ Script["logout"][7] = "voidSeen"
       /\ Script["logout"][8] = "commit" /\ Script["logout"][9] = "lockUser"
       /\ Script["logout"][10] = "seeUnexpired" /\ Script["logout"][11] = "revokeSeen"
       /\ Script["logout"][12] = "commit"
  BY DEF Script, logout, revokeForUser, finishEnded, invalidateForUser, revokeAllForUser
<1>12. /\ Len(Script["passwordChange"]) = 11 /\ Script["passwordChange"][1] = "seeCodes"
       /\ Script["passwordChange"][2] = "voidSeen" /\ Script["passwordChange"][3] = "lockUser"
       /\ Script["passwordChange"][4] = "seeUnexpired"
       /\ Script["passwordChange"][5] = "revokeSeen" /\ Script["passwordChange"][6] = "commit"
       /\ Script["passwordChange"][7] = "seeSessions" /\ Script["passwordChange"][8] = "endSeen"
       /\ Script["passwordChange"][9] = "seeEndedCodes"
       /\ Script["passwordChange"][10] = "spendEnded" /\ Script["passwordChange"][11] = "commit"
  BY DEF Script, revokeForUser, finishEnded, invalidateForUser, revokeAllForUser
<1>13. /\ Len(Script["reset"]) = 11 /\ Script["reset"][1] = "lockUser"
       /\ Script["reset"][2] = "seeUnexpired" /\ Script["reset"][3] = "revokeSeen"
       /\ Script["reset"][4] = "seeCodes" /\ Script["reset"][5] = "voidSeen"
       /\ Script["reset"][6] = "commit" /\ Script["reset"][7] = "seeSessions"
       /\ Script["reset"][8] = "endSeen" /\ Script["reset"][9] = "seeEndedCodes"
       /\ Script["reset"][10] = "spendEnded" /\ Script["reset"][11] = "commit"
  BY DEF Script, revokeForUser, finishEnded, invalidateForUser, revokeAllForUser
<1>14. /\ Len(Script["revokeConsent"]) = 6 /\ Script["revokeConsent"][1] = "seeCodes"
       /\ Script["revokeConsent"][2] = "voidSeen" /\ Script["revokeConsent"][3] = "lockUser"
       /\ Script["revokeConsent"][4] = "seeUnrevoked"
       /\ Script["revokeConsent"][5] = "revokeSeen" /\ Script["revokeConsent"][6] = "commit"
  BY DEF Script, invalidateForUser, revokeAllForUserAndClient
<1>15. /\ Len(Script["revokeClient"]) = 4 /\ Script["revokeClient"][1] = "lockClient"
       /\ Script["revokeClient"][2] = "seeUnrevoked" /\ Script["revokeClient"][3] = "revokeSeen"
       /\ Script["revokeClient"][4] = "commit"
  BY DEF Script, revokeAllForClient
<1>16. /\ Len(Script["purgeTokens"]) = 3 /\ Script["purgeTokens"][1] = "seeDeadFamilies"
       /\ Script["purgeTokens"][2] = "deleteSeen" /\ Script["purgeTokens"][3] = "commit"
  BY DEF Script
<1>17. /\ Len(Script["purgeCodes"]) = 3 /\ Script["purgeCodes"][1] = "seeExpiredCodes"
       /\ Script["purgeCodes"][2] = "deleteSeen" /\ Script["purgeCodes"][3] = "commit"
  BY DEF Script
<1> QED BY <1>1, <1>2, <1>3, <1>4, <1>5, <1>6, <1>7, <1>8, <1>9, <1>10, <1>11, <1>12, <1>13, <1>14, <1>15, <1>16, <1>17

LEMMA Lengths == ASSUME NEW op \in Ops PROVE Len(Script[op]) \in Nat /\ 2 <= Len(Script[op])
BY Scripts, OpNames, SMTT(40)

\* Where each statement stands.
Place(op, i) ==
    /\ Script[op][i] = "shareSession" => i = 1 /\ op = "mint"
    /\ Script[op][i] = "commit" =>
           \/ i = 2 /\ op \in {"mint", "burnCode", "burnToken"}
           \/ i = 3 /\ op \in {"redeemBare", "login", "purgeTokens", "purgeCodes"}
           \/ i = 4 /\ op \in {"redeem", "replayToken", "endFamily", "revokeClient"}
           \/ i = 5 /\ op \in {"replayCode", "logout"}
           \/ i = 6 /\ op \in {"rotate", "passwordChange", "reset", "revokeConsent"}
           \/ i = 8 /\ op = "logout"
           \/ i = 11 /\ op \in {"passwordChange", "reset"}
           \/ i = 12 /\ op = "logout"
    /\ Script[op][i] = "spendCode" => i = 1 /\ op \in {"redeem", "redeemBare", "burnCode"}
    /\ Script[op][i] = "lockClientShared" =>
           \/ i = 1 /\ op = "login"
           \/ i = 2 /\ op \in {"redeem", "rotate"}
           \/ i = 4 /\ op = "rotate"
    /\ Script[op][i] = "insert" =>
           \/ i = 2 /\ op = "login"
           \/ i = 3 /\ op = "redeem"
           \/ i = 5 /\ op = "rotate"
    /\ Script[op][i] = "sign" => i = 2 /\ op = "redeemBare"
    /\ Script[op][i] = "lockUser" =>
           \/ i = 1 /\ op \in {"replayCode", "replayToken", "endFamily", "reset"}
           \/ i = 3 /\ op \in {"passwordChange", "revokeConsent"}
           \/ i = 9 /\ op = "logout"
    /\ Script[op][i] = "findFamily" => i = 2 /\ op = "replayCode"
    /\ Script[op][i] = "seeCodeFamily" => i = 3 /\ op = "replayCode"
    /\ Script[op][i] = "revokeSeen" =>
           \/ i = 3 /\ op \in {"replayToken", "endFamily", "reset", "revokeClient"}
           \/ i = 4 /\ op = "replayCode"
           \/ i = 5 /\ op \in {"passwordChange", "revokeConsent"}
           \/ i = 11 /\ op = "logout"
    /\ Script[op][i] = "deny" =>
           \/ i = 5 /\ op = "replayToken"
           \/ i = 6 /\ op = "replayCode"
    /\ Script[op][i] = "lockUserShared" => i = 1 /\ op = "rotate"
    /\ Script[op][i] = "spendToken" => i = 3 /\ op = "rotate"
    /\ Script[op][i] = "revokeById" => i = 1 /\ op = "burnToken"
    /\ Script[op][i] = "seeFamily" => i = 2 /\ op \in {"replayToken", "endFamily"}
    /\ Script[op][i] = "seeSessions" =>
           \/ i = 1 /\ op = "logout"
           \/ i = 7 /\ op \in {"passwordChange", "reset"}
    /\ Script[op][i] = "endSeen" =>
           \/ i = 2 /\ op = "logout"
           \/ i = 8 /\ op \in {"passwordChange", "reset"}
    /\ Script[op][i] = "seeEndedCodes" =>
           \/ i = 3 /\ op = "logout"
           \/ i = 9 /\ op \in {"passwordChange", "reset"}
    /\ Script[op][i] = "spendEnded" =>
           \/ i = 4 /\ op = "logout"
           \/ i = 10 /\ op \in {"passwordChange", "reset"}
    /\ Script[op][i] = "seeCodes" =>
           \/ i = 1 /\ op \in {"passwordChange", "revokeConsent"}
           \/ i = 4 /\ op = "reset"
           \/ i = 6 /\ op = "logout"
    /\ Script[op][i] = "voidSeen" =>
           \/ i = 2 /\ op \in {"passwordChange", "revokeConsent"}
           \/ i = 5 /\ op = "reset"
           \/ i = 7 /\ op = "logout"
    /\ Script[op][i] = "seeUnexpired" =>
           \/ i = 2 /\ op = "reset"
           \/ i = 4 /\ op = "passwordChange"
           \/ i = 10 /\ op = "logout"
    /\ Script[op][i] = "seeUnrevoked" =>
           \/ i = 2 /\ op = "revokeClient"
           \/ i = 4 /\ op = "revokeConsent"
    /\ Script[op][i] = "lockClient" => i = 1 /\ op = "revokeClient"
    /\ Script[op][i] = "seeDeadFamilies" => i = 1 /\ op = "purgeTokens"
    /\ Script[op][i] = "deleteSeen" => i = 2 /\ op \in {"purgeTokens", "purgeCodes"}
    /\ Script[op][i] = "seeExpiredCodes" => i = 1 /\ op = "purgeCodes"
    /\ Script[op][i] \notin {"commit", "deny"} => i < Len(Script[op])

LEMMA Places ==
  ASSUME NEW op \in Ops, NEW i \in 1..Len(Script[op])
  PROVE  Place(op, i)
<1>1. CASE op = "mint"
  <2>1. i \in 1..2
    BY <1>1, Scripts
  <2> QED BY <1>1, <2>1, Scripts DEF Place
<1>2. CASE op = "redeem"
  <2>1. i \in 1..4
    BY <1>2, Scripts
  <2> QED BY <1>2, <2>1, Scripts DEF Place
<1>3. CASE op = "redeemBare"
  <2>1. i \in 1..3
    BY <1>3, Scripts
  <2> QED BY <1>3, <2>1, Scripts DEF Place
<1>4. CASE op = "burnCode"
  <2>1. i \in 1..2
    BY <1>4, Scripts
  <2> QED BY <1>4, <2>1, Scripts DEF Place
<1>5. CASE op = "replayCode"
  <2>1. i \in 1..6
    BY <1>5, Scripts
  <2> QED BY <1>5, <2>1, Scripts DEF Place
<1>6. CASE op = "rotate"
  <2>1. i \in 1..6
    BY <1>6, Scripts
  <2> QED BY <1>6, <2>1, Scripts DEF Place
<1>7. CASE op = "burnToken"
  <2>1. i \in 1..2
    BY <1>7, Scripts
  <2> QED BY <1>7, <2>1, Scripts DEF Place
<1>8. CASE op = "replayToken"
  <2>1. i \in 1..5
    BY <1>8, Scripts
  <2> QED BY <1>8, <2>1, Scripts DEF Place
<1>9. CASE op = "endFamily"
  <2>1. i \in 1..4
    BY <1>9, Scripts
  <2> QED BY <1>9, <2>1, Scripts DEF Place
<1>10. CASE op = "login"
  <2>1. i \in 1..3
    BY <1>10, Scripts
  <2> QED BY <1>10, <2>1, Scripts DEF Place
<1>11. CASE op = "logout"
  <2>1. i \in 1..12
    BY <1>11, Scripts
  <2> QED BY <1>11, <2>1, Scripts DEF Place
<1>12. CASE op = "passwordChange"
  <2>1. i \in 1..11
    BY <1>12, Scripts
  <2> QED BY <1>12, <2>1, Scripts DEF Place
<1>13. CASE op = "reset"
  <2>1. i \in 1..11
    BY <1>13, Scripts
  <2> QED BY <1>13, <2>1, Scripts DEF Place
<1>14. CASE op = "revokeConsent"
  <2>1. i \in 1..6
    BY <1>14, Scripts
  <2> QED BY <1>14, <2>1, Scripts DEF Place
<1>15. CASE op = "revokeClient"
  <2>1. i \in 1..4
    BY <1>15, Scripts
  <2> QED BY <1>15, <2>1, Scripts DEF Place
<1>16. CASE op = "purgeTokens"
  <2>1. i \in 1..3
    BY <1>16, Scripts
  <2> QED BY <1>16, <2>1, Scripts DEF Place
<1>17. CASE op = "purgeCodes"
  <2>1. i \in 1..3
    BY <1>17, Scripts
  <2> QED BY <1>17, <2>1, Scripts DEF Place
<1> QED BY OpNames, <1>1, <1>2, <1>3, <1>4, <1>5, <1>6, <1>7, <1>8, <1>9, <1>10, <1>11, <1>12, <1>13, <1>14, <1>15, <1>16, <1>17
-------------------------------------------------------------------------
(* The invariant *)

\* The rows a transaction has written and not committed.
Rows(r) == r.spent \cup r.revoked \cup r.dropped

\* They are as they were when they were written: nobody else changes them.
RowsKept(r) ==
  /\ \A c \in r.spent : code[c].st = "fresh"
  /\ \A t \in r.revoked : Present(t)
  /\ \A x \in r.dropped : IF x \in Tokens THEN Present(x) ELSE Stored(x)

\* What a request is about was read, and is still in its table, deleted or not.
OnKept(r) ==
  /\ r.op = "mint" => r.on \in Sessions
  /\ r.op \in {"redeem", "redeemBare", "burnCode", "replayCode"} => r.on \in Codes /\ code[r.on].st # "none"
  /\ r.op \in {"rotate", "burnToken", "replayToken", "endFamily"} =>
       r.on \in Tokens /\ tok[r.on].st # "none" /\ r.family = tok[r.on].family
  /\ r.op \in {"replayCode", "replayToken"} => r.scope \subseteq Origins

\* A redemption past its first statement has spent its code.
RedeemKept(r) ==
  r.op \in {"redeem", "redeemBare"} =>
    /\ r.revoked = {} /\ r.dropped = {}
    /\ IF r.step = 1 THEN r.spent = {} ELSE r.spent = {r.on}

\* A rotation past its third has spent its token.
RotateKept(r) ==
  r.op = "rotate" =>
    /\ r.spent = {} /\ r.dropped = {}
    /\ IF r.step <= 3 THEN r.revoked = {} ELSE r.revoked = {r.on} /\ tok[r.on].st = "live"

Issuing == {"redeem", "redeemBare", "rotate", "login"}

Last(r) == r.step = Len(Script[r.op])

\* The grant and the records of the token that r issues under the id t.
OriginFor(r, t) ==
  IF r.op \in {"redeem", "redeemBare"} THEN r.on
  ELSE IF r.op = "rotate" THEN tok[r.on].origin ELSE t

KeysFor(r, t) ==
  IF r.op = "redeem" THEN {r.on, t} ELSE IF r.op = "redeemBare" THEN {r.on}
  ELSE IF r.op = "rotate" THEN {r.family} ELSE {}

\* A new row is pending in one transaction, which is about to commit it.
NewKept(r) ==
  /\ r.new \in Codes => r.op = "mint" /\ code[r.new].st = "none"
  /\ r.op = "mint" => r.new \in Codes
  /\ r.op \in {"mint", "login"} => Rows(r) = {}
  /\ r.new \in Tokens =>
       /\ r.op \in Issuing /\ Last(r)
       /\ access[r.new].st = "signed" /\ access[r.new].origin = OriginFor(r, r.new)
       /\ access[r.new].keys = KeysFor(r, r.new)

\* What a snapshot saw is of the table its statement writes.
SeenKept(r) ==
  r.op # "idle" =>
    /\ Script[r.op][r.step] = "endSeen" => r.seen \subseteq Sessions
    /\ Script[r.op][r.step] \in {"spendEnded", "voidSeen"} => r.seen \subseteq Codes
    /\ Script[r.op][r.step] = "revokeSeen" => r.seen \subseteq Tokens
    /\ Script[r.op][r.step] = "deleteSeen" => r.seen \subseteq Codes \/ r.seen \subseteq Tokens

IdleKept(r) == r.op = "idle" => Rows(r) = {} /\ r.new = None /\ r.held = {}

Kept(r) ==
  /\ IdleKept(r) /\ OnKept(r) /\ SeenKept(r) /\ RowsKept(r)
  /\ RedeemKept(r) /\ RotateKept(r) /\ NewKept(r)

\* Two requests share no row, no new row and no lock that is not shared.
Compatible(r, s) ==
  /\ Rows(r) \cap Rows(s) = {}
  /\ r.new = s.new => r.new = None
  /\ \A l \in r.held, m \in s.held : ~Conflict(l, m)

\* A token row was issued, has a family and a grant, and its grant is spent.
RowKept(t) ==
  tok[t].st # "none" =>
    /\ access[t].st = "issued"
    /\ tok[t].origin \in Origins /\ tok[t].family \in Tokens
    /\ tok[tok[t].family].st # "none"
    /\ \A c \in Codes : c = tok[t].origin => code[c].st \in {"used", "gone"}
    /\ \A u \in Tokens : u = tok[t].origin => tok[u].st # "none"

\* The tokens of a family are those of a grant.
OneFamily ==
  \A t, u \in Tokens :
    tok[t].st # "none" /\ tok[u].st # "none" =>
      (tok[t].family = tok[u].family <=> tok[t].origin = tok[u].origin)

\* A code an access token was issued for is spent.
SpentKeys ==
  \A t \in Tokens : access[t].st = "issued" =>
    \A c \in access[t].keys \cap Codes : code[c].st \in {"used", "gone"}

Tables == (\A t \in Tokens : RowKept(t)) /\ OneFamily /\ SpentKeys /\ OneLiveToken /\ RedeemedOnce

IInv ==
  /\ TypeOK /\ Tables
  /\ \A p \in Requests : Kept(req[p])
  /\ \A p, q \in Requests : p # q => Compatible(req[p], req[q])
-------------------------------------------------------------------------
(* Requests *)

LEMMA Distinct ==
  /\ None \notin Sessions /\ None \notin Codes /\ None \notin Tokens
  /\ Codes \cap Tokens = {} /\ Sessions \cap Origins = {}
BY GrantsAssumption DEF Origins

LEMMA IdleTyped ==
  /\ Idle \in RequestType /\ Idle.op = "idle" /\ Idle.new = None /\ Idle.held = {} /\ Rows(Idle) = {}
  /\ Idle.spent = {} /\ Idle.revoked = {} /\ Idle.dropped = {} /\ Idle.scope = {} /\ Idle.seen = {}
  /\ "idle" \notin Ops
BY OpNames DEF Idle, RequestType, Rows

\* The request of p and where it stands.
LEMMA AtPlace ==
  ASSUME TypeOK, NEW p \in Requests
  PROVE  /\ req[p] \in RequestType
         /\ Busy(p) => /\ req[p].op \in Ops /\ req[p].step \in 1..Len(Script[req[p].op])
                       /\ Place(req[p].op, req[p].step)
<1>1. req[p] \in RequestType
  BY DEF TypeOK
<1>2. Busy(p) => req[p].op \in Ops /\ req[p].step \in 1..Len(Script[req[p].op])
  BY <1>1 DEF TypeOK, Busy, RequestType
<1> QED BY <1>1, <1>2, Places

\* The next statement of a request that is not at its last.
LEMMA AfterNext ==
  ASSUME NEW r \in RequestType, r.op \in Ops, r.step < Len(Script[r.op])
  PROVE  /\ After(r) = [r EXCEPT !.step = @ + 1]
         /\ After(r) \in RequestType /\ After(r).step = r.step + 1
         /\ After(r).op = r.op /\ After(r).on = r.on /\ After(r).family = r.family
         /\ After(r).seen = r.seen /\ After(r).spent = r.spent /\ After(r).revoked = r.revoked
         /\ After(r).dropped = r.dropped /\ After(r).new = r.new /\ After(r).held = r.held
         /\ After(r).scope = r.scope
<1>1. After(r) = [r EXCEPT !.step = @ + 1]
  BY DEF After
<1>2. r.step + 1 \in Nat
  BY DEF RequestType
<1> QED BY <1>1, <1>2 DEF RequestType

LEMMA AfterLast ==
  ASSUME NEW r, ~(r.step < Len(Script[r.op]))
  PROVE  After(r) = Idle
BY DEF After

\* The step of p changes its request alone.
LEMMA RequestStep ==
  ASSUME IInv, NEW p \in Requests, NEW r \in RequestType, req' = [req EXCEPT ![p] = r],
         UNCHANGED <<load, session, code, tok, access>>,
         begun' \in 0..load.begins,
         ended' \subseteq Sessions \cup Origins, replayed' \subseteq Origins,
         r.op # "idle" => r.step \in 1..Len(Script[r.op]),
         Kept(r), \A q \in Requests \ {p} : Compatible(r, req[q])
  PROVE  IInv'
<1>1. /\ req' \in [Requests -> RequestType] /\ req'[p] = r
      /\ \A q \in Requests \ {p} : req'[q] = req[q]
  BY DEF IInv, TypeOK
<1>2. TypeOK'
  BY <1>1 DEF IInv, TypeOK, Busy
<1>3. Tables'
  BY DEF IInv, Tables, RowKept, OneFamily, SpentKeys, OneLiveToken, RedeemedOnce
<1>4. \A s : Kept(s) => Kept(s)'
  BY DEF Kept, IdleKept, OnKept, SeenKept, RowsKept, RedeemKept, RotateKept, NewKept, Present, Stored,
         OriginFor, KeysFor
<1>5. \A q \in Requests : Kept(req'[q])
  BY <1>1 DEF IInv
<1>6. ASSUME NEW q \in Requests PROVE Kept(req[q])'
  <2>1. PICK s : s = req'[q]
    OBVIOUS
  <2>2. Kept(s)'
    BY <1>4, <1>5, <2>1
  <2>3. IdleKept(req[q])' /\ RowsKept(req[q])' /\ SeenKept(req[q])'
    BY <2>1, <2>2 DEF Kept, IdleKept, SeenKept, RowsKept, Rows, Present, Stored
  <2>4. OnKept(req[q])' /\ RedeemKept(req[q])' /\ RotateKept(req[q])'
    BY <2>1, <2>2 DEF Kept, OnKept, RedeemKept, RotateKept
  <2>5. NewKept(req[q])'
    BY <2>1, <2>2 DEF Kept, NewKept, Rows, OriginFor, KeysFor, Last
  <2> QED BY <2>3, <2>4, <2>5 DEF Kept
<1>7. \A q, s \in Requests : q # s => Compatible(req'[q], req'[s])
  <2>1. \A s \in Requests \ {p} : Compatible(req[s], r)
    BY DEF Compatible, Conflict
  <2> QED BY <1>1, <2>1 DEF IInv
<1> QED BY <1>2, <1>3, <1>6, <1>7 DEF IInv, Compatible

\* A request that is over, or begins anew, holds nothing.
LEMMA FreshStep ==
  ASSUME IInv, NEW p \in Requests, NEW r \in RequestType, req' = [req EXCEPT ![p] = r],
         UNCHANGED <<load, session, code, tok, access>>,
         begun' \in 0..load.begins, ended' = ended, replayed' = replayed,
         r.step = 1, r.op \in Ops \cup {"idle"},
         Rows(r) = {}, r.held = {}, r.new = None, r.op # "mint",
         OnKept(r), RedeemKept(r), RotateKept(r)
  PROVE  IInv'
<1>1. r.op # "idle" => r.step \in 1..Len(Script[r.op])
  BY Lengths
<1>2. Kept(r)
  <2>1. SeenKept(r)
    <3>1. r.op # "idle" => Place(r.op, 1)
      BY <1>1, Places
    <3> QED BY <3>1 DEF Place, SeenKept
  <2> QED BY <2>1, Distinct DEF Kept, IdleKept, RowsKept, NewKept, Rows
<1>3. \A q \in Requests \ {p} : Compatible(r, req[q])
  BY DEF Compatible
<1> QED BY <1>1, <1>2, <1>3, RequestStep DEF IInv, TypeOK

LEMMA IdleStep ==
  ASSUME IInv, NEW p \in Requests, Sets(p, Idle), load' = load
  PROVE  IInv'
<1>1. OnKept(Idle) /\ RedeemKept(Idle) /\ RotateKept(Idle) /\ Idle.step = 1
  BY IdleTyped DEF OnKept, RedeemKept, RotateKept, Idle
<1> QED BY <1>1, IdleTyped, FreshStep DEF Sets, IInv, TypeOK

\* A request as it begins: what its handler read.
LEMMA RunningTyped ==
  ASSUME TypeOK, NEW op \in Ops, NEW on \in Sessions \cup Origins \cup {None},
         op \in {"replayToken", "endFamily"} => on \in Tokens,
         \A t \in Tokens : tok[t].st # "none" => tok[t].origin \in Origins,
         op \in {"replayToken", "endFamily"} => tok[on].st # "none",
         op = "replayCode" => on \in Codes
  PROVE  /\ Running(op, on) \in RequestType
         /\ Running(op, on).op = op /\ Running(op, on).step = 1 /\ Running(op, on).on = on
         /\ Running(op, on).family = (IF on \in Tokens THEN tok[on].family ELSE None)
         /\ Running(op, on).spent = {} /\ Running(op, on).revoked = {} /\ Running(op, on).dropped = {}
         /\ Running(op, on).new = None /\ Running(op, on).held = {} /\ Running(op, on).seen = {}
         /\ Running(op, on).scope = Scope(op, on) /\ Rows(Running(op, on)) = {}
<1>1. Scope(op, on) \in SUBSET (Sessions \cup Origins)
  <2>1. \A t \in Tokens : Present(t) => tok[t].origin \in Origins
    BY DEF Present
  <2>2. Codes \subseteq Origins /\ session \subseteq Sessions
    BY DEF Origins, TypeOK
  <2> QED BY <2>1, <2>2 DEF Scope
<1>2. (IF on \in Tokens THEN tok[on].family ELSE None) \in Tokens \cup {None}
  BY DEF TypeOK, TokenType
<1> DEFINE f == IF on \in Tokens THEN tok[on].family ELSE None
           sc == Scope(op, on)
<1>3. Running(op, on) = [Idle EXCEPT !.op = op, !.on = on, !.scope = sc, !.family = f]
  BY DEF Running
<1> HIDE DEF f, sc
<1>4. f \in Tokens \cup {None} /\ sc \in SUBSET (Sessions \cup Origins)
  BY <1>1, <1>2 DEF f, sc
<1>5. /\ Running(op, on) \in RequestType
      /\ Running(op, on).op = op /\ Running(op, on).step = 1 /\ Running(op, on).on = on
      /\ Running(op, on).family = f
      /\ Running(op, on).spent = {} /\ Running(op, on).revoked = {} /\ Running(op, on).dropped = {}
      /\ Running(op, on).new = None /\ Running(op, on).held = {} /\ Running(op, on).seen = {}
      /\ Running(op, on).scope = sc
  <2> DEFINE a == [Idle EXCEPT !.op = op, !.on = on, !.scope = sc, !.family = f]
  <2>1. a.op = op /\ a.step = 1 /\ a.on = on /\ a.family = f /\ a.spent = {} /\ a.revoked = {}
        /\ a.dropped = {} /\ a.new = None /\ a.held = {} /\ a.seen = {} /\ a.scope = sc
    BY DEF Idle
  <2>2. a \in RequestType
    BY <1>4, IdleTyped, ZenonT(40) DEF RequestType
  <2> HIDE DEF a
  <2> QED BY <1>3, <2>1, <2>2 DEF a
<1> QED BY <1>5 DEF f, sc, Rows

\* A request begins, or one that lost its compare-and-set begins the replay.
LEMMA BeginStep ==
  ASSUME IInv, NEW p \in Requests, NEW op \in Ops, NEW on \in Sessions \cup Origins \cup {None},
         req' = [req EXCEPT ![p] = Running(op, on)],
         UNCHANGED <<load, session, code, tok, access, ended, replayed>>,
         begun' \in 0..load.begins, op # "mint",
         op \in {"replayToken", "endFamily", "rotate", "burnToken"} => on \in Tokens /\ tok[on].st # "none",
         op \in {"redeem", "redeemBare", "burnCode", "replayCode"} => on \in Codes /\ code[on].st # "none"
  PROVE  IInv'
<1> DEFINE r == Running(op, on)
<1>1. /\ r \in RequestType /\ r.op = op /\ r.step = 1 /\ r.on = on
      /\ r.family = (IF on \in Tokens THEN tok[on].family ELSE None)
      /\ r.spent = {} /\ r.revoked = {} /\ r.dropped = {} /\ r.new = None /\ r.held = {}
      /\ Rows(r) = {}
  BY RunningTyped DEF IInv, Tables, RowKept
<1> HIDE DEF r
<1>2. OnKept(r) /\ RedeemKept(r) /\ RotateKept(r)
  <2>1. op \in {"replayCode", "replayToken"} => r.scope \subseteq Origins
    <3>1. r.scope = Scope(op, on)
      BY RunningTyped DEF r, IInv, Tables, RowKept
    <3>2. op = "replayCode" => Scope(op, on) = {on} /\ on \in Origins
      BY DEF Scope, Origins
    <3>3. op = "replayToken" => Scope(op, on) = {tok[on].origin} /\ tok[on].origin \in Origins
      BY DEF Scope, IInv, Tables, RowKept
    <3> QED BY <3>1, <3>2, <3>3
  <2> QED BY <1>1, <2>1 DEF OnKept, RedeemKept, RotateKept
<1> QED BY <1>1, <1>2, FreshStep DEF r

LEMMA ArrivalStep ==
  ASSUME IInv, NEW p \in Requests, load' = load,
         \/ \E c \in Codes : handleAuthorizationCode(p, c)
         \/ \E s \in Sessions : changePassword(p, s)
         \/ \E t \in Tokens : handleRefreshToken(p, t) \/ tryRevokeRefreshToken(p, t)
         \/ Arrive(p)
  PROVE  IInv'
<1>1. PICK op \in Ops, on \in Sessions \cup Origins \cup {None} :
        /\ Begin(p, op, on) /\ op # "mint"
        /\ op \in {"replayToken", "endFamily", "rotate", "burnToken"} => on \in Tokens /\ tok[on].st # "none"
        /\ op \in {"redeem", "redeemBare", "burnCode", "replayCode"} => on \in Codes /\ code[on].st # "none"
  <2>1. ASSUME NEW c \in Codes, handleAuthorizationCode(p, c)
        PROVE  /\ code[c].st # "none"
               /\ \E op \in {"replayCode", "redeem", "redeemBare", "burnCode"} : Begin(p, op, c)
    BY <2>1 DEF handleAuthorizationCode, Stored
  <2>2. ASSUME NEW t \in Tokens, handleRefreshToken(p, t) \/ tryRevokeRefreshToken(p, t)
        PROVE  /\ tok[t].st # "none"
               /\ \E op \in {"replayToken", "endFamily", "rotate", "burnToken"} : Begin(p, op, t)
    BY <2>2 DEF handleRefreshToken, tryRevokeRefreshToken, Present
  <2>3. ASSUME NEW s \in Sessions, changePassword(p, s) PROVE Begin(p, "passwordChange", s)
    BY <2>3 DEF changePassword
  <2>4. ASSUME Arrive(p)
        PROVE  \E op \in {"login", "logout", "reset", "revokeConsent", "revokeClient", "purgeTokens",
                          "purgeCodes"} : Begin(p, op, None)
    BY <2>4 DEF Arrive
  <2> QED BY <2>1, <2>2, <2>3, <2>4, OpNames DEF Origins
<1>2. begun' \in 0..load.begins
  <2>1. load.begins \in Nat
    BY GrantsAssumption DEF IInv, TypeOK
  <2> QED BY <1>1, <2>1 DEF Begin, IInv, TypeOK
<1> QED BY <1>1, <1>2, BeginStep DEF Begin

\* The table a snapshot is of.
SeenFits(s, seen) ==
  CASE s = "seeSessions" -> seen \subseteq Sessions
    [] s \in {"seeEndedCodes", "seeCodes", "seeExpiredCodes"} -> seen \subseteq Codes
    [] OTHER -> seen \subseteq Tokens

\* Rows seen are written by the next statement.
LEMMA Before ==
  ASSUME NEW op \in Ops, NEW i \in 1..Len(Script[op]), i < Len(Script[op])
  PROVE  /\ Script[op][i + 1] = "endSeen" => Script[op][i] = "seeSessions"
         /\ Script[op][i + 1] = "spendEnded" => Script[op][i] = "seeEndedCodes"
         /\ Script[op][i + 1] = "voidSeen" => Script[op][i] = "seeCodes"
         /\ Script[op][i + 1] = "revokeSeen" =>
              Script[op][i] \in {"seeUnexpired", "seeUnrevoked", "seeFamily", "seeCodeFamily"}
         /\ Script[op][i + 1] = "deleteSeen" =>
              Script[op][i] \in {"seeDeadFamilies", "seeExpiredCodes"}
<1>1. CASE op = "mint"
  <2>1. i \in 1..1
    BY <1>1, Scripts
  <2> QED BY <1>1, <2>1, Scripts
<1>2. CASE op = "redeem"
  <2>1. i \in 1..3
    BY <1>2, Scripts
  <2> QED BY <1>2, <2>1, Scripts
<1>3. CASE op = "redeemBare"
  <2>1. i \in 1..2
    BY <1>3, Scripts
  <2> QED BY <1>3, <2>1, Scripts
<1>4. CASE op = "burnCode"
  <2>1. i \in 1..1
    BY <1>4, Scripts
  <2> QED BY <1>4, <2>1, Scripts
<1>5. CASE op = "replayCode"
  <2>1. i \in 1..5
    BY <1>5, Scripts
  <2> QED BY <1>5, <2>1, Scripts
<1>6. CASE op = "rotate"
  <2>1. i \in 1..5
    BY <1>6, Scripts
  <2> QED BY <1>6, <2>1, Scripts
<1>7. CASE op = "burnToken"
  <2>1. i \in 1..1
    BY <1>7, Scripts
  <2> QED BY <1>7, <2>1, Scripts
<1>8. CASE op = "replayToken"
  <2>1. i \in 1..4
    BY <1>8, Scripts
  <2> QED BY <1>8, <2>1, Scripts
<1>9. CASE op = "endFamily"
  <2>1. i \in 1..3
    BY <1>9, Scripts
  <2> QED BY <1>9, <2>1, Scripts
<1>10. CASE op = "login"
  <2>1. i \in 1..2
    BY <1>10, Scripts
  <2> QED BY <1>10, <2>1, Scripts
<1>11. CASE op = "logout"
  <2>1. i \in 1..11
    BY <1>11, Scripts
  <2> QED BY <1>11, <2>1, Scripts
<1>12. CASE op = "passwordChange"
  <2>1. i \in 1..10
    BY <1>12, Scripts
  <2> QED BY <1>12, <2>1, Scripts
<1>13. CASE op = "reset"
  <2>1. i \in 1..10
    BY <1>13, Scripts
  <2> QED BY <1>13, <2>1, Scripts
<1>14. CASE op = "revokeConsent"
  <2>1. i \in 1..5
    BY <1>14, Scripts
  <2> QED BY <1>14, <2>1, Scripts
<1>15. CASE op = "revokeClient"
  <2>1. i \in 1..3
    BY <1>15, Scripts
  <2> QED BY <1>15, <2>1, Scripts
<1>16. CASE op = "purgeTokens"
  <2>1. i \in 1..2
    BY <1>16, Scripts
  <2> QED BY <1>16, <2>1, Scripts
<1>17. CASE op = "purgeCodes"
  <2>1. i \in 1..2
    BY <1>17, Scripts
  <2> QED BY <1>17, <2>1, Scripts
<1> QED BY OpNames, <1>1, <1>2, <1>3, <1>4, <1>5, <1>6, <1>7, <1>8, <1>9, <1>10, <1>11, <1>12, <1>13, <1>14, <1>15, <1>16, <1>17

\* Statements: the request keeps what it had and adds rows and locks that
\* nobody else holds.
LEMMA StatementStep ==
  ASSUME IInv, NEW p \in Requests, Busy(p), NEW r \in RequestType,
         Sets(p, After(r)), load' = load, Stmt(p) \notin {"commit", "deny"},
         r.op = req[p].op, r.step = req[p].step, r.on = req[p].on, r.new = req[p].new, r.scope = req[p].scope,
         r.op # "replayCode" => r.family = req[p].family,
         Stmt(p) \in Snapshots => SeenFits(Stmt(p), r.seen),
         \A q \in Requests \ {p} : Rows(r) \cap Rows(req[q]) = {},
         \A q \in Requests \ {p} : \A l \in r.held, m \in req[q].held : ~Conflict(l, m),
         RowsKept(r),
         r.op \in {"redeem", "redeemBare"} => r.revoked = {} /\ r.dropped = {} /\ r.spent = {r.on},
         r.op = "rotate" => /\ r.spent = {} /\ r.dropped = {}
                            /\ IF r.step <= 2 THEN r.revoked = {}
                               ELSE r.revoked = {r.on} /\ tok[r.on].st = "live",
         r.op \in {"mint", "login"} => Rows(r) = {}
  PROVE  IInv'
<1>1. /\ r.op \in Ops /\ r.step \in 1..Len(Script[r.op]) /\ r.step < Len(Script[r.op])
      /\ r.op # "idle"
  BY AtPlace DEF IInv, Place, Stmt, Busy
<1> DEFINE a == After(r)
<1>2. /\ a \in RequestType /\ a.step = r.step + 1
      /\ a.op = r.op /\ a.on = r.on /\ a.family = r.family /\ a.scope = r.scope
      /\ a.spent = r.spent /\ a.revoked = r.revoked
      /\ a.dropped = r.dropped /\ a.new = r.new /\ a.held = r.held
  BY <1>1, AfterNext
<1> HIDE DEF a
<1>3. Rows(a) = Rows(r)
  BY <1>2 DEF Rows
<1>4. Kept(req[p]) /\ r.step \in Nat /\ r.step >= 1 /\ Len(Script[r.op]) \in Nat
  <2>1. r.step \in Nat
    BY DEF RequestType
  <2> QED BY <2>1, <1>1, Scripts, OpNames DEF IInv
<1>5. r.new \notin Tokens
  BY <1>1, <1>4 DEF Kept, NewKept, Last
<1>6. Kept(a)
  <2>1. IdleKept(a) /\ RowsKept(a)
    BY <1>1, <1>2 DEF IdleKept, RowsKept
  <2>5. SeenKept(a)
    <3>1. a.seen = r.seen
      BY <1>1, AfterNext DEF a
    <3>2. Script[r.op][r.step] = Stmt(p)
      BY DEF Stmt
    <3> QED BY <3>1, <3>2, <1>1, <1>2, Before DEF SeenKept, SeenFits, Snapshots
  <2>2. OnKept(a) /\ RedeemKept(a)
    BY <1>2, <1>4 DEF OnKept, RedeemKept, Kept
  <2>3. RotateKept(a)
    BY <1>2, <1>4 DEF RotateKept, Kept
  <2>4. NewKept(a)
    BY <1>2, <1>3, <1>4, <1>5 DEF NewKept, Kept
  <2> QED BY <2>1, <2>2, <2>3, <2>4, <2>5 DEF Kept
<1>7. \A q \in Requests \ {p} : Compatible(a, req[q])
  BY <1>2, <1>3 DEF Compatible, IInv
<1>8. a.step \in 1..Len(Script[a.op])
  BY <1>1, <1>2, <1>4
<1> QED BY <1>2, <1>6, <1>7, <1>8, RequestStep DEF Sets, a, IInv, TypeOK

\* A statement that runs meets no lock of another request.
LEMMA Unblocked ==
  ASSUME IInv, NEW p \in Requests, NEW s, Runs(p, s)
  PROVE  /\ Busy(p) /\ Stmt(p) = s
         /\ \A q \in Requests \ {p} :
              /\ Rows(req[p]) \cap Rows(req[q]) = {}
              /\ RowsWritten(p) \cap Rows(req[q]) = {}
              /\ \A l \in req[p].held, m \in req[q].held : ~Conflict(l, m)
              /\ \A l \in LocksTaken(p), m \in req[q].held : ~Conflict(l, m)
BY DEF Runs, At, Blockers, RowsLockedBy, Rows, IInv, Compatible, Conflict

\* Between spending and committing, issuing requests keep what they spent.
LEMMA Midway ==
  ASSUME IInv, NEW p \in Requests, Busy(p), Stmt(p) \notin {"spendCode", "spendToken"}
  PROVE  /\ req[p].op \in {"redeem", "redeemBare"} =>
              req[p].revoked = {} /\ req[p].dropped = {} /\ req[p].spent = {req[p].on}
         /\ req[p].op = "rotate" =>
              /\ req[p].spent = {} /\ req[p].dropped = {}
              /\ IF req[p].step <= 2 THEN req[p].revoked = {}
                 ELSE req[p].revoked = {req[p].on} /\ tok[req[p].on].st = "live"
         /\ req[p].op \in {"mint", "login"} => Rows(req[p]) = {}
<1>1. Kept(req[p]) /\ req[p] \in RequestType
  BY DEF IInv, TypeOK
<1>2. req[p].op \in {"redeem", "redeemBare"} => req[p].step # 1
  BY Scripts DEF Stmt
<1>3. req[p].op = "rotate" => req[p].step # 3
  BY Scripts DEF Stmt
<1>4. req[p].step \in Nat
  BY <1>1 DEF RequestType
<1> QED BY <1>1, <1>2, <1>3, <1>4 DEF Kept, RedeemKept, RotateKept, NewKept

\* Statements that write no row.
LEMMA LightStep ==
  ASSUME IInv, NEW p \in Requests, Busy(p), NEW r \in RequestType,
         Sets(p, After(r)), load' = load,
         Stmt(p) \notin {"commit", "deny", "spendCode", "spendToken"},
         r.op = req[p].op, r.step = req[p].step, r.on = req[p].on, r.new = req[p].new, r.scope = req[p].scope,
         r.op # "replayCode" => r.family = req[p].family,
         Stmt(p) \in Snapshots => SeenFits(Stmt(p), r.seen),
         r.spent = req[p].spent, r.revoked = req[p].revoked, r.dropped = req[p].dropped,
         \A q \in Requests \ {p} : \A l \in r.held, m \in req[q].held : ~Conflict(l, m)
  PROVE  IInv'
<1>1. \A q \in Requests \ {p} : Rows(r) \cap Rows(req[q]) = {}
  BY DEF IInv, Compatible, Rows
<1>2. RowsKept(r) /\ Rows(r) = Rows(req[p])
  BY DEF IInv, Kept, RowsKept, Rows
<1> QED BY <1>1, <1>2, Midway, StatementStep

LEMMA LockNames == DOMAIN LockOf = {"lockUser", "lockUserShared", "lockClient", "lockClientShared"}
BY DEF LockOf

LEMMA LockTyped ==
  \A s \in DOMAIN LockOf : LockOf[s] \in {"user", "client"} \X {"shared", "exclusive"}
BY DEF LockOf

LEMMA LockTokensStep ==
  ASSUME IInv, NEW p \in Requests, LockTokens(p), load' = load PROVE IInv'
<1>1. PICK s \in DOMAIN LockOf :
        /\ Runs(p, s)
        /\ Sets(p, After([req[p] EXCEPT !.held =
                            IF LockKeyFound(p) THEN @ \cup {LockOf[s]} ELSE @]))
  BY DEF LockTokens
<1> DEFINE h == IF LockKeyFound(p) THEN req[p].held \cup {LockOf[s]} ELSE req[p].held
           r == [req[p] EXCEPT !.held = h]
<1>2. Busy(p) /\ Stmt(p) = s /\ req[p] \in RequestType
  BY <1>1, Unblocked DEF IInv, TypeOK
<1>3. LocksTaken(p) = {LockOf[s]}
  BY <1>2, LockNames DEF LocksTaken
<1>4. \A q \in Requests \ {p} : \A l \in h, m \in req[q].held : ~Conflict(l, m)
  BY <1>1, <1>3, Unblocked
<1>5. h \in SUBSET (({"user", "client"} \cup Sessions) \X {"shared", "exclusive"})
  BY <1>2, LockTyped DEF RequestType
<1>6. Sets(p, After(r))
  BY <1>1
<1> HIDE DEF h
<1>7. /\ r \in RequestType /\ r.op = req[p].op /\ r.step = req[p].step /\ r.on = req[p].on
      /\ r.new = req[p].new /\ r.scope = req[p].scope /\ r.family = req[p].family /\ r.held = h
      /\ r.spent = req[p].spent /\ r.revoked = req[p].revoked /\ r.dropped = req[p].dropped
  BY <1>2, <1>5 DEF RequestType
<1> HIDE DEF r
<1>8. s \notin {"commit", "deny", "spendCode", "spendToken"} \cup Snapshots
  BY LockNames DEF Snapshots
<1> QED BY <1>2, <1>4, <1>6, <1>7, <1>8, LightStep

LEMMA ShareSessionStep ==
  ASSUME IInv, NEW p \in Requests, ShareSession(p), load' = load PROVE IInv'
<1>1. CASE Sets(p, Idle)
  BY <1>1, IdleStep
<1>2. CASE /\ req[p].on \in session
           /\ Sets(p, After([req[p] EXCEPT !.held = @ \cup LocksTaken(p)]))
  <2> DEFINE h == req[p].held \cup LocksTaken(p)
             r == [req[p] EXCEPT !.held = h]
  <2>1. Busy(p) /\ Stmt(p) = "shareSession" /\ req[p] \in RequestType
    BY Unblocked DEF ShareSession, IInv, TypeOK
  <2>2. LocksTaken(p) = {<<req[p].on, "shared">>}
    BY <2>1, LockNames DEF LocksTaken
  <2>3. \A q \in Requests \ {p} : \A l \in h, m \in req[q].held : ~Conflict(l, m)
    BY Unblocked DEF ShareSession
  <2>4. h \in SUBSET (({"user", "client"} \cup Sessions) \X {"shared", "exclusive"})
    BY <2>1, <2>2, <1>2 DEF RequestType, IInv, TypeOK
  <2>5. Sets(p, After(r))
    BY <1>2
  <2> HIDE DEF h
  <2>6. /\ r \in RequestType /\ r.op = req[p].op /\ r.step = req[p].step /\ r.on = req[p].on
        /\ r.new = req[p].new /\ r.scope = req[p].scope /\ r.family = req[p].family /\ r.held = h
        /\ r.spent = req[p].spent /\ r.revoked = req[p].revoked /\ r.dropped = req[p].dropped
    BY <2>1, <2>4 DEF RequestType
  <2> HIDE DEF r
  <2> QED BY <2>1, <2>3, <2>5, <2>6, LightStep DEF Snapshots
<1> QED BY <1>1, <1>2 DEF ShareSession

LEMMA FindFamilyStep ==
  ASSUME IInv, NEW p \in Requests, FindFamily(p), load' = load PROVE IInv'
<1>1. PICK f \in IF LinkedTo({req[p].on}) = {} THEN {None}
                 ELSE {tok[t].family : t \in LinkedTo({req[p].on})} :
        Sets(p, After([req[p] EXCEPT !.family = f]))
  BY DEF FindFamily
<1>2. f \in Tokens \cup {None}
  BY DEF LinkedTo, IInv, TypeOK, TokenType
<1>3. Busy(p) /\ Stmt(p) = "findFamily" /\ req[p] \in RequestType
  BY Unblocked DEF FindFamily, IInv, TypeOK
<1>4. req[p].op = "replayCode"
  BY <1>3, AtPlace DEF Stmt, Place, IInv
<1> DEFINE r == [req[p] EXCEPT !.family = f]
<1>5. /\ r \in RequestType /\ r.op = req[p].op /\ r.step = req[p].step /\ r.on = req[p].on
      /\ r.new = req[p].new /\ r.scope = req[p].scope /\ r.held = req[p].held
      /\ r.spent = req[p].spent /\ r.revoked = req[p].revoked /\ r.dropped = req[p].dropped
  BY <1>2, <1>3 DEF RequestType
<1>6. \A q \in Requests \ {p} : \A l \in r.held, m \in req[q].held : ~Conflict(l, m)
  BY <1>5 DEF IInv, Compatible
<1>7. Sets(p, After(r))
  BY <1>1
<1> HIDE DEF r
<1> QED BY <1>3, <1>4, <1>5, <1>6, <1>7, LightStep DEF Snapshots

LEMMA SeenTyped ==
  ASSUME TypeOK, NEW p \in Requests, Stmt(p) \in Snapshots
  PROVE  Seen(p) \in SUBSET (Sessions \cup Origins) /\ SeenFits(Stmt(p), Seen(p))
<1>1. session \subseteq Sessions
  BY DEF TypeOK
<1> QED BY <1>1 DEF Seen, SeenFits, Snapshots, Unrevoked, Origins

LEMMA SnapshotStep ==
  ASSUME IInv, NEW p \in Requests, Snapshot(p), load' = load PROVE IInv'
<1> DEFINE sn == Seen(p)
           r == [req[p] EXCEPT !.seen = sn]
<1>1. /\ Busy(p) /\ Stmt(p) \in Snapshots /\ req[p] \in RequestType
      /\ sn \in SUBSET (Sessions \cup Origins) /\ Sets(p, After(r)) /\ SeenFits(Stmt(p), sn)
  BY SeenTyped DEF Snapshot, IInv, TypeOK
<1> HIDE DEF sn
<1>2. /\ r \in RequestType /\ r.op = req[p].op /\ r.step = req[p].step /\ r.on = req[p].on
      /\ r.new = req[p].new /\ r.scope = req[p].scope /\ r.family = req[p].family /\ r.held = req[p].held /\ r.seen = sn
      /\ r.spent = req[p].spent /\ r.revoked = req[p].revoked /\ r.dropped = req[p].dropped
  BY <1>1 DEF RequestType
<1> HIDE DEF r
<1>3. \A q \in Requests \ {p} : \A l \in r.held, m \in req[q].held : ~Conflict(l, m)
  BY <1>2 DEF IInv, Compatible
<1> QED BY <1>1, <1>2, <1>3, LightStep DEF Snapshots

LEMMA EndSeenStep ==
  ASSUME IInv, NEW p \in Requests, EndSeen(p), load' = load PROVE IInv'
<1> DEFINE h == req[p].held \cup {<<s, "exclusive">> : s \in req[p].seen \cap session}
           r == [req[p] EXCEPT !.seen = {}, !.held = h]
<1>1. /\ Busy(p) /\ Stmt(p) = "endSeen" /\ req[p] \in RequestType /\ Sets(p, After(r))
  BY Unblocked DEF EndSeen, IInv, TypeOK
<1>2. LocksTaken(p) = {<<s, "exclusive">> : s \in req[p].seen}
  BY <1>1, LockNames DEF LocksTaken
<1>3. \A q \in Requests \ {p} : \A l \in h, m \in req[q].held : ~Conflict(l, m)
  BY <1>2, Unblocked DEF EndSeen
<1>4. h \in SUBSET (({"user", "client"} \cup Sessions) \X {"shared", "exclusive"})
  BY <1>1 DEF RequestType, IInv, TypeOK
<1> HIDE DEF h
<1>5. /\ r \in RequestType /\ r.op = req[p].op /\ r.step = req[p].step /\ r.on = req[p].on
      /\ r.new = req[p].new /\ r.scope = req[p].scope /\ r.family = req[p].family /\ r.held = h
      /\ r.spent = req[p].spent /\ r.revoked = req[p].revoked /\ r.dropped = req[p].dropped
  BY <1>1, <1>4 DEF RequestType
<1> HIDE DEF r
<1> QED BY <1>1, <1>3, <1>5, LightStep DEF Snapshots

\* Statements that write rows, of operations that issue nothing.
LEMMA WriteStep ==
  ASSUME IInv, NEW p \in Requests, NEW r \in RequestType, NEW s,
         Runs(p, s), s \in {"spendEnded", "voidSeen", "revokeSeen", "deleteSeen", "revokeById"},
         Sets(p, After(r)), load' = load,
         r.op = req[p].op, r.step = req[p].step, r.on = req[p].on, r.new = req[p].new, r.scope = req[p].scope,
         r.family = req[p].family, r.held = req[p].held, Rows(r) \subseteq Rows(req[p]) \cup RowsWritten(p), RowsKept(r)
  PROVE  IInv'
<1>1. /\ Busy(p) /\ Stmt(p) = s
      /\ r.op \notin {"redeem", "redeemBare", "rotate", "mint", "login"}
  BY AtPlace, Unblocked DEF Stmt, Place, IInv
<1>2. \A q \in Requests \ {p} : Rows(r) \cap Rows(req[q]) = {}
  BY Unblocked
<1>3. \A q \in Requests \ {p} : \A l \in r.held, m \in req[q].held : ~Conflict(l, m)
  BY Unblocked
<1> QED BY <1>1, <1>2, <1>3, StatementStep DEF Snapshots

LEMMA VoidSeenStep ==
  ASSUME IInv, NEW p \in Requests, VoidSeen(p), load' = load PROVE IInv'
<1> DEFINE x == req[p].spent \cup {c \in req[p].seen : code[c].st = "fresh"}
           r == [req[p] EXCEPT !.seen = {}, !.spent = x]
<1>0. PICK s \in {"spendEnded", "voidSeen"} : Runs(p, s)
  BY DEF VoidSeen
<1>1. /\ Busy(p) /\ Stmt(p) = s /\ Runs(p, s) /\ req[p] \in RequestType /\ Sets(p, After(r))
      /\ Kept(req[p])
  BY <1>0, Unblocked DEF VoidSeen, IInv, TypeOK
<1>2. req[p].seen \subseteq Codes /\ RowsWritten(p) = req[p].seen
  BY <1>1 DEF Kept, SeenKept, Stmt, Busy, RowsWritten
<1>3. /\ x \in SUBSET Codes /\ x \subseteq req[p].spent \cup req[p].seen
      /\ \A c \in x : code[c].st = "fresh"
  BY <1>1, <1>2 DEF Kept, RowsKept, RequestType
<1> HIDE DEF x
<1>4. /\ r \in RequestType /\ r.op = req[p].op /\ r.step = req[p].step /\ r.on = req[p].on
      /\ r.new = req[p].new /\ r.scope = req[p].scope /\ r.family = req[p].family /\ r.held = req[p].held
      /\ r.spent = x /\ r.revoked = req[p].revoked /\ r.dropped = req[p].dropped
  BY <1>1, <1>3 DEF RequestType
<1> HIDE DEF r
<1>5. Rows(r) \subseteq Rows(req[p]) \cup RowsWritten(p) /\ RowsKept(r)
  BY <1>1, <1>2, <1>3, <1>4 DEF Rows, RowsKept, Kept
<1> QED BY <1>1, <1>4, <1>5, WriteStep

LEMMA RevokeSeenStep ==
  ASSUME IInv, NEW p \in Requests, RevokeSeen(p), load' = load PROVE IInv'
<1> DEFINE x == req[p].revoked \cup {t \in req[p].seen : tok[t].st = "live"}
           r == [req[p] EXCEPT !.seen = {}, !.revoked = x]
<1>1. /\ Busy(p) /\ Stmt(p) = "revokeSeen" /\ req[p] \in RequestType /\ Sets(p, After(r))
      /\ Runs(p, "revokeSeen") /\ Kept(req[p])
  BY Unblocked DEF RevokeSeen, IInv, TypeOK
<1>2. req[p].seen \subseteq Tokens /\ RowsWritten(p) = req[p].seen
  BY <1>1 DEF Kept, SeenKept, Stmt, Busy, RowsWritten
<1>3. /\ x \in SUBSET Tokens /\ x \subseteq req[p].revoked \cup req[p].seen
      /\ \A t \in x : Present(t)
  BY <1>1, <1>2 DEF Kept, RowsKept, RequestType, Present
<1> HIDE DEF x
<1>4. /\ r \in RequestType /\ r.op = req[p].op /\ r.step = req[p].step /\ r.on = req[p].on
      /\ r.new = req[p].new /\ r.scope = req[p].scope /\ r.family = req[p].family /\ r.held = req[p].held
      /\ r.revoked = x /\ r.spent = req[p].spent /\ r.dropped = req[p].dropped
  BY <1>1, <1>3 DEF RequestType
<1> HIDE DEF r
<1>5. Rows(r) \subseteq Rows(req[p]) \cup RowsWritten(p) /\ RowsKept(r)
  BY <1>1, <1>2, <1>3, <1>4 DEF Rows, RowsKept, Kept
<1> QED BY <1>1, <1>4, <1>5, WriteStep

LEMMA DeleteSeenStep ==
  ASSUME IInv, NEW p \in Requests, DeleteSeen(p), load' = load PROVE IInv'
<1> DEFINE x == {y \in req[p].seen : IF y \in Tokens THEN Present(y) ELSE Stored(y)}
           r == [req[p] EXCEPT !.seen = {}, !.dropped = x]
<1>1. /\ Busy(p) /\ Stmt(p) = "deleteSeen" /\ req[p] \in RequestType /\ Sets(p, After(r))
      /\ Runs(p, "deleteSeen") /\ Kept(req[p])
  BY Unblocked DEF DeleteSeen, IInv, TypeOK
<1>2. req[p].seen \subseteq Origins /\ req[p].seen \subseteq RowsWritten(p)
  BY <1>1 DEF Kept, SeenKept, Stmt, Busy, RowsWritten, Origins
<1>3. /\ x \in SUBSET Origins /\ x \subseteq req[p].seen
      /\ \A y \in x : IF y \in Tokens THEN Present(y) ELSE Stored(y)
  BY <1>1, <1>2
<1> HIDE DEF x
<1>4. /\ r \in RequestType /\ r.op = req[p].op /\ r.step = req[p].step /\ r.on = req[p].on
      /\ r.new = req[p].new /\ r.scope = req[p].scope /\ r.family = req[p].family /\ r.held = req[p].held
      /\ r.dropped = x /\ r.spent = req[p].spent /\ r.revoked = req[p].revoked
  BY <1>1, <1>3 DEF RequestType
<1> HIDE DEF r
<1>5. Rows(r) \subseteq Rows(req[p]) \cup RowsWritten(p) /\ RowsKept(r)
  BY <1>1, <1>2, <1>3, <1>4 DEF Rows, RowsKept, Kept
<1> QED BY <1>1, <1>4, <1>5, WriteStep

LEMMA RevokeByIdStep ==
  ASSUME IInv, NEW p \in Requests, RevokeById(p), load' = load PROVE IInv'
<1>1. CASE Sets(p, Idle)
  BY <1>1, IdleStep
<1>2. CASE Present(req[p].on) /\ Sets(p, After([req[p] EXCEPT !.revoked = {req[p].on}]))
  <2> DEFINE x == {req[p].on}
             r == [req[p] EXCEPT !.revoked = x]
  <2>1. /\ Busy(p) /\ Stmt(p) = "revokeById" /\ req[p] \in RequestType /\ Sets(p, After(r))
        /\ Runs(p, "revokeById") /\ Kept(req[p])
    BY <1>2, Unblocked DEF RevokeById, IInv, TypeOK
  <2>2. RowsWritten(p) = x /\ req[p].on \in Tokens
    BY <2>1, AtPlace DEF RowsWritten, Stmt, Place, IInv, Kept, OnKept
  <2> HIDE DEF x
  <2>3. /\ r \in RequestType /\ r.op = req[p].op /\ r.step = req[p].step /\ r.on = req[p].on
        /\ r.new = req[p].new /\ r.scope = req[p].scope /\ r.family = req[p].family /\ r.held = req[p].held
        /\ r.revoked = x /\ r.spent = req[p].spent /\ r.dropped = req[p].dropped
    BY <2>1, <2>2 DEF RequestType, x
  <2> HIDE DEF r
  <2>4. Rows(r) \subseteq Rows(req[p]) \cup RowsWritten(p) /\ RowsKept(r)
    BY <1>2, <2>1, <2>2, <2>3 DEF Rows, RowsKept, Kept, x
  <2> QED BY <2>1, <2>3, <2>4, WriteStep
<1> QED BY <1>1, <1>2 DEF RevokeById

\* The compare-and-set that spends a code, or turns into the replay.
LEMMA SpendCodeStep ==
  ASSUME IInv, NEW p \in Requests, SpendCode(p), load' = load PROVE IInv'
<1>1. /\ Busy(p) /\ Stmt(p) = "spendCode" /\ req[p] \in RequestType /\ Runs(p, "spendCode")
      /\ Kept(req[p]) /\ req[p].step = 1
      /\ req[p].op \in {"redeem", "redeemBare", "burnCode"}
  BY Unblocked, AtPlace DEF SpendCode, IInv, TypeOK, Stmt, Place
<1>2. req[p].on \in Codes /\ code[req[p].on].st # "none"
  BY <1>1 DEF Kept, OnKept
<1>3. CASE Sets(p, Idle)
  BY <1>3, IdleStep
<1>4. CASE Sets(p, Running("replayCode", req[p].on))
  <2>1. "replayCode" \in Ops /\ req[p].on \in Sessions \cup Origins \cup {None}
    BY <1>2, OpNames DEF Origins
  <2>2. begun' \in 0..load.begins
    BY <1>4 DEF Sets, IInv, TypeOK
  <2>3. /\ req' = [req EXCEPT ![p] = Running("replayCode", req[p].on)]
        /\ UNCHANGED <<load, session, code, tok, access, ended, replayed>>
    BY <1>4 DEF Sets
  <2> QED BY <1>2, <2>1, <2>2, <2>3, BeginStep
<1>5. CASE SpendsCode(p) /\ Sets(p, After([req[p] EXCEPT !.spent = {req[p].on}]))
  <2> DEFINE x == {req[p].on}
             r == [req[p] EXCEPT !.spent = x]
  <2>1. RowsWritten(p) = x /\ x \in SUBSET Codes /\ Sets(p, After(r))
    BY <1>1, <1>2, <1>5 DEF RowsWritten
  <2>2. \A c \in x : code[c].st = "fresh"
    BY <1>5 DEF SpendsCode
  <2> HIDE DEF x
  <2>3. /\ r \in RequestType /\ r.op = req[p].op /\ r.step = req[p].step /\ r.on = req[p].on
        /\ r.new = req[p].new /\ r.scope = req[p].scope /\ r.family = req[p].family /\ r.held = req[p].held
        /\ r.spent = x /\ r.revoked = req[p].revoked /\ r.dropped = req[p].dropped
    BY <1>1, <2>1 DEF RequestType
  <2> HIDE DEF r
  <2>4. RowsKept(r)
    BY <1>1, <2>2, <2>3 DEF RowsKept, Kept
  <2>5. r.op \in {"redeem", "redeemBare"} => r.revoked = {} /\ r.dropped = {} /\ r.spent = {r.on}
    BY <1>1, <2>3 DEF Kept, RedeemKept, x
  <2>6. \A q \in Requests \ {p} : Rows(r) \cap Rows(req[q]) = {}
    BY <1>1, <2>1, <2>3, Unblocked DEF Rows
  <2>7. \A q \in Requests \ {p} : \A l \in r.held, m \in req[q].held : ~Conflict(l, m)
    BY <1>1, <2>3, Unblocked
  <2>8. Stmt(p) \notin Snapshots \cup {"commit", "deny"} /\ r.op \notin {"rotate", "mint", "login"}
    BY <1>1, <2>3 DEF Snapshots
  <2> QED BY <1>1, <2>1, <2>3, <2>4, <2>5, <2>6, <2>7, <2>8, StatementStep
<1> QED BY <1>3, <1>4, <1>5 DEF SpendCode

\* The compare-and-set that spends a refresh token.
LEMMA SpendTokenStep ==
  ASSUME IInv, NEW p \in Requests, SpendToken(p), load' = load PROVE IInv'
<1>1. /\ Busy(p) /\ Stmt(p) = "spendToken" /\ req[p] \in RequestType /\ Runs(p, "spendToken")
      /\ Kept(req[p]) /\ req[p].step = 3 /\ req[p].op = "rotate"
  BY Unblocked, AtPlace DEF SpendToken, IInv, TypeOK, Stmt, Place
<1>2. req[p].on \in Tokens /\ tok[req[p].on].st # "none"
  BY <1>1 DEF Kept, OnKept
<1>3. CASE Sets(p, Running("replayToken", req[p].on))
  <2>1. "replayToken" \in Ops /\ req[p].on \in Sessions \cup Origins \cup {None}
    BY <1>2, OpNames DEF Origins
  <2>2. begun' \in 0..load.begins
    BY <1>3 DEF Sets, IInv, TypeOK
  <2>3. /\ req' = [req EXCEPT ![p] = Running("replayToken", req[p].on)]
        /\ UNCHANGED <<load, session, code, tok, access, ended, replayed>>
    BY <1>3 DEF Sets
  <2> QED BY <1>2, <2>1, <2>2, <2>3, BeginStep
<1>4. CASE RotatesToken(p) /\ Sets(p, After([req[p] EXCEPT !.revoked = {req[p].on}]))
  <2> DEFINE x == {req[p].on}
             r == [req[p] EXCEPT !.revoked = x]
  <2>1. RowsWritten(p) = x /\ x \in SUBSET Tokens /\ Sets(p, After(r))
    BY <1>1, <1>2, <1>4 DEF RowsWritten
  <2>2. tok[req[p].on].st = "live" /\ \A t \in x : Present(t)
    BY <1>4 DEF RotatesToken, Present
  <2> HIDE DEF x
  <2>3. /\ r \in RequestType /\ r.op = req[p].op /\ r.step = req[p].step /\ r.on = req[p].on
        /\ r.new = req[p].new /\ r.scope = req[p].scope /\ r.family = req[p].family /\ r.held = req[p].held
        /\ r.revoked = x /\ r.spent = req[p].spent /\ r.dropped = req[p].dropped
    BY <1>1, <2>1 DEF RequestType
  <2> HIDE DEF r
  <2>4. RowsKept(r)
    BY <1>1, <2>2, <2>3 DEF RowsKept, Kept
  <2>5. r.spent = {} /\ r.dropped = {} /\ r.revoked = {r.on} /\ tok[r.on].st = "live" /\ ~(r.step <= 2)
    BY <1>1, <2>2, <2>3 DEF Kept, RotateKept, x
  <2>6. \A q \in Requests \ {p} : Rows(r) \cap Rows(req[q]) = {}
    BY <1>1, <2>1, <2>3, Unblocked DEF Rows
  <2>7. \A q \in Requests \ {p} : \A l \in r.held, m \in req[q].held : ~Conflict(l, m)
    BY <1>1, <2>3, Unblocked
  <2>8. Stmt(p) \notin Snapshots \cup {"commit", "deny"} /\ r.op = "rotate"
    BY <1>1, <2>3 DEF Snapshots
  <2> QED BY <1>1, <2>1, <2>3, <2>4, <2>5, <2>6, <2>7, <2>8, StatementStep
<1> QED BY <1>3, <1>4 DEF SpendToken

LEMMA MintStep ==
  ASSUME IInv, NEW p \in Requests, NEW s \in Sessions, NEW c \in Codes,
         mintAuthorizationCode(p, s, c), load' = load
  PROVE  IInv'
<1> DEFINE r0 == Running("mint", s)
           r == [r0 EXCEPT !.new = c]
<1>1. /\ r0 \in RequestType /\ r0.op = "mint" /\ r0.step = 1 /\ r0.on = s
      /\ r0.spent = {} /\ r0.revoked = {} /\ r0.dropped = {} /\ r0.held = {}
  BY RunningTyped, OpNames DEF IInv, Tables, RowKept
<1> HIDE DEF r0
<1>2. c \in Origins
  BY DEF Origins
<1>3. /\ r \in RequestType /\ r.op = "mint" /\ r.step = 1 /\ r.on = s /\ r.new = c
      /\ r.spent = {} /\ r.revoked = {} /\ r.dropped = {} /\ r.held = {}
  BY <1>1, <1>2 DEF RequestType
<1>4. /\ code[c].st = "none" /\ (\A q \in Requests : req[q].new # c) /\ Sets(p, r)
  BY DEF mintAuthorizationCode, r0
<1> HIDE DEF r
<1>5. Kept(r)
  <2>1. SeenKept(r)
    BY <1>3, Scripts DEF SeenKept
  <2>2. NewKept(r) /\ IdleKept(r) /\ OnKept(r)
    BY <1>3, <1>4, Distinct DEF NewKept, IdleKept, OnKept, Rows
  <2> QED BY <2>1, <2>2, <1>3 DEF Kept, RowsKept, RedeemKept, RotateKept
<1>6. \A q \in Requests \ {p} : Compatible(r, req[q])
  BY <1>3, <1>4 DEF Compatible, Rows
<1>7. r.step \in 1..Len(Script[r.op])
  BY <1>3, Scripts
<1> QED BY <1>3, <1>4, <1>5, <1>6, <1>7, RequestStep DEF Sets, IInv, TypeOK

LEMMA UnusedFresh ==
  ASSUME NEW t \in Unused
  PROVE  t \in Tokens /\ access[t].st = "none" /\ \A q \in Requests : req[q].new # t
BY DEF Unused

\* A request issues in its last statement but one, with its row spent.
LEMMA IssuePlace ==
  ASSUME IInv, NEW p \in Requests, Busy(p), Stmt(p) \in {"insert", "sign"}
  PROVE  /\ req[p].op \in Issuing /\ req[p].step \in Nat /\ req[p].step >= 2
         /\ req[p].step + 1 = Len(Script[req[p].op])
         /\ Script[req[p].op][req[p].step + 1] = "commit"
         /\ req[p].op = "rotate" => req[p].step = 5
<1>1. \/ req[p].step = 2 /\ req[p].op = "login"
      \/ req[p].step = 3 /\ req[p].op = "redeem"
      \/ req[p].step = 5 /\ req[p].op = "rotate"
      \/ req[p].step = 2 /\ req[p].op = "redeemBare"
  <2>1. Place(req[p].op, req[p].step)
    BY AtPlace DEF IInv
  <2>2. CASE Stmt(p) = "insert"
    BY <2>1, <2>2 DEF Stmt, Place
  <2>3. CASE Stmt(p) = "sign"
    BY <2>1, <2>3 DEF Stmt, Place
  <2> QED BY <2>2, <2>3
<1>2. /\ Len(Script["login"]) = 3 /\ Script["login"][3] = "commit"
      /\ Len(Script["redeem"]) = 4 /\ Script["redeem"][4] = "commit"
      /\ Len(Script["rotate"]) = 6 /\ Script["rotate"][6] = "commit"
      /\ Len(Script["redeemBare"]) = 3 /\ Script["redeemBare"][3] = "commit"
  BY Scripts
<1>3. CASE req[p].step = 2 /\ req[p].op = "login"
  BY <1>2, <1>3 DEF Issuing
<1>4. CASE req[p].step = 3 /\ req[p].op = "redeem"
  BY <1>2, <1>4 DEF Issuing
<1>5. CASE req[p].step = 5 /\ req[p].op = "rotate"
  BY <1>2, <1>5 DEF Issuing
<1>6. CASE req[p].step = 2 /\ req[p].op = "redeemBare"
  BY <1>2, <1>6 DEF Issuing
<1> QED BY <1>1, <1>3, <1>4, <1>5, <1>6

\* What an issuing request signs.
LEMMA SignedTyped ==
  ASSUME IInv, NEW p \in Requests, Busy(p), Stmt(p) \in {"insert", "sign"}, NEW t \in Tokens
  PROVE  /\ req[p].op \in Issuing /\ req[p].step + 1 = Len(Script[req[p].op])
         /\ Signed(p, t) \in AccessType /\ Signed(p, t).st = "signed"
         /\ Signed(p, t).origin = OriginFor(req[p], t) /\ Signed(p, t).keys = KeysFor(req[p], t)
<1>1. /\ req[p].op \in Issuing /\ req[p].step + 1 = Len(Script[req[p].op])
  BY IssuePlace
<1>2. /\ req[p].op \in {"redeem", "redeemBare"} => req[p].on \in Origins
      /\ req[p].op = "rotate" => tok[req[p].on].origin \in Origins /\ req[p].family \in Origins
      /\ t \in Origins
  BY DEF IInv, Kept, OnKept, Tables, RowKept, Origins
<1>3. recordKeys(p, t) = KeysFor(req[p], t) /\ OriginOf(p, t) = OriginFor(req[p], t)
  BY <1>1 DEF recordKeys, OriginOf, KeysFor, OriginFor, Issuing
<1>4. KeysFor(req[p], t) \in SUBSET Origins /\ OriginFor(req[p], t) \in Origins
  BY <1>1, <1>2 DEF KeysFor, OriginFor, Issuing
<1> QED BY <1>1, <1>3, <1>4 DEF Signed, AccessType

\* A token row is inserted and an access token signed, or the latter alone.
LEMMA IssueStep ==
  ASSUME IInv, NEW p \in Requests, Busy(p), Stmt(p) \in {"insert", "sign"}, NEW t \in Unused,
         req' = [req EXCEPT ![p] = After([@ EXCEPT !.new = t])],
         access' = [access EXCEPT ![t] = Signed(p, t)],
         UNCHANGED <<load, session, code, tok, begun, ended, replayed>>
  PROVE  IInv'
<1>1. t \in Tokens /\ access[t].st = "none" /\ \A q \in Requests : req[q].new # t
  BY UnusedFresh
<1>2. /\ req[p].op \in Issuing /\ req[p].step + 1 = Len(Script[req[p].op])
      /\ Signed(p, t) \in AccessType /\ Signed(p, t).st = "signed"
      /\ Signed(p, t).origin = OriginFor(req[p], t) /\ Signed(p, t).keys = KeysFor(req[p], t)
  BY <1>1, SignedTyped
<1>3. /\ req[p] \in RequestType /\ Kept(req[p]) /\ req[p].op \in Ops /\ req[p].op # "idle"
      /\ req[p].step \in Nat /\ Len(Script[req[p].op]) \in Nat /\ t \in Origins
      /\ access \in [Tokens -> AccessType] /\ req \in [Requests -> RequestType]
  BY <1>1, AtPlace, Lengths DEF IInv, TypeOK, RequestType, Busy, Origins
<1> DEFINE r == [req[p] EXCEPT !.new = t]
           a == After(r)
<1>4. /\ r \in RequestType /\ r.op = req[p].op /\ r.step = req[p].step /\ r.on = req[p].on
      /\ r.new = t /\ r.scope = req[p].scope /\ r.family = req[p].family /\ r.held = req[p].held /\ r.seen = req[p].seen
      /\ r.revoked = req[p].revoked /\ r.spent = req[p].spent /\ r.dropped = req[p].dropped
  BY <1>3 DEF RequestType
<1>5. req' = [req EXCEPT ![p] = a]
  BY <1>3
<1> HIDE DEF r
<1>6. /\ a \in RequestType /\ a.step = req[p].step + 1
      /\ a.op = req[p].op /\ a.on = req[p].on /\ a.family = req[p].family /\ a.scope = req[p].scope
      /\ a.spent = req[p].spent /\ a.revoked = req[p].revoked
      /\ a.dropped = req[p].dropped /\ a.new = t /\ a.held = req[p].held
  BY <1>2, <1>3, <1>4, AfterNext
<1> HIDE DEF a
<1>7. /\ req'[p] = a /\ \A q \in Requests \ {p} : req'[q] = req[q]
      /\ req' \in [Requests -> RequestType]
  BY <1>3, <1>5, <1>6
<1>8. /\ access' \in [Tokens -> AccessType] /\ access'[t] = Signed(p, t)
      /\ \A u \in Tokens \ {t} : access'[u] = access[u]
  BY <1>1, <1>2, <1>3
<1>9. TypeOK'
  <2>1. a.step \in 1..Len(Script[a.op])
    BY <1>2, <1>3, <1>6
  <2> QED BY <1>7, <1>8, <2>1 DEF IInv, TypeOK, Busy
<1>10. Tables'
  <2>1. tok[t].st = "none"
    BY <1>1 DEF IInv, Tables, RowKept
  <2>2. \A u \in Tokens : access'[u].st = "issued" => access'[u] = access[u] /\ u # t
    BY <1>2, <1>8
  <2>3. \A u \in Tokens : RowKept(u)'
    BY <1>8, <2>1 DEF IInv, Tables, RowKept
  <2>4. OneFamily' /\ OneLiveToken'
    BY DEF IInv, Tables, OneFamily, OneLiveToken
  <2>5. SpentKeys' /\ RedeemedOnce'
    BY <2>2 DEF IInv, Tables, SpentKeys, RedeemedOnce
  <2> QED BY <2>3, <2>4, <2>5 DEF Tables
<1>11. Kept(req[p])'
  <2>1. IdleKept(req[p])' /\ OnKept(req[p])'
    BY <1>3, <1>6, <1>7 DEF IdleKept, OnKept, Kept
  <2>2. SeenKept(req[p])'
    <3>1. Script[a.op][a.step] = "commit"
      BY <1>6, IssuePlace
    <3> QED BY <3>1, <1>7 DEF SeenKept
  <2>3. RowsKept(req[p])'
    BY <1>3, <1>6, <1>7 DEF RowsKept, Kept, Present, Stored
  <2>4. RedeemKept(req[p])' /\ RotateKept(req[p])'
    <3>1. a.step \in Nat /\ a.step # 1 /\ (a.op = "rotate" => ~(a.step <= 3) /\ ~(req[p].step <= 2))
      BY <1>6, IssuePlace
    <3>2. /\ a.op \in {"redeem", "redeemBare"} => a.revoked = {} /\ a.dropped = {} /\ a.spent = {a.on}
          /\ a.op = "rotate" => /\ a.spent = {} /\ a.dropped = {}
                                /\ a.revoked = {a.on} /\ tok'[a.on].st = "live"
      BY <1>6, <3>1, Midway
    <3> QED BY <1>7, <3>1, <3>2 DEF RedeemKept, RotateKept
  <2>5. NewKept(req[p])'
    <3>1. Rows(a) = Rows(req[p])
      BY <1>6 DEF Rows
    <3>2. OriginFor(req[p], t) = OriginFor(req[p], req[p].new)'
      BY <1>6, <1>7 DEF OriginFor
    <3>3. KeysFor(req[p], t) = KeysFor(req[p], req[p].new)'
      BY <1>6, <1>7 DEF KeysFor
    <3>4. /\ access'[t].st = "signed" /\ access'[t].origin = OriginFor(req[p], req[p].new)'
          /\ access'[t].keys = KeysFor(req[p], req[p].new)'
      BY <1>2, <1>8, <3>2, <3>3
    <3>5. t \notin Codes /\ a.op # "mint"
      BY <1>1, <1>2, <1>6, Distinct DEF Issuing
    <3>6. Rows(req[p])' = Rows(req[p])
      BY <1>6, <1>7 DEF Rows
    <3>7. Last(req[p])' /\ req'[p].new = t /\ req'[p].op = req[p].op
      BY <1>2, <1>6, <1>7 DEF Last
    <3> QED BY <1>2, <1>3, <3>4, <3>5, <3>6, <3>7, <1>6 DEF NewKept, Kept
  <2> QED BY <2>1, <2>2, <2>3, <2>4, <2>5 DEF Kept
<1>12. ASSUME NEW q \in Requests \ {p} PROVE Kept(req[q])'
  <2>1. Kept(req[q]) /\ req'[q] = req[q]
    BY <1>7 DEF IInv
  <2>2. /\ IdleKept(req[q])' /\ OnKept(req[q])' /\ SeenKept(req[q])' /\ RowsKept(req[q])'
        /\ RedeemKept(req[q])' /\ RotateKept(req[q])'
    BY <2>1 DEF Kept, IdleKept, OnKept, SeenKept, RowsKept, RedeemKept, RotateKept, Present, Stored, Rows
  <2>3. NewKept(req[q])'
    BY <1>1, <1>8, <2>1 DEF Kept, NewKept, Rows, OriginFor, KeysFor, Last
  <2> QED BY <2>2, <2>3 DEF Kept
<1>13. \A q, s \in Requests : q # s => Compatible(req'[q], req'[s])
  <2>1. \A s \in Requests \ {p} : Compatible(a, req[s]) /\ Compatible(req[s], a)
    BY <1>1, <1>6 DEF IInv, Compatible, Conflict, Rows
  <2> QED BY <1>7, <2>1 DEF IInv
<1> QED BY <1>9, <1>10, <1>11, <1>12, <1>13 DEF IInv, Compatible

LEMMA InsertStep ==
  ASSUME IInv, NEW p \in Requests, Insert(p), load' = load PROVE IInv'
<1>1. CASE Sets(p, Idle)
  BY <1>1, IdleStep
<1>2. CASE \E t \in Unused :
              /\ req' = [req EXCEPT ![p] = After([@ EXCEPT !.new = t])]
              /\ access' = [access EXCEPT ![t] = Signed(p, t)]
              /\ UNCHANGED <<session, code, tok, begun, ended, replayed>>
  <2>1. Busy(p) /\ Stmt(p) = "insert"
    BY DEF Insert, Runs, At
  <2>2. PICK t \in Unused :
              /\ req' = [req EXCEPT ![p] = After([@ EXCEPT !.new = t])]
              /\ access' = [access EXCEPT ![t] = Signed(p, t)]
              /\ UNCHANGED <<session, code, tok, begun, ended, replayed>>
    BY <1>2
  <2> QED BY <2>1, <2>2, IssueStep
<1> QED BY <1>1, <1>2 DEF Insert

LEMMA SignStep ==
  ASSUME IInv, NEW p \in Requests, Sign(p), load' = load PROVE IInv'
<1>1. Busy(p) /\ Stmt(p) = "sign"
  BY DEF Sign, Runs, At
<1>2. PICK t \in Unused :
        /\ req' = [req EXCEPT ![p] = After([@ EXCEPT !.new = t])]
        /\ access' = [access EXCEPT ![t] = Signed(p, t)]
  BY DEF Sign
<1>3. UNCHANGED <<session, code, tok, begun, ended, replayed>>
  BY DEF Sign
<1> QED BY <1>1, <1>2, <1>3, IssueStep
-------------------------------------------------------------------------
(* The commit *)

\* What the transaction of p makes of the codes.
LEMMA CommitCodes ==
  ASSUME IInv, NEW p \in Requests, Commit(p), NEW c \in Codes
  PROVE  /\ code'[c] \in CodeType
         /\ code[c].st # "none" => code'[c].st # "none" /\ code'[c].session = code[c].session
         /\ code[c].st \in {"used", "gone"} => code'[c].st \in {"used", "gone"}
         /\ c \in req[p].spent => code'[c].st = "used"
         /\ c = req[p].new => code[c].st = "none" /\ code'[c].st = "fresh" /\ code'[c].session = req[p].on
         /\ c \notin Rows(req[p]) /\ c # req[p].new => code'[c] = code[c]
         /\ code'[c].st = "fresh" => c = req[p].new \/ (code[c].st = "fresh" /\ c \notin req[p].spent)
<1>1. code[c] \in CodeType /\ Kept(req[p])
  BY DEF IInv, TypeOK
<1>2. code'[c] = IF c = req[p].new THEN [st |-> "fresh", session |-> req[p].on, expired |-> FALSE]
                 ELSE IF c \in req[p].spent THEN [code[c] EXCEPT !.st = "used"]
                 ELSE IF c \in req[p].dropped THEN [code[c] EXCEPT !.st = "gone"]
                 ELSE code[c]
  BY DEF Commit
<1>3. CASE c = req[p].new
  <2>1. req[p].on \in Sessions /\ code[c].st = "none"
    BY <1>1, <1>3 DEF Kept, NewKept, OnKept
  <2>2. c \notin req[p].spent
    BY <1>1, <2>1 DEF Kept, RowsKept
  <2> QED BY <1>2, <1>3, <2>1, <2>2 DEF CodeType
<1>4. CASE c # req[p].new /\ c \in req[p].spent
  <2>1. code[c].st = "fresh"
    BY <1>1, <1>4 DEF Kept, RowsKept
  <2>2. code'[c] = [code[c] EXCEPT !.st = "used"] /\ c \in Rows(req[p])
    BY <1>2, <1>4 DEF Rows
  <2> QED BY <1>1, <1>4, <2>1, <2>2 DEF CodeType
<1>5. CASE c # req[p].new /\ c \notin req[p].spent /\ c \in req[p].dropped
  <2>1. code[c].st \in {"fresh", "used"}
    BY <1>1, <1>5, Distinct DEF Kept, RowsKept, Stored
  <2>2. code'[c] = [code[c] EXCEPT !.st = "gone"] /\ c \in Rows(req[p])
    BY <1>2, <1>5 DEF Rows
  <2> QED BY <1>1, <1>5, <2>1, <2>2 DEF CodeType
<1>6. CASE c # req[p].new /\ c \notin req[p].spent /\ c \notin req[p].dropped
  BY <1>1, <1>2, <1>6 DEF CodeType
<1> QED BY <1>3, <1>4, <1>5, <1>6

\* The id of a row that is being inserted is of no stored row.
LEMMA NewToken ==
  ASSUME IInv, NEW p \in Requests, req[p].new \in Tokens
  PROVE  /\ Busy(p) /\ req[p].op \in Issuing /\ tok[req[p].new].st = "none" /\ req[p].new \notin Rows(req[p])
         /\ access[req[p].new].st = "signed"
         /\ access[req[p].new].origin = OriginFor(req[p], req[p].new)
         /\ access[req[p].new].keys = KeysFor(req[p], req[p].new)
         /\ req[p].op \in {"redeem", "redeemBare"} =>
              req[p].spent = {req[p].on} /\ req[p].on \in Codes /\ code[req[p].on].st = "fresh"
         /\ req[p].op = "rotate" =>
              /\ req[p].on \in Tokens /\ req[p].revoked = {req[p].on} /\ tok[req[p].on].st = "live"
              /\ req[p].family = tok[req[p].on].family
<1>1. Kept(req[p]) /\ req[p] \in RequestType
  BY DEF IInv, TypeOK
<1>2. /\ req[p].op \in Issuing /\ Last(req[p]) /\ access[req[p].new].st = "signed"
      /\ access[req[p].new].origin = OriginFor(req[p], req[p].new)
      /\ access[req[p].new].keys = KeysFor(req[p], req[p].new)
  BY <1>1 DEF Kept, NewKept
<1>3. tok[req[p].new].st = "none"
  BY <1>2 DEF IInv, Tables, RowKept
<1>4. req[p].new \notin Rows(req[p])
  <2>1. req[p].new \notin req[p].spent
    BY <1>1, Distinct DEF RequestType
  <2>2. req[p].new \notin req[p].revoked
    BY <1>1, <1>3 DEF Kept, RowsKept, Present
  <2>3. req[p].new \notin req[p].dropped
    BY <1>1, <1>3 DEF Kept, RowsKept, Present
  <2> QED BY <2>1, <2>2, <2>3 DEF Rows
<1>5. /\ req[p].op \in {"redeem", "redeemBare"} => req[p].step # 1
      /\ req[p].op = "rotate" => ~(req[p].step <= 3)
  BY <1>2, Scripts DEF Last
<1>6. req[p].op \in {"redeem", "redeemBare"} =>
        req[p].spent = {req[p].on} /\ req[p].on \in Codes /\ code[req[p].on].st = "fresh"
  BY <1>1, <1>5 DEF Kept, RedeemKept, RowsKept, OnKept
<1>7. req[p].op = "rotate" =>
        /\ req[p].on \in Tokens /\ req[p].revoked = {req[p].on} /\ tok[req[p].on].st = "live"
        /\ req[p].family = tok[req[p].on].family
  BY <1>1, <1>5 DEF Kept, RotateKept, OnKept
<1>8. Busy(p)
  BY <1>2 DEF Issuing, Busy
<1> QED BY <1>2, <1>3, <1>4, <1>6, <1>7, <1>8

\* The row a committing request inserts.
LEMMA InsertedRow ==
  ASSUME IInv, NEW p \in Requests, req[p].new \in Tokens, req[p].op # "redeemBare"
  PROVE  LET t == req[p].new IN
         /\ Inserted(p, t) \in TokenType /\ Inserted(p, t).st = "live"
         /\ Inserted(p, t).origin = OriginFor(req[p], t) /\ OriginFor(req[p], t) \in Origins
         /\ Inserted(p, t).family = (IF req[p].op = "rotate" THEN req[p].family ELSE t)
         /\ Inserted(p, t).family \in Tokens
         /\ Inserted(p, t).link = (IF req[p].op = "redeem" THEN req[p].on ELSE None)
<1> DEFINE t == req[p].new
<1>1. /\ t \in Tokens /\ req[p].op \in {"redeem", "rotate", "login"}
      /\ req[p].op = "redeem" => req[p].on \in Codes
      /\ req[p].op = "rotate" => req[p].on \in Tokens /\ tok[req[p].on].st = "live"
                                 /\ req[p].family = tok[req[p].on].family
  BY NewToken DEF Issuing
<1> HIDE DEF t
<1>2. req[p].op = "rotate" => req[p].family \in Tokens /\ tok[req[p].on].origin \in Origins
  BY <1>1 DEF IInv, Tables, RowKept
<1>3. OriginOf(p, t) = OriginFor(req[p], t)
  BY <1>1 DEF OriginOf, OriginFor
<1>4. OriginFor(req[p], t) \in Origins
  BY <1>1, <1>2 DEF OriginFor, Origins
<1> DEFINE f == IF req[p].op = "rotate" THEN req[p].family ELSE t
           l == IF req[p].op = "redeem" THEN req[p].on ELSE None
<1>5. f \in Tokens /\ l \in Codes \cup {None}
  BY <1>1, <1>2
<1>6. Inserted(p, t) = [st |-> "live", expired |-> FALSE, origin |-> OriginFor(req[p], t),
                        family |-> f, link |-> l]
  BY <1>3 DEF Inserted
<1>7. /\ Inserted(p, t) \in TokenType /\ Inserted(p, t).st = "live"
      /\ Inserted(p, t).origin = OriginFor(req[p], t) /\ OriginFor(req[p], t) \in Origins
      /\ Inserted(p, t).family = f /\ f \in Tokens /\ Inserted(p, t).link = l
  <2> HIDE DEF f, l
  <2> QED BY <1>4, <1>5, <1>6 DEF TokenType
<1> QED BY <1>7 DEF t

\* What the transaction of p makes of the tokens.
LEMMA CommitTokens ==
  ASSUME IInv, NEW p \in Requests, Commit(p), NEW t \in Tokens
  PROVE  /\ tok'[t] \in TokenType
         /\ tok[t].st # "none" =>
              /\ tok'[t].st # "none" /\ tok'[t].origin = tok[t].origin /\ tok'[t].family = tok[t].family
              /\ tok'[t].expired = tok[t].expired /\ t # req[p].new
              /\ tok'[t].st = "live" => tok[t].st = "live" /\ t \notin req[p].revoked
              /\ t \notin Rows(req[p]) => tok'[t].st = tok[t].st
              /\ req[p].dropped = {} => tok'[t].link = tok[t].link
              /\ tok'[t].link \in {tok[t].link, None}
              /\ t \notin req[p].dropped /\ Present(t) => tok'[t].st \in {"live", "revoked"}
              /\ tok[t].st = "gone" => tok'[t].st = "gone"
              /\ t \in req[p].revoked => tok'[t].st = "revoked"
         /\ tok[t].st = "none" /\ (t # req[p].new \/ req[p].op = "redeemBare") => tok'[t] = tok[t]
         /\ t = req[p].new /\ req[p].op # "redeemBare" => tok'[t] = Inserted(p, t)
<1>1. tok[t] \in TokenType /\ Kept(req[p]) /\ tok'[t] = Written(p, t)
  BY DEF IInv, TypeOK, Commit
<1>2. t = req[p].new => tok[t].st = "none"
  BY NewToken
<1>3. /\ t \in req[p].revoked => tok[t].st \in {"live", "revoked"}
      /\ t \in req[p].dropped => tok[t].st \in {"live", "revoked"}
      /\ t \in LinkedTo(req[p].dropped) => tok[t].st \in {"live", "revoked"} /\ req[p].dropped # {}
  BY <1>1 DEF Kept, RowsKept, Present, LinkedTo
<1>4. CASE t \in req[p].revoked
  <2>1. tok'[t] = [tok[t] EXCEPT !.st = "revoked"] /\ t \in Rows(req[p])
    BY <1>1, <1>4 DEF Written, Rows
  <2> QED BY <1>1, <1>2, <1>3, <1>4, <2>1 DEF TokenType
<1>5. CASE t \notin req[p].revoked /\ t \in req[p].dropped
  <2>1. tok'[t] = [tok[t] EXCEPT !.st = "gone"] /\ t \in Rows(req[p])
    BY <1>1, <1>5 DEF Written, Rows
  <2> QED BY <1>1, <1>2, <1>3, <1>5, <2>1 DEF TokenType
<1>6. CASE t \notin req[p].revoked /\ t \notin req[p].dropped /\ t \in LinkedTo(req[p].dropped)
  <2>1. tok'[t] = [tok[t] EXCEPT !.link = None]
    BY <1>1, <1>6 DEF Written
  <2> QED BY <1>1, <1>2, <1>3, <1>6, <2>1 DEF TokenType, Present
<1>7. CASE /\ t \notin req[p].revoked /\ t \notin req[p].dropped /\ t \notin LinkedTo(req[p].dropped)
           /\ t = req[p].new /\ req[p].op # "redeemBare"
  <2>1. tok'[t] = Inserted(p, t)
    BY <1>1, <1>7 DEF Written
  <2> QED BY <1>2, <1>7, <2>1, InsertedRow
<1>8. CASE /\ t \notin req[p].revoked /\ t \notin req[p].dropped /\ t \notin LinkedTo(req[p].dropped)
           /\ ~(t = req[p].new /\ req[p].op # "redeemBare")
  <2>1. tok'[t] = tok[t]
    BY <1>1, <1>8 DEF Written
  <2> QED BY <1>1, <1>2, <1>8, <2>1 DEF TokenType, Present
<1> QED BY <1>4, <1>5, <1>6, <1>7, <1>8

\* What it makes of the access tokens.
LEMMA CommitAccess ==
  ASSUME IInv, NEW p \in Requests, Commit(p), NEW t \in Tokens
  PROVE  /\ access'[t] \in AccessType /\ access'[t].keys = access[t].keys
         /\ access'[t].origin = access[t].origin /\ access'[t].denied = access[t].denied
         /\ t = req[p].new => access'[t].st = "issued"
         /\ t # req[p].new => access'[t] = access[t]
<1>1. access[t] \in AccessType
  BY DEF IInv, TypeOK
<1>2. access'[t] = IF t = req[p].new THEN [access[t] EXCEPT !.st = "issued"] ELSE access[t]
  BY DEF Commit
<1>3. CASE t = req[p].new
  <2>1. access'[t] = [access[t] EXCEPT !.st = "issued"]
    BY <1>2, <1>3
  <2> QED BY <1>1, <1>3, <2>1 DEF AccessType
<1>4. CASE t # req[p].new
  BY <1>1, <1>2, <1>4
<1> QED BY <1>3, <1>4

\* The new row belongs to no grant or family that has one, save in a rotation.
LEMMA NewGrant ==
  ASSUME IInv, NEW p \in Requests, req[p].new \in Tokens, req[p].op \in {"redeem", "login"},
         NEW u \in Tokens, tok[u].st # "none"
  PROVE  OriginFor(req[p], req[p].new) # tok[u].origin /\ tok[u].family # req[p].new
<1>1. RowKept(u)
  BY DEF IInv, Tables
<1>2. tok[req[p].new].st = "none"
  BY NewToken
<1>3. tok[u].family # req[p].new
  BY <1>1, <1>2 DEF RowKept
<1>4. CASE req[p].op = "redeem"
  <2>1. req[p].on \in Codes /\ code[req[p].on].st = "fresh"
    BY <1>4, NewToken
  <2> QED BY <1>1, <1>3, <1>4, <2>1 DEF RowKept, OriginFor
<1>5. CASE req[p].op = "login"
  BY <1>1, <1>2, <1>3, <1>5 DEF RowKept, OriginFor
<1> QED BY <1>4, <1>5

LEMMA CommitTables ==
  ASSUME IInv, NEW p \in Requests, Commit(p)
  PROVE  Tables'
<1> DEFINE n == req[p].new
           Made(t) == t = n /\ req[p].op # "redeemBare"
<1>1. ASSUME NEW t \in Tokens
      PROVE  tok'[t].st # "none" <=> tok[t].st # "none" \/ Made(t)
  BY CommitTokens, InsertedRow
<1>2. ASSUME NEW t \in Tokens, tok[t].st # "none"
      PROVE  tok'[t].origin = tok[t].origin /\ tok'[t].family = tok[t].family /\ ~Made(t)
  BY <1>2, CommitTokens
<1>3. ASSUME NEW t \in Tokens, Made(t)
      PROVE  /\ tok[t].st = "none" /\ tok'[t].st = "live" /\ tok'[t].origin = OriginFor(req[p], t)
             /\ tok'[t].origin \in Origins /\ tok'[t].family \in Tokens
             /\ tok'[t].family = (IF req[p].op = "rotate" THEN req[p].family ELSE t)
             /\ req[p].op \in {"redeem", "rotate", "login"}
  BY <1>3, CommitTokens, InsertedRow, NewToken DEF Issuing
<1>4. ASSUME NEW t \in Tokens, Made(t), req[p].op = "rotate"
      PROVE  /\ req[p].on \in Tokens /\ req[p].on \in req[p].revoked /\ tok[req[p].on].st = "live"
             /\ tok'[t].origin = tok[req[p].on].origin /\ tok'[t].family = tok[req[p].on].family
  BY <1>3, <1>4, NewToken DEF OriginFor
<1>5. ASSUME NEW t \in Tokens, Made(t), req[p].op # "rotate", NEW u \in Tokens, tok[u].st # "none"
      PROVE  tok'[t].origin # tok[u].origin /\ tok'[t].family # tok[u].family
  BY <1>3, <1>5, NewGrant
<1>6. \A c \in Codes : /\ code[c].st \in {"used", "gone"} => code'[c].st \in {"used", "gone"}
                       /\ c \in req[p].spent => code'[c].st = "used"
  BY CommitCodes
<1> HIDE DEF Made, n
<1>7. ASSUME NEW t \in Tokens PROVE RowKept(t)'
  <2>1. CASE tok[t].st # "none"
    <3>1. RowKept(t) /\ t # req[p].new
      BY <2>1, CommitTokens DEF IInv, Tables
    <3>2. access'[t].st = "issued"
      BY <2>1, <3>1, CommitAccess DEF RowKept
    <3> QED BY <1>1, <1>2, <1>6, <2>1, <3>1, <3>2 DEF RowKept
  <2>2. CASE Made(t)
    <3>1. access'[t].st = "issued"
      BY <2>2, CommitAccess DEF Made, n
    <3>2. CASE req[p].op = "rotate"
      <4>1. RowKept(req[p].on)
        BY <1>4, <2>2, <3>2 DEF IInv, Tables
      <4> QED BY <1>1, <1>3, <1>4, <1>6, <2>2, <3>1, <3>2, <4>1 DEF RowKept
    <3>3. CASE req[p].op = "redeem"
      <4>1. req[p].on \in req[p].spent /\ req[p].on \in Codes /\ tok'[t].origin = req[p].on
        BY <1>3, <2>2, <3>3, NewToken DEF OriginFor, Made, n
      <4> QED BY <1>1, <1>3, <1>6, <2>2, <3>1, <3>3, <4>1, Distinct DEF RowKept
    <3>4. CASE req[p].op = "login"
      <4>1. tok'[t].origin = t
        BY <1>3, <2>2, <3>4 DEF OriginFor
      <4> QED BY <1>1, <1>3, <2>2, <3>1, <3>4, <4>1, Distinct DEF RowKept
    <3> QED BY <1>3, <2>2, <3>2, <3>3, <3>4
  <2>3. CASE tok[t].st = "none" /\ ~Made(t)
    BY <1>1, <2>3 DEF RowKept
  <2> QED BY <2>1, <2>2, <2>3
<1>8. OneFamily'
  <2>1. SUFFICES ASSUME NEW t \in Tokens, NEW u \in Tokens, tok'[t].st # "none", tok'[u].st # "none"
                 PROVE  tok'[t].family = tok'[u].family <=> tok'[t].origin = tok'[u].origin
    BY DEF OneFamily
  <2>2. CASE tok[t].st # "none" /\ tok[u].st # "none"
    BY <1>2, <2>2 DEF IInv, Tables, OneFamily
  <2>3. CASE Made(t) /\ tok[u].st # "none"
    BY <1>2, <1>4, <1>5, <2>3 DEF IInv, Tables, OneFamily
  <2>4. CASE Made(u) /\ tok[t].st # "none"
    BY <1>2, <1>4, <1>5, <2>4 DEF IInv, Tables, OneFamily
  <2>5. CASE Made(t) /\ Made(u)
    BY <2>5 DEF Made
  <2> QED BY <1>1, <2>1, <2>2, <2>3, <2>4, <2>5
<1>9. OneLiveToken'
  <2>0. ASSUME NEW t \in Tokens, tok[t].st # "none", tok'[t].st = "live"
        PROVE  tok[t].st = "live" /\ t \notin req[p].revoked
    BY <2>0, CommitTokens
  <2>1. SUFFICES ASSUME NEW t \in Tokens, NEW u \in Tokens, tok'[t].st = "live", tok'[u].st = "live",
                        tok'[t].origin = tok'[u].origin
                 PROVE  t = u
    BY DEF OneLiveToken
  <2>2. CASE tok[t].st # "none" /\ tok[u].st # "none"
    BY <1>2, <2>0, <2>1, <2>2 DEF IInv, Tables, OneLiveToken
  <2>3. CASE Made(t) /\ tok[u].st # "none"
    BY <1>2, <1>4, <1>5, <2>0, <2>1, <2>3 DEF IInv, Tables, OneLiveToken
  <2>4. CASE Made(u) /\ tok[t].st # "none"
    BY <1>2, <1>4, <1>5, <2>0, <2>1, <2>4 DEF IInv, Tables, OneLiveToken
  <2>5. CASE Made(t) /\ Made(u)
    BY <2>5 DEF Made
  <2> QED BY <1>1, <2>1, <2>2, <2>3, <2>4, <2>5
<1>10. ASSUME NEW t \in Tokens, t = req[p].new, NEW c \in access'[t].keys \cap Codes
       PROVE  c = req[p].on /\ c \in req[p].spent /\ code[c].st = "fresh"
  <2>1. access'[t].keys = KeysFor(req[p], t)
    BY <1>10, CommitAccess, NewToken
  <2>2. req[p].op = "rotate" => req[p].family \in Tokens
    BY <1>10, NewToken DEF IInv, Tables, RowKept
  <2>3. c = req[p].on /\ req[p].op \in {"redeem", "redeemBare"}
    BY <1>10, <2>1, <2>2, Distinct DEF KeysFor
  <2> QED BY <1>10, <2>3, NewToken
<1>11. ASSUME NEW t \in Tokens, t # req[p].new PROVE access'[t] = access[t]
  BY <1>11, CommitAccess
<1>12. SpentKeys'
  <2>1. SUFFICES ASSUME NEW t \in Tokens, access'[t].st = "issued", NEW c \in access'[t].keys \cap Codes
                 PROVE  code'[c].st \in {"used", "gone"}
    BY DEF SpentKeys
  <2>2. CASE t = req[p].new
    BY <1>6, <1>10, <2>1, <2>2
  <2>3. CASE t # req[p].new
    BY <1>6, <1>11, <2>1, <2>3 DEF IInv, Tables, SpentKeys
  <2> QED BY <2>2, <2>3
<1>13. RedeemedOnce'
  <2>1. SUFFICES ASSUME NEW t \in Tokens, NEW u \in Tokens, NEW c \in access'[t].keys \cap access'[u].keys \cap Codes,
                        access'[t].st = "issued", access'[u].st = "issued"
                 PROVE  t = u
    BY DEF RedeemedOnce
  <2>2. ASSUME NEW v \in Tokens, v # req[p].new, access'[v].st = "issued", c \in access'[v].keys
        PROVE  code[c].st \in {"used", "gone"}
    BY <1>11, <2>1, <2>2 DEF IInv, Tables, SpentKeys
  <2>3. CASE t # req[p].new /\ u # req[p].new
    BY <1>11, <2>1, <2>3 DEF IInv, Tables, RedeemedOnce
  <2>4. CASE t = req[p].new /\ u # req[p].new
    BY <1>10, <2>1, <2>2, <2>4
  <2>5. CASE u = req[p].new /\ t # req[p].new
    BY <1>10, <2>1, <2>2, <2>5
  <2> QED BY <2>3, <2>4, <2>5
<1> QED BY <1>7, <1>8, <1>9, <1>12, <1>13 DEF Tables

\* A request whose rows nobody touched keeps what it had.
LEMMA OtherKept ==
  ASSUME IInv, NEW q \in Requests, req'[q] = req[q],
         \A c \in Codes : code[c].st # "none" => code'[c].st # "none",
         \A t \in Tokens : tok[t].st # "none" =>
           tok'[t].st # "none" /\ tok'[t].family = tok[t].family /\ tok'[t].origin = tok[t].origin,
         \A c \in Codes \cap Rows(req[q]) : code'[c].st = code[c].st,
         \A t \in Tokens \cap Rows(req[q]) : tok'[t].st = tok[t].st,
         req[q].new \in Codes => code'[req[q].new].st = code[req[q].new].st,
         req[q].new \in Tokens => /\ access'[req[q].new].st = access[req[q].new].st
                                  /\ access'[req[q].new].origin = access[req[q].new].origin
                                  /\ access'[req[q].new].keys = access[req[q].new].keys
  PROVE  Kept(req[q])'
<1>1. Kept(req[q]) /\ req[q] \in RequestType
  BY DEF IInv, TypeOK
<1>2. req[q].spent \subseteq Codes /\ req[q].revoked \subseteq Tokens /\ req[q].dropped \subseteq Origins
  BY <1>1 DEF RequestType
<1>3. IdleKept(req[q])' /\ SeenKept(req[q])' /\ RedeemKept(req[q])' /\ Rows(req[q])' = Rows(req[q])
  BY <1>1 DEF Kept, IdleKept, SeenKept, RedeemKept, Rows
<1>4. OnKept(req[q])'
  BY <1>1 DEF Kept, OnKept
<1>5. RowsKept(req[q])'
  <2>1. \A c \in req[q].spent : code'[c].st = "fresh"
    BY <1>1, <1>2 DEF Kept, RowsKept, Rows
  <2>2. \A t \in req[q].revoked : tok'[t].st \in {"live", "revoked"}
    BY <1>1, <1>2 DEF Kept, RowsKept, Rows, Present
  <2>3. \A x \in req[q].dropped : IF x \in Tokens THEN tok'[x].st \in {"live", "revoked"}
                                  ELSE code'[x].st \in {"fresh", "used"}
    BY <1>1, <1>2 DEF Kept, RowsKept, Rows, Present, Stored, Origins
  <2> QED BY <2>1, <2>2, <2>3 DEF RowsKept, Present, Stored
<1>6. RotateKept(req[q])'
  BY <1>1, <1>2 DEF Kept, RotateKept, Rows
<1>7. NewKept(req[q])'
  <2>1. OriginFor(req[q], req[q].new)' = OriginFor(req[q], req[q].new)
    BY <1>1 DEF Kept, OnKept, OriginFor
  <2>2. KeysFor(req[q], req[q].new)' = KeysFor(req[q], req[q].new) /\ (Last(req[q])' <=> Last(req[q]))
    BY DEF KeysFor, Last
  <2> QED BY <1>1, <1>3, <2>1, <2>2 DEF Kept, NewKept
<1> QED BY <1>3, <1>4, <1>5, <1>6, <1>7 DEF Kept

\* The request as the commit leaves it: the next statement, with nothing held.
LEMMA CommitRequest ==
  ASSUME IInv, NEW p \in Requests, Commit(p)
  PROVE  /\ req'[p] \in RequestType /\ \A q \in Requests \ {p} : req'[q] = req[q]
         /\ req' \in [Requests -> RequestType]
         /\ Rows(req[p])' = {} /\ req'[p].new = None /\ req'[p].held = {}
         /\ \/ req'[p] = Idle /\ ended' = ended \cup req[p].scope
               /\ ~(req[p].step < Len(Script[req[p].op]))
            \/ /\ req[p].step < Len(Script[req[p].op])
               /\ req'[p].op = req[p].op /\ req[p].op \in Ops /\ req'[p].step = req[p].step + 1
               /\ req'[p].step \in 1..Len(Script[req[p].op])
               /\ req'[p].on = req[p].on /\ req'[p].family = req[p].family
               /\ req'[p].scope = req[p].scope /\ req'[p].seen = req[p].seen
               /\ req'[p].spent = {} /\ req'[p].revoked = {}
               /\ ended' = ended
               /\ req[p].op \in {"replayCode", "replayToken", "logout", "passwordChange", "reset"}
<1> DEFINE r == [req[p] EXCEPT !.spent = {}, !.revoked = {}, !.dropped = {}, !.new = None, !.held = {}]
           a == After(r)
<1>1. /\ Busy(p) /\ Stmt(p) = "commit" /\ req[p] \in RequestType /\ req \in [Requests -> RequestType]
      /\ req[p].op \in Ops /\ req[p].step \in 1..Len(Script[req[p].op])
      /\ req[p].step \in Nat /\ Len(Script[req[p].op]) \in Nat
  BY AtPlace, Lengths DEF Commit, At, IInv, TypeOK, RequestType
<1>2. req' = [req EXCEPT ![p] = a] /\ ended' = IF a = Idle THEN ended \cup req[p].scope ELSE ended
  BY DEF Commit
<1>3. /\ r \in RequestType /\ r.op = req[p].op /\ r.step = req[p].step /\ r.on = req[p].on
      /\ r.new = None /\ r.family = req[p].family /\ r.held = {} /\ r.seen = req[p].seen
      /\ r.revoked = {} /\ r.spent = {} /\ r.dropped = {} /\ r.scope = req[p].scope
  BY <1>1 DEF RequestType
<1> HIDE DEF r
<1>4. CASE ~(req[p].step < Len(Script[req[p].op]))
  <2>1. a = Idle
    BY <1>3, <1>4, AfterLast
  <2>2. req'[p] = Idle /\ (\A q \in Requests \ {p} : req'[q] = req[q]) /\ req' \in [Requests -> RequestType]
    BY <1>1, <1>2, <2>1, IdleTyped
  <2> QED BY <1>2, <1>4, <2>1, <2>2, IdleTyped DEF Rows
<1>5. CASE req[p].step < Len(Script[req[p].op])
  <2>1. /\ a \in RequestType /\ a.step = req[p].step + 1
        /\ a.op = req[p].op /\ a.on = req[p].on /\ a.family = req[p].family /\ a.seen = req[p].seen
        /\ a.spent = {} /\ a.revoked = {} /\ a.scope = req[p].scope
        /\ a.dropped = {} /\ a.new = None /\ a.held = {}
    BY <1>1, <1>3, <1>5, AfterNext
  <2>2. a # Idle
    BY <1>1, <2>1, IdleTyped
  <2> HIDE DEF a
  <2>3. req'[p] = a /\ (\A q \in Requests \ {p} : req'[q] = req[q]) /\ req' \in [Requests -> RequestType]
    BY <1>1, <1>2, <2>1
  <2>4. a.step \in 1..Len(Script[req[p].op])
    BY <1>1, <1>5, <2>1
  <2>5. req[p].op \in {"replayCode", "replayToken", "logout", "passwordChange", "reset"}
    <3>1. \/ req[p].step = 2 /\ req[p].op \in {"mint", "burnCode", "burnToken"}
          \/ req[p].step = 3 /\ req[p].op \in {"redeemBare", "login", "purgeTokens", "purgeCodes"}
          \/ req[p].step = 4 /\ req[p].op \in {"redeem", "replayToken", "endFamily", "revokeClient"}
          \/ req[p].step = 5 /\ req[p].op \in {"replayCode", "logout"}
          \/ req[p].step = 6 /\ req[p].op \in {"rotate", "passwordChange", "reset", "revokeConsent"}
          \/ req[p].step = 8 /\ req[p].op = "logout"
          \/ req[p].step = 11 /\ req[p].op \in {"passwordChange", "reset"}
          \/ req[p].step = 12 /\ req[p].op = "logout"
      BY <1>1, AtPlace DEF Stmt, Place, IInv
    <3> DEFINE n == Len(Script[req[p].op])
    <3>2. /\ req[p].op \in {"mint", "burnCode", "burnToken"} => n = 2
          /\ req[p].op \in {"redeemBare", "login", "purgeTokens", "purgeCodes"} => n = 3
          /\ req[p].op \in {"redeem", "endFamily", "revokeClient"} => n = 4
          /\ req[p].op \in {"rotate", "revokeConsent"} => n = 6
      BY Scripts
    <3> HIDE DEF n
    <3>3. req[p].step < n
      BY <1>5 DEF n
    <3> QED BY <3>1, <3>2, <3>3
  <2>6. Rows(req[p])' = {}
    BY <2>1, <2>3 DEF Rows
  <2> QED BY <1>1, <1>2, <1>5, <2>1, <2>2, <2>3, <2>4, <2>5, <2>6
<1> QED BY <1>4, <1>5

LEMMA CommitStep ==
  ASSUME IInv, NEW p \in Requests, Commit(p), load' = load PROVE IInv'
<1>1. Tables'
  BY CommitTables
<1>2. TypeOK'
  <2>1. load' \in Loads /\ session' \subseteq Sessions /\ begun' \in 0..load'.begins
        /\ replayed' \subseteq Origins
    BY DEF Commit, IInv, TypeOK
  <2>2. code' \in [Codes -> CodeType]
    <3>1. code' = [x \in Codes |-> code'[x]]
      BY DEF Commit
    <3>2. \A x \in Codes : code'[x] \in CodeType
      BY CommitCodes
    <3> QED BY <3>1, <3>2
  <2>3. tok' \in [Tokens -> TokenType]
    <3>1. tok' = [x \in Tokens |-> tok'[x]]
      BY DEF Commit
    <3>2. \A x \in Tokens : tok'[x] \in TokenType
      BY CommitTokens
    <3> QED BY <3>1, <3>2
  <2>4. access' \in [Tokens -> AccessType]
    <3>1. access' = [x \in Tokens |-> access'[x]]
      BY DEF Commit
    <3>2. \A x \in Tokens : access'[x] \in AccessType
      BY CommitAccess
    <3> QED BY <3>1, <3>2
  <2>5. req' \in [Requests -> RequestType]
    BY CommitRequest
  <2>6. ASSUME NEW q \in Requests, req'[q].op # "idle"
        PROVE  req'[q].step \in 1..Len(Script[req'[q].op])
    <3>1. CASE q = p
      BY <2>6, <3>1, CommitRequest, IdleTyped
    <3>2. CASE q # p
      BY <2>6, <3>2, CommitRequest DEF IInv, TypeOK, Busy
    <3> QED BY <3>1, <3>2
  <2>7. ended' \subseteq Sessions \cup Origins
    <3>1. req[p].scope \subseteq Sessions \cup Origins
      BY DEF IInv, TypeOK, RequestType
    <3> QED BY <3>1, CommitRequest DEF IInv, TypeOK
  <2> QED BY <2>1, <2>2, <2>3, <2>4, <2>5, <2>6, <2>7 DEF TypeOK, Busy
<1>3. ASSUME NEW q \in Requests \ {p} PROVE Kept(req[q])'
  <2>1. Kept(req[q]) /\ Compatible(req[q], req[p]) /\ Kept(req[p])
    BY DEF IInv
  <2>2. \A c \in Codes : code[c].st # "none" => code'[c].st # "none"
    BY CommitCodes
  <2>3. \A t \in Tokens : tok[t].st # "none" =>
           tok'[t].st # "none" /\ tok'[t].family = tok[t].family /\ tok'[t].origin = tok[t].origin
    BY CommitTokens
  <2>4. \A c \in Codes \cap Rows(req[q]) : code'[c].st = code[c].st
    <3>1. SUFFICES ASSUME NEW c \in Codes \cap Rows(req[q]) PROVE code'[c].st = code[c].st
      OBVIOUS
    <3>2. c \notin Rows(req[p])
      BY <2>1 DEF Compatible
    <3>3. code[c].st # "none"
      BY <2>1, Distinct DEF Kept, RowsKept, Rows, Stored, IInv, TypeOK, RequestType
    <3> QED BY <3>2, <3>3, CommitCodes
  <2>5. \A t \in Tokens \cap Rows(req[q]) : tok'[t].st = tok[t].st
    <3>1. SUFFICES ASSUME NEW t \in Tokens \cap Rows(req[q]) PROVE tok'[t].st = tok[t].st
      OBVIOUS
    <3>2. t \notin Rows(req[p])
      BY <2>1 DEF Compatible
    <3>3. tok[t].st # "none"
      BY <2>1, Distinct DEF Kept, RowsKept, Rows, Present, IInv, TypeOK, RequestType
    <3> QED BY <3>2, <3>3, CommitTokens
  <2>6. req[q].new \in Codes => code'[req[q].new].st = code[req[q].new].st
    <3>1. SUFFICES ASSUME req[q].new \in Codes PROVE code'[req[q].new] = code[req[q].new]
      OBVIOUS
    <3>2. req[q].new # req[p].new
      BY <2>1, <3>1, Distinct DEF Compatible
    <3>3. code[req[q].new].st = "none"
      BY <2>1, <3>1 DEF Kept, NewKept
    <3>4. req[q].new \notin Rows(req[p])
      BY <2>1, <3>1, <3>3, Distinct DEF Kept, RowsKept, Rows, Stored, IInv, TypeOK, RequestType
    <3> QED BY <3>1, <3>2, <3>4, CommitCodes
  <2>7. req[q].new \in Tokens => access'[req[q].new] = access[req[q].new]
    <3>1. req[q].new \in Tokens => req[q].new # req[p].new
      BY <2>1, Distinct DEF Compatible
    <3> QED BY <3>1, CommitAccess
  <2>8. req'[q] = req[q]
    BY CommitRequest
  <2> QED BY <2>2, <2>3, <2>4, <2>5, <2>6, <2>7, <2>8, OtherKept
<1>4. Kept(req[p])'
  <2>1. Kept(req[p])
    BY DEF IInv
  <2>2. IdleKept(req[p])' /\ RowsKept(req[p])'
    BY CommitRequest DEF IdleKept, RowsKept, Rows
  <2>3. OnKept(req[p])'
    <3>1. CASE req'[p] = Idle
      BY <3>1, IdleTyped DEF OnKept
    <3>2. CASE /\ req'[p].op = req[p].op /\ req'[p].on = req[p].on /\ req'[p].family = req[p].family
               /\ req'[p].scope = req[p].scope
      <4>1. \A c \in Codes : code[c].st # "none" => code'[c].st # "none"
        BY CommitCodes
      <4>2. \A t \in Tokens : tok[t].st # "none" => tok'[t].st # "none" /\ tok'[t].family = tok[t].family
        BY CommitTokens
      <4> QED BY <2>1, <3>2, <4>1, <4>2 DEF OnKept, Kept
    <3> QED BY <3>1, <3>2, CommitRequest
  <2>4. RedeemKept(req[p])' /\ RotateKept(req[p])'
    BY CommitRequest, IdleTyped DEF RedeemKept, RotateKept
  <2>5. NewKept(req[p])'
    BY CommitRequest, IdleTyped, Distinct DEF NewKept
  <2>6. SeenKept(req[p])'
    <3>1. CASE req'[p] = Idle
      BY <3>1, IdleTyped DEF SeenKept
    <3>2. CASE /\ req[p].step < Len(Script[req[p].op]) /\ req'[p].op = req[p].op
               /\ req'[p].step = req[p].step + 1
      <4>1. Script[req[p].op][req[p].step] = "commit"
        BY DEF Commit, At, Stmt
      <4>2. req[p].op \in Ops /\ req[p].step \in 1..Len(Script[req[p].op])
        BY AtPlace DEF Commit, At, IInv
      <4> QED BY <3>2, <4>1, <4>2, Before DEF SeenKept
    <3> QED BY <3>1, <3>2, CommitRequest
  <2> QED BY <2>2, <2>3, <2>4, <2>5, <2>6 DEF Kept
<1>5. \A q, s \in Requests : q # s => Compatible(req'[q], req'[s])
  <2>1. \A q \in Requests \ {p} : Compatible(req'[p], req'[q]) /\ Compatible(req'[q], req'[p])
    BY CommitRequest DEF Compatible, Rows
  <2>2. \A q, s \in Requests \ {p} : q # s => Compatible(req'[q], req'[s])
    BY CommitRequest DEF IInv
  <2> QED BY <2>1, <2>2
<1> QED BY <1>1, <1>2, <1>3, <1>4, <1>5 DEF IInv, Compatible

\* The denylist is written after the commit: no row changes.
LEMMA DenyStep ==
  ASSUME IInv, NEW p \in Requests, revokeGrantAccessTokens(p), load' = load PROVE IInv'
<1>1. /\ req' = [req EXCEPT ![p] = Idle] /\ UNCHANGED <<load, session, code, tok, begun>>
      /\ ended' = ended \cup req[p].scope /\ replayed' = replayed \cup req[p].scope
      /\ Busy(p) /\ Stmt(p) = "deny"
  BY DEF revokeGrantAccessTokens, At
<1>2. /\ req'[p] = Idle /\ \A q \in Requests \ {p} : req'[q] = req[q]
      /\ req' \in [Requests -> RequestType]
  BY <1>1, IdleTyped DEF IInv, TypeOK
<1>3. ASSUME NEW t \in Tokens
      PROVE  /\ access'[t] \in AccessType /\ access'[t].st = access[t].st
             /\ access'[t].keys = access[t].keys /\ access'[t].origin = access[t].origin
  <2>1. access[t] \in AccessType
    BY DEF IInv, TypeOK
  <2>2. access'[t] = access[t] \/ access'[t] = [access[t] EXCEPT !.denied = TRUE]
    BY DEF revokeGrantAccessTokens
  <2> QED BY <2>1, <2>2 DEF AccessType
<1>4. access' \in [Tokens -> AccessType]
  <2>1. access' = [t \in Tokens |-> access'[t]]
    BY DEF revokeGrantAccessTokens
  <2> QED BY <1>3, <2>1
<1>5. req[p].scope \subseteq Origins
  <2>1. req[p].op \in {"replayCode", "replayToken"} /\ Kept(req[p])
    BY <1>1, AtPlace DEF IInv, Stmt, Place
  <2> QED BY <2>1 DEF Kept, OnKept
<1>6. TypeOK'
  <2>1. \A q \in Requests : req'[q].op # "idle" => req'[q].step \in 1..Len(Script[req'[q].op])
    BY <1>2, IdleTyped DEF IInv, TypeOK, Busy
  <2> QED BY <1>1, <1>2, <1>4, <1>5, <2>1 DEF IInv, TypeOK, Busy
<1>7. Tables'
  BY <1>1, <1>3 DEF IInv, Tables, RowKept, OneFamily, SpentKeys, OneLiveToken, RedeemedOnce
<1>8. ASSUME NEW q \in Requests PROVE Kept(req[q])'
  <2>1. CASE q = p
    <3>1. req'[q] = Idle
      BY <1>2, <2>1
    <3> QED BY <3>1, IdleTyped, Distinct DEF Kept, IdleKept, OnKept, SeenKept, RowsKept, RedeemKept,
                                             RotateKept, NewKept
  <2>2. CASE q # p
    <3>1. req'[q] = req[q]
      BY <1>2, <2>2
    <3> QED BY <1>1, <1>3, <3>1, OtherKept
  <2> QED BY <2>1, <2>2
<1>9. \A q, s \in Requests : q # s => Compatible(req'[q], req'[s])
  <2>1. \A q \in Requests \ {p} : Compatible(req'[p], req'[q]) /\ Compatible(req'[q], req'[p])
    BY <1>2, IdleTyped DEF Compatible
  <2>2. \A q, s \in Requests \ {p} : q # s => Compatible(req'[q], req'[s])
    BY <1>2 DEF IInv
  <2> QED BY <2>1, <2>2
<1> QED BY <1>6, <1>7, <1>8, <1>9 DEF IInv, Compatible

\* Time changes no more than the expiry of a row.
LEMMA ExpireStep ==
  ASSUME IInv, NEW x \in Codes \cup Tokens, Expire(x), load' = load PROVE IInv'
<1>1. UNCHANGED <<session, access, req, begun, ended, replayed>>
  BY DEF Expire
<1>2. ASSUME NEW c \in Codes
      PROVE  code'[c] \in CodeType /\ code'[c].st = code[c].st /\ code'[c].session = code[c].session
  <2>1. code \in [Codes -> CodeType] /\ code[c] \in CodeType
    BY DEF IInv, TypeOK
  <2>2. code'[c] = code[c] \/ code'[c] = [code[c] EXCEPT !.expired = TRUE]
    BY <2>1 DEF Expire
  <2> QED BY <2>1, <2>2 DEF CodeType
<1>3. ASSUME NEW t \in Tokens
      PROVE  /\ tok'[t] \in TokenType /\ tok'[t].st = tok[t].st /\ tok'[t].family = tok[t].family
             /\ tok'[t].origin = tok[t].origin /\ tok'[t].link = tok[t].link
  <2>1. tok \in [Tokens -> TokenType] /\ tok[t] \in TokenType
    BY DEF IInv, TypeOK
  <2>2. tok'[t] = tok[t] \/ tok'[t] = [tok[t] EXCEPT !.expired = TRUE]
    BY <2>1 DEF Expire
  <2> QED BY <2>1, <2>2 DEF TokenType
<1>4. code' \in [Codes -> CodeType] /\ tok' \in [Tokens -> TokenType]
  <2>1. code' = [c \in Codes |-> code'[c]] /\ tok' = [t \in Tokens |-> tok'[t]]
    BY DEF Expire, IInv, TypeOK
  <2> QED BY <1>2, <1>3, <2>1
<1>5. TypeOK'
  BY <1>1, <1>4 DEF IInv, TypeOK, Busy
<1>6. Tables'
  BY <1>1, <1>2, <1>3 DEF IInv, Tables, RowKept, OneFamily, SpentKeys, OneLiveToken, RedeemedOnce
<1>7. ASSUME NEW q \in Requests PROVE Kept(req[q])'
  BY <1>1, <1>2, <1>3, OtherKept
<1> QED BY <1>1, <1>5, <1>6, <1>7 DEF IInv, Compatible, Rows

LEMMA FailsStep ==
  ASSUME IInv, NEW p \in Requests, Fails(p), load' = load PROVE IInv'
BY IdleStep DEF Fails
-------------------------------------------------------------------------
LEMMA InitIInv == Init => IInv
<1> SUFFICES ASSUME Init PROVE IInv
  OBVIOUS
<1>1. TypeOK
  <2>1. load.begins \in Nat
    BY GrantsAssumption DEF Init
  <2>2. NoCode \in CodeType /\ NoToken \in TokenType /\ NoAccess \in AccessType
    BY DEF NoCode, NoToken, NoAccess, CodeType, TokenType, AccessType
  <2>3. \A p \in Requests : req[p] = Idle
    BY DEF Init
  <2> QED BY <2>1, <2>2, <2>3, IdleTyped DEF Init, TypeOK, Busy
<1>2. Tables
  <2>1. \A t \in Tokens : tok[t].st = "none" /\ access[t].st = "none"
    BY DEF Init, NoToken, NoAccess
  <2> QED BY <2>1 DEF Tables, RowKept, OneFamily, SpentKeys, OneLiveToken, RedeemedOnce
<1>3. \A p \in Requests : req[p] = Idle
  BY DEF Init
<1>4. \A p \in Requests : Kept(req[p])
  BY <1>3, IdleTyped, Distinct DEF Kept, IdleKept, OnKept, SeenKept, RowsKept, RedeemKept, RotateKept, NewKept
<1>5. \A p, q \in Requests : Compatible(req[p], req[q])
  BY <1>3, IdleTyped DEF Compatible
<1> QED BY <1>1, <1>2, <1>4, <1>5 DEF IInv

LEMMA NextIInv == IInv /\ [Next]_vars => IInv'
<1> SUFFICES ASSUME IInv, [Next]_vars PROVE IInv'
  OBVIOUS
<1>1. CASE UNCHANGED vars
  <2>1. TypeOK' /\ Tables'
    BY <1>1 DEF vars, IInv, TypeOK, Busy, Tables, RowKept, OneFamily, SpentKeys, OneLiveToken, RedeemedOnce
  <2>2. ASSUME NEW q \in Requests PROVE Kept(req[q])'
    BY <1>1, OtherKept DEF vars
  <2> QED BY <1>1, <2>1, <2>2 DEF vars, IInv, Compatible, Rows
<1>2. CASE Next
  <2>1. load' = load
    BY <1>2 DEF Next
  <2>2. ASSUME NEW x \in Codes \cup Tokens, Expire(x) PROVE IInv'
    BY <2>1, <2>2, ExpireStep
  <2>3. ASSUME NEW p \in Requests, Step(p) PROVE IInv'
    <3>1. CASE \/ \E c \in Codes : handleAuthorizationCode(p, c)
               \/ \E s \in Sessions : changePassword(p, s)
               \/ \E t \in Tokens : handleRefreshToken(p, t) \/ tryRevokeRefreshToken(p, t)
               \/ Arrive(p)
      BY <2>1, <3>1, ArrivalStep
    <3>2. CASE \E c \in Codes, s \in Sessions : mintAuthorizationCode(p, s, c)
      BY <2>1, <3>2, MintStep
    <3>3. CASE LockTokens(p)
      BY <2>1, <3>3, LockTokensStep
    <3>4. CASE ShareSession(p)
      BY <2>1, <3>4, ShareSessionStep
    <3>5. CASE FindFamily(p)
      BY <2>1, <3>5, FindFamilyStep
    <3>6. CASE Snapshot(p)
      BY <2>1, <3>6, SnapshotStep
    <3>7. CASE SpendCode(p)
      BY <2>1, <3>7, SpendCodeStep
    <3>8. CASE SpendToken(p)
      BY <2>1, <3>8, SpendTokenStep
    <3>9. CASE RevokeById(p)
      BY <2>1, <3>9, RevokeByIdStep
    <3>10. CASE EndSeen(p)
      BY <2>1, <3>10, EndSeenStep
    <3>11. CASE VoidSeen(p)
      BY <2>1, <3>11, VoidSeenStep
    <3>12. CASE RevokeSeen(p)
      BY <2>1, <3>12, RevokeSeenStep
    <3>13. CASE DeleteSeen(p)
      BY <2>1, <3>13, DeleteSeenStep
    <3>14. CASE Insert(p)
      BY <2>1, <3>14, InsertStep
    <3>15. CASE Sign(p)
      BY <2>1, <3>15, SignStep
    <3>16. CASE Commit(p)
      BY <2>1, <3>16, CommitStep
    <3>17. CASE revokeGrantAccessTokens(p)
      BY <2>1, <3>17, DenyStep
    <3>18. CASE Fails(p)
      BY <2>1, <3>18, FailsStep
    <3> QED BY <2>3, <3>1, <3>2, <3>3, <3>4, <3>5, <3>6, <3>7, <3>8, <3>9, <3>10, <3>11, <3>12, <3>13,
               <3>14, <3>15, <3>16, <3>17, <3>18 DEF Step
  <2> QED BY <1>2, <2>2, <2>3 DEF Next
<1> QED BY <1>1, <1>2

\* Every reachable state is in the invariant: what a transaction has spent,
\* revoked or dropped is as it was, nobody else's, and hidden until it commits
\* (spendCode, spendToken, revokeSeen).
THEOREM Invariant == Spec => []IInv
<1>1. Init => IInv
  BY InitIInv
<1>2. IInv /\ [Next]_vars => IInv'
  BY NextIInv
<1> QED BY <1>1, <1>2, PTL DEF Spec

\* The type invariant of the token endpoint's tables and requests.
THEOREM TypesKept == Spec => []TypeOK
<1>1. IInv => TypeOK
  BY DEF IInv
<1> QED BY <1>1, Invariant, PTL

\* Of one grant at most one refresh token can be rotated, whatever redemptions,
\* rotations, replays, revocations, purges and failures interleave: markUsed and
\* revokeIfActive let one transaction spend a row, and its uncommitted write
\* keeps every other transaction off it.
THEOREM OneTokenPerGrant == Spec => []OneLiveToken
<1>1. IInv => OneLiveToken
  BY DEF IInv, Tables
<1> QED BY <1>1, Invariant, PTL

\* However many redemptions of a code race, one access token is issued for it:
\* the code is spent in the transaction that signs the token.
THEOREM CodesRedeemedOnce == Spec => []RedeemedOnce
<1>1. IInv => RedeemedOnce
  BY DEF IInv, Tables
<1> QED BY <1>1, Invariant, PTL

----------------------------------------------------------------------------
(* What was ended stays ended, and a replay denies every access token of   *)
(* its grant.  The tables are arguments of the definitions, so that one    *)
(* lemma can speak of the tables before a step and after it.               *)


\* No reset and no purge runs, and the sweeps that pass over expired tokens
\* (revokeAllForUser) meet none.
Steady ==
  /\ RowsStay /\ "reset" \notin load.kinds
  /\ load.expiring \cap Tokens = {} \/ load.kinds \cap {"logout", "passwordChange"} = {}

\* A set of grants and sessions covers its grants and the codes of its sessions.
Covered(cd, S, o) == o \in S \/ (o \in Codes /\ cd[o].st # "none" /\ cd[o].session \in S)

Fresh(cd, S) == {c \in Codes : cd[c].st = "fresh" /\ Covered(cd, S, c)}

Live(cd, tk, S) == {t \in Tokens : tk[t].st = "live" /\ Covered(cd, S, tk[t].origin)}

Known(cd, tk, S) ==
  /\ \A c \in S \cap Codes : cd[c].st # "none"
  /\ \A t \in S \cap Tokens : tk[t].st # "none"

\* Nothing covered can be redeemed or rotated, nor a covered code be minted.
Over(cd, tk, ss, S) ==
  Known(cd, tk, S) /\ S \cap ss = {} /\ Fresh(cd, S) = {} /\ Live(cd, tk, S) = {}

Sweeping == {"replayCode", "replayToken", "endFamily", "revokeClient", "revokeConsent", "logout",
             "passwordChange"}

\* The sweeps that find every live token: those of revokeAllForUser only when
\* no token expires.
Sure(ld) ==
  Sweeping \ (IF ld.expiring \cap Tokens = {} THEN {} ELSE {"logout", "passwordChange"})

\* The statements of a sweep that void codes (0: it has none to void), take
\* the advisory lock, and revoke the tokens seen.
VoidAt(op) ==
  IF op = "logout" THEN 7 ELSE IF op \in {"passwordChange", "revokeConsent"} THEN 2 ELSE 0

LockAt(op) ==
  IF op = "logout" THEN 9 ELSE IF op \in {"passwordChange", "revokeConsent"} THEN 3 ELSE 1

RevokeAt(op) ==
  IF op = "logout" THEN 11 ELSE IF op \in {"passwordChange", "revokeConsent"} THEN 5
  ELSE IF op = "replayCode" THEN 4 ELSE 3

\* The lock that keeps rotations out.
Excludes(r) == <<IF r.op = "revokeClient" THEN "client" ELSE "user", "exclusive">> \in r.held

\* A logout has seen, then locked, then ended the sessions of its scope.
SessionsSwept(ss, r) ==
  IF r.op # "logout" THEN r.scope \subseteq Origins
  ELSE /\ r.step = 2 => r.scope \cap ss \subseteq r.seen
       /\ r.step \in 3..5 => \A s \in r.scope \cap ss : <<s, "exclusive">> \in r.held
       /\ r.step >= 6 => r.scope \cap ss = {}

\* The covered codes that are still fresh were seen, and then voided.
CodesSwept(cd, r) ==
  /\ r.step = VoidAt(r.op) => Fresh(cd, r.scope) \subseteq r.seen
  /\ r.step > VoidAt(r.op) => Fresh(cd, r.scope) \subseteq r.spent

\* The covered tokens that are still live were seen under the lock, then
\* revoked, and once that is committed there are none.
TokensSwept(cd, tk, r) ==
  /\ r.step > LockAt(r.op) /\ r.step <= RevokeAt(r.op) + 1 =>
       Excludes(r) \/ Live(cd, tk, r.scope) = {}
  /\ r.step = RevokeAt(r.op) => Live(cd, tk, r.scope) \subseteq r.seen
  /\ r.step = RevokeAt(r.op) + 1 => Live(cd, tk, r.scope) \subseteq r.revoked
  /\ r.step > RevokeAt(r.op) + 1 => Live(cd, tk, r.scope) = {} /\ Fresh(cd, r.scope) = {}

Swept(ld, cd, tk, ss, r) ==
  r.op \in Sure(ld) =>
    /\ Known(cd, tk, r.scope) /\ SessionsSwept(ss, r) /\ CodesSwept(cd, r) /\ TokensSwept(cd, tk, r)

\* What else a request is known to hold.
Held(ld, ss, r) ==
  /\ r.op \in {"logout", "passwordChange", "reset", "purgeCodes", "purgeTokens"} => r.op \in ld.kinds
  /\ r.op \notin Sweeping \cup {"reset"} => r.scope = {}
  /\ r.dropped = {}
  /\ r.op = "logout" => r.on = None
  /\ r.op = "mint" /\ r.step = 2 => r.on \in ss /\ <<r.on, "shared">> \in r.held
  /\ r.op = "rotate" /\ r.step >= 2 => <<"user", "shared">> \in r.held
  /\ r.op = "rotate" /\ r.step >= 3 => <<"client", "shared">> \in r.held

\* A replay is about the grant it read, and knows its family.
Replay(tk, r) ==
  /\ r.op = "replayCode" => r.scope = {r.on}
  /\ r.op \in {"replayToken", "endFamily"} => r.scope = {tk[r.on].origin}
  /\ r.op = "replayCode" /\ r.step >= 3 =>
       \A t \in Tokens : tk[t].st # "none" /\ tk[t].origin = r.on => tk[t].family = r.family

Good(ld, cd, tk, ss, r) == Held(ld, ss, r) /\ Replay(tk, r) /\ Swept(ld, cd, tk, ss, r)

\* Without purges the first token of a code keeps its link to it.
Links(tk) ==
  /\ \A t \in Tokens : tk[t].st # "gone"
  /\ \A t \in Tokens : tk[t].st # "none" /\ tk[t].link \in Codes => tk[t].origin = tk[t].link
  /\ \A t \in Tokens : tk[t].st # "none" /\ tk[t].origin \in Codes =>
       \E u \in Tokens : tk[u].st # "none" /\ tk[u].link = tk[t].origin

Unexpired(ld, tk) ==
  ld.expiring \cap Tokens = {} => \A t \in Tokens : tk[t].st # "none" => ~tk[t].expired

\* Every access token is filed under the code or the family of its grant, save
\* the first one of a sign-in without a code.
Recorded(ac, tk, t) ==
  ac[t].st = "issued" =>
    /\ tk[t].st # "none" => /\ ac[t].origin = tk[t].origin
                            /\ tk[t].origin = t \/ tk[t].family \in ac[t].keys
    /\ tk[t].st = "none" => /\ ac[t].origin \in ac[t].keys \cap Codes
                            /\ \A u \in Tokens : tk[u].st # "none" => tk[u].origin # ac[t].origin

Denied(ac, S) ==
  \A t \in Tokens : ac[t].st = "issued" /\ ac[t].origin \in S \ {t} => ac[t].denied

Endings ==
  /\ Links(tok) /\ Unexpired(load, tok) /\ \A t \in Tokens : Recorded(access, tok, t)
  /\ Over(code, tok, session, replayed) /\ Denied(access, replayed)
  /\ Steady => Over(code, tok, session, ended)

Sweeps == \A p \in Requests : Good(load, code, tok, session, req[p])

EndInv == RowsStay => Endings /\ Sweeps
-------------------------------------------------------------------------
(* Requests *)

\* The step of p changes its request, and nothing that was issued.
LEMMA GoodStep ==
  ASSUME IInv, Endings, Sweeps, NEW p \in Requests, NEW a, req' = [req EXCEPT ![p] = a],
         UNCHANGED <<load, session, code, tok, ended, replayed>>,
         \A t \in Tokens : access'[t] = access[t] \/ access'[t].st = "signed",
         Good(load, code, tok, session, a)
  PROVE  (Endings /\ Sweeps)'
<1>1. \A q \in Requests : req'[q] = req[q] \/ req'[q] = a
  BY DEF IInv, TypeOK
<1>2. Sweeps'
  BY <1>1 DEF Sweeps
<1>3. \A t \in Tokens : Recorded(access', tok', t)
  BY DEF Endings, Recorded
<1>4. Denied(access', replayed')
  BY DEF Endings, Denied
<1>5. Steady' <=> Steady
  BY DEF Steady, RowsStay
<1> QED BY <1>2, <1>3, <1>4, <1>5 DEF Endings

\* The statements of operations that sweep nothing.
LEMMA PlainStep ==
  ASSUME IInv, Endings, Sweeps, NEW p \in Requests, NEW a, req' = [req EXCEPT ![p] = a],
         UNCHANGED <<load, session, code, tok, ended, replayed>>,
         \A t \in Tokens : access'[t] = access[t] \/ access'[t].st = "signed",
         a.op \notin Sweeping, Held(load, session, a)
  PROVE  (Endings /\ Sweeps)'
<1>1. Good(load, code, tok, session, a)
  BY DEF Good, Replay, Swept, Sure, Sweeping
<1> QED BY <1>1, GoodStep

LEMMA EndIdleStep ==
  ASSUME IInv, Endings, Sweeps, NEW p \in Requests, Sets(p, Idle), load' = load
  PROVE  (Endings /\ Sweeps)'
<1>1. Idle.op \notin Sweeping /\ Held(load, session, Idle)
  BY IdleTyped DEF Held, Sweeping
<1> QED BY <1>1, PlainStep DEF Sets

\* The grants a sweep covers exist when it begins, and those of the operations
\* that void no codes have spent theirs.
LEMMA BeginGood ==
  ASSUME IInv, Endings, RowsStay, NEW op \in Ops, NEW on \in Sessions \cup Origins \cup {None},
         op # "mint",
         op \in {"replayToken", "endFamily", "rotate", "burnToken"} => on \in Tokens /\ tok[on].st # "none",
         op \in {"redeem", "redeemBare", "burnCode", "replayCode"} => on \in Codes /\ code[on].st # "none",
         op = "replayCode" => code[on].st # "fresh", op = "logout" => on = None,
         op \in {"logout", "passwordChange", "reset", "purgeCodes", "purgeTokens"} => op \in load.kinds
  PROVE  Good(load, code, tok, session, Running(op, on))
<1> DEFINE r == Running(op, on)
<1>1. /\ r.op = op /\ r.step = 1 /\ r.on = on /\ r.dropped = {} /\ r.scope = Scope(op, on)
  BY RunningTyped DEF IInv, Tables, RowKept
<1> HIDE DEF r
<1>2. Held(load, session, r)
  <2>1. op \notin Sweeping \cup {"reset"} => Scope(op, on) = {}
    BY DEF Scope, Sweeping
  <2> QED BY <1>1, <2>1 DEF Held
<1>3. Replay(tok, r)
  BY <1>1 DEF Replay, Scope
<1>4. ASSUME op \in Sweeping
      PROVE  /\ Known(code, tok, r.scope)
             /\ op # "logout" => r.scope \subseteq Origins
             /\ VoidAt(op) = 0 => Fresh(code, r.scope) = {}
  <2>1. ASSUME NEW t \in Tokens, tok[t].st # "none"
        PROVE  /\ tok[t].origin \in Origins
               /\ tok[t].origin \in Codes => code[tok[t].origin].st \notin {"none", "fresh"}
               /\ tok[t].origin \in Tokens => tok[tok[t].origin].st # "none"
    BY <2>1 DEF IInv, Tables, RowKept
  <2>2. \A t \in Tokens : Present(t) => tok[t].st # "none"
    BY DEF Present
  <2>3. Codes \subseteq Origins /\ session \subseteq Sessions /\ Sessions \cap Origins = {}
    BY Distinct DEF Origins, IInv, TypeOK
  <2>4. CASE op = "replayCode"
    <3>1. r.scope = {on}
      BY <1>1, <2>4 DEF Scope
    <3>2. \A c \in Codes : code[c].session # on
      BY <2>4, Distinct DEF IInv, TypeOK, CodeType, Origins
    <3> QED BY <2>3, <2>4, <3>1, <3>2, Distinct DEF Known, Fresh, Covered
  <2>5. ASSUME r.scope \subseteq {tok[t].origin : t \in {u \in Tokens : tok[u].st # "none"}}
        PROVE  Known(code, tok, r.scope) /\ r.scope \subseteq Origins /\ Fresh(code, r.scope) = {}
    <3>1. \A o \in r.scope : /\ o \in Origins
                             /\ o \in Codes => code[o].st \notin {"none", "fresh"}
                             /\ o \in Tokens => tok[o].st # "none"
      BY <2>1, <2>5
    <3>2. \A c \in Codes : code[c].session \notin r.scope
      BY <3>1, Distinct DEF IInv, TypeOK, CodeType, Origins
    <3> QED BY <3>1, <3>2 DEF Known, Fresh, Covered
  <2>6. CASE op \in {"replayToken", "endFamily", "revokeClient"}
    <3>1. r.scope \subseteq {tok[t].origin : t \in {u \in Tokens : tok[u].st # "none"}}
      BY <1>1, <2>2, <2>6 DEF Scope
    <3> QED BY <2>5, <2>6, <3>1
  <2>7. CASE op \in {"logout", "passwordChange", "revokeConsent"}
    <3>1. r.scope = {c \in Codes : code[c].st # "none"}
                      \cup {tok[t].origin : t \in {u \in Tokens : Present(u)}}
                      \cup (IF op = "logout" THEN session ELSE {})
      BY <1>1, <2>7 DEF Scope
    <3>2. Known(code, tok, r.scope)
      BY <2>1, <2>2, <2>3, <3>1, Distinct DEF Known, Origins
    <3>3. op # "logout" => r.scope \subseteq Origins
      BY <2>1, <2>2, <2>3, <3>1
    <3> QED BY <2>7, <3>2, <3>3 DEF VoidAt
  <2> QED BY <1>4, <2>4, <2>6, <2>7 DEF Sweeping
<1>5. Swept(load, code, tok, session, r)
  <2> SUFFICES ASSUME op \in Sure(load)
               PROVE  /\ Known(code, tok, r.scope) /\ SessionsSwept(session, r) /\ CodesSwept(code, r)
                      /\ TokensSwept(code, tok, r)
    BY <1>1 DEF Swept
  <2>1. op \in Sweeping
    BY DEF Sure
  <2>2. SessionsSwept(session, r)
    BY <1>1, <1>4, <2>1 DEF SessionsSwept
  <2>3. CodesSwept(code, r)
    BY <1>1, <1>4, <2>1 DEF CodesSwept, VoidAt
  <2>4. TokensSwept(code, tok, r)
    BY <1>1 DEF TokensSwept, LockAt, RevokeAt
  <2> QED BY <1>4, <2>1, <2>2, <2>3, <2>4
<1> QED BY <1>2, <1>3, <1>5 DEF Good, r

LEMMA EndArrivalStep ==
  ASSUME IInv, Endings, Sweeps, RowsStay, NEW p \in Requests, load' = load,
         \/ \E c \in Codes : handleAuthorizationCode(p, c)
         \/ \E s \in Sessions : changePassword(p, s)
         \/ \E t \in Tokens : handleRefreshToken(p, t) \/ tryRevokeRefreshToken(p, t)
         \/ Arrive(p)
  PROVE  (Endings /\ Sweeps)'
<1>1. PICK op \in Ops, on \in Sessions \cup Origins \cup {None} :
        /\ Begin(p, op, on) /\ op # "mint"
        /\ op \in {"replayToken", "endFamily", "rotate", "burnToken"} => on \in Tokens /\ tok[on].st # "none"
        /\ op \in {"redeem", "redeemBare", "burnCode", "replayCode"} => on \in Codes /\ code[on].st # "none"
        /\ op = "replayCode" => code[on].st # "fresh"
        /\ op = "logout" => on = None
        /\ op \in {"logout", "passwordChange", "reset", "purgeCodes", "purgeTokens"} => op \in load.kinds
  <2>1. ASSUME NEW c \in Codes, handleAuthorizationCode(p, c)
        PROVE  \/ code[c].st = "used" /\ Begin(p, "replayCode", c)
               \/ code[c].st = "fresh" /\ \E op \in {"redeem", "redeemBare", "burnCode"} : Begin(p, op, c)
    BY <2>1 DEF handleAuthorizationCode
  <2>2. ASSUME NEW t \in Tokens, handleRefreshToken(p, t) \/ tryRevokeRefreshToken(p, t)
        PROVE  /\ tok[t].st # "none"
               /\ \E op \in {"replayToken", "endFamily", "rotate", "burnToken"} : Begin(p, op, t)
    BY <2>2 DEF handleRefreshToken, tryRevokeRefreshToken, Present
  <2>3. ASSUME NEW s \in Sessions, changePassword(p, s)
        PROVE  Begin(p, "passwordChange", s) /\ "passwordChange" \in load.kinds
    BY <2>3 DEF changePassword
  <2>4. ASSUME Arrive(p)
        PROVE  \E op \in {"login", "logout", "reset", "revokeConsent", "revokeClient", "purgeTokens",
                          "purgeCodes"} : Begin(p, op, None) /\ op \in load.kinds
    BY <2>4 DEF Arrive
  <2> QED BY <2>1, <2>2, <2>3, <2>4, OpNames DEF Origins
<1>2. Good(load, code, tok, session, Running(op, on))
  BY <1>1, BeginGood
<1> QED BY <1>1, <1>2, GoodStep DEF Begin

LEMMA EndMintStep ==
  ASSUME IInv, Endings, Sweeps, NEW p \in Requests, NEW s \in Sessions, NEW c \in Codes,
         mintAuthorizationCode(p, s, c), load' = load
  PROVE  (Endings /\ Sweeps)'
<1> DEFINE r0 == Running("mint", s)
           r == [r0 EXCEPT !.new = c]
<1>1. /\ r0 \in RequestType /\ r0.op = "mint" /\ r0.step = 1 /\ r0.dropped = {}
      /\ r0.scope = Scope("mint", s)
  BY RunningTyped, OpNames DEF IInv, Tables, RowKept
<1>2. Scope("mint", s) = {}
  BY DEF Scope
<1>3. Sets(p, r)
  BY DEF mintAuthorizationCode
<1> HIDE DEF r0
<1>4. r.op = "mint" /\ r.step = 1 /\ r.dropped = {} /\ r.scope = {}
  BY <1>1, <1>2 DEF RequestType
<1> HIDE DEF r
<1>5. r.op \notin Sweeping /\ Held(load, session, r)
  BY <1>4 DEF Sweeping, Held
<1> QED BY <1>3, <1>5, PlainStep DEF Sets

\* The request after a statement.
LEMMA AfterStatement ==
  ASSUME IInv, NEW p \in Requests, Busy(p), Stmt(p) \notin {"commit", "deny"}, NEW r \in RequestType,
         r.op = req[p].op, r.step = req[p].step
  PROVE  /\ req[p] \in RequestType /\ req[p].op \in Ops /\ req[p].step \in Nat
         /\ req[p].step \in 1..Len(Script[req[p].op]) /\ req[p].step < Len(Script[req[p].op])
         /\ After(r).step = req[p].step + 1 /\ After(r).op = req[p].op
         /\ After(r).on = r.on /\ After(r).family = r.family
         /\ After(r).seen = r.seen /\ After(r).spent = r.spent /\ After(r).revoked = r.revoked
         /\ After(r).dropped = r.dropped /\ After(r).held = r.held /\ After(r).scope = r.scope
<1>1. /\ r.op \in Ops /\ r.step \in 1..Len(Script[r.op]) /\ r.step < Len(Script[r.op])
      /\ req[p] \in RequestType
  BY AtPlace DEF IInv, Place, Stmt, Busy
<1>2. req[p].step \in Nat
  BY <1>1 DEF RequestType
<1> QED BY <1>1, <1>2, AfterNext

\* Where the statements of a sweep stand.
LEMMA SweepPlaces ==
  ASSUME NEW op \in Sweeping, NEW i \in 1..Len(Script[op])
  PROVE  /\ op = "logout" => /\ i = 1 => Script[op][i] = "seeSessions"
                             /\ i = 2 => Script[op][i] = "endSeen"
                             /\ i = 5 => Script[op][i] = "commit"
         /\ i + 1 = VoidAt(op) => Script[op][i] = "seeCodes"
         /\ i = VoidAt(op) => Script[op][i] = "voidSeen"
         /\ i = LockAt(op) => Script[op][i] = IF op = "revokeClient" THEN "lockClient" ELSE "lockUser"
         /\ i + 1 = RevokeAt(op) =>
              Script[op][i] = IF op = "replayCode" THEN "seeCodeFamily"
                              ELSE IF op \in {"replayToken", "endFamily"} THEN "seeFamily"
                              ELSE IF op \in {"revokeClient", "revokeConsent"} THEN "seeUnrevoked"
                              ELSE "seeUnexpired"
         /\ i = RevokeAt(op) => Script[op][i] = "revokeSeen"
         /\ i = RevokeAt(op) + 1 => Script[op][i] = "commit"
         /\ op = "replayCode" /\ i = 2 => Script[op][i] = "findFamily"
<1>1. CASE op = "replayCode"
  BY <1>1, Scripts, SMTT(40) DEF VoidAt, LockAt, RevokeAt
<1>2. CASE op \in {"replayToken", "endFamily"}
  BY <1>2, Scripts, SMTT(40) DEF VoidAt, LockAt, RevokeAt
<1>3. CASE op = "revokeClient"
  BY <1>3, Scripts, SMTT(40) DEF VoidAt, LockAt, RevokeAt
<1>4. CASE op = "revokeConsent"
  BY <1>4, Scripts, SMTT(40) DEF VoidAt, LockAt, RevokeAt
<1>5. CASE op = "logout"
  BY <1>5, Scripts, SMTT(40) DEF VoidAt, LockAt, RevokeAt
<1>6. CASE op = "passwordChange"
  BY <1>6, Scripts, SMTT(40) DEF VoidAt, LockAt, RevokeAt
<1> QED BY <1>1, <1>2, <1>3, <1>4, <1>5, <1>6 DEF Sweeping

\* A sweep goes on: what each kind of statement has to add.
LEMMA SweepNext ==
  ASSUME IInv, Sweeps, NEW p \in Requests, Busy(p), Stmt(p) \notin {"commit", "deny"},
         NEW r \in RequestType, r.op = req[p].op, r.step = req[p].step, r.scope = req[p].scope,
         r.on = req[p].on, r.dropped = req[p].dropped,
         req[p].spent \subseteq r.spent, req[p].revoked \subseteq r.revoked, req[p].held \subseteq r.held,
         r.op \in Sweeping,
         Stmt(p) # "findFamily" => r.family = req[p].family,
         Stmt(p) = "findFamily" =>
           \A t \in Tokens : tok[t].st # "none" /\ tok[t].origin = r.on => tok[t].family = r.family,
         r.op \in Sure(load) =>
           /\ Stmt(p) = "seeSessions" /\ r.op = "logout" => r.scope \cap session \subseteq r.seen
           /\ Stmt(p) = "endSeen" /\ r.op = "logout" =>
                \A s \in r.scope \cap session : <<s, "exclusive">> \in r.held
           /\ Stmt(p) = "seeCodes" => Fresh(code, r.scope) \subseteq r.seen
           /\ Stmt(p) = "voidSeen" => Fresh(code, r.scope) \subseteq r.spent
           /\ Stmt(p) \in {"lockUser", "lockClient"} => Excludes(r) \/ Live(code, tok, r.scope) = {}
           /\ Stmt(p) \in {"seeCodeFamily", "seeFamily", "seeUnrevoked", "seeUnexpired"} =>
                Live(code, tok, r.scope) \subseteq r.seen
           /\ Stmt(p) = "revokeSeen" => Live(code, tok, r.scope) \subseteq r.revoked
  PROVE  Good(load, code, tok, session, After(r))
<1> DEFINE a == After(r)
           b == req[p]
<1>1. /\ b \in RequestType /\ b.op \in Ops /\ b.step \in Nat /\ b.step \in 1..Len(Script[b.op])
      /\ a.step = b.step + 1 /\ a.op = b.op /\ a.on = b.on /\ a.family = r.family
      /\ a.seen = r.seen /\ a.spent = r.spent /\ a.revoked = r.revoked
      /\ a.dropped = b.dropped /\ a.held = r.held /\ a.scope = b.scope
  BY AfterStatement
<1>2. Held(load, session, b) /\ Replay(tok, b) /\ Swept(load, code, tok, session, b)
  BY DEF Sweeps, Good
<1>3. Script[b.op][b.step] = Stmt(p)
  BY DEF Stmt
<1> HIDE DEF a, b
<1>4. Held(load, session, a)
  BY <1>1, <1>2 DEF Held, Sweeping, b
<1>5. Replay(tok, a)
  <2>1. ASSUME a.op = "replayCode", a.step >= 3, NEW t \in Tokens, tok[t].st # "none", tok[t].origin = a.on
        PROVE  tok[t].family = a.family
    <3>1. CASE b.step = 2
      <4>1. Stmt(p) = "findFamily"
        BY <1>1, <1>3, <2>1, <3>1, SweepPlaces DEF Sweeping
      <4> QED BY <1>1, <2>1, <4>1 DEF b
    <3>2. CASE b.step >= 3
      <4>1. Stmt(p) # "findFamily"
        <5>1. Place(b.op, b.step)
          BY <1>1, Places
        <5> QED BY <1>1, <1>3, <3>2, <5>1 DEF Place
      <4> QED BY <1>1, <1>2, <2>1, <3>2, <4>1 DEF Replay, b
    <3> QED BY <1>1, <2>1, <3>1, <3>2
  <2> QED BY <1>1, <1>2, <2>1 DEF Replay
<1>6. Swept(load, code, tok, session, a)
  <2> SUFFICES ASSUME a.op \in Sure(load)
               PROVE  /\ Known(code, tok, a.scope) /\ SessionsSwept(session, a) /\ CodesSwept(code, a)
                      /\ TokensSwept(code, tok, a)
    BY DEF Swept
  <2>1. /\ Known(code, tok, b.scope) /\ SessionsSwept(session, b) /\ CodesSwept(code, b)
        /\ TokensSwept(code, tok, b) /\ b.op \in Sweeping
    BY <1>1, <1>2 DEF Swept, Sure
  <2>2. SessionsSwept(session, a)
    <3>1. CASE a.op # "logout"
      BY <1>1, <2>1, <3>1 DEF SessionsSwept
    <3>2. CASE a.op = "logout"
      <4>1. b.step # 5
        BY <1>1, <1>3, <2>1, <3>2, SweepPlaces
      <4>2. b.step = 1 => a.scope \cap session \subseteq a.seen
        BY <1>1, <1>3, <2>1, <3>2, SweepPlaces DEF b
      <4>3. b.step = 2 => \A s \in a.scope \cap session : <<s, "exclusive">> \in a.held
        <5>1. b.step = 2 => Stmt(p) = "endSeen"
          BY <1>1, <1>3, <2>1, <3>2, SweepPlaces
        <5> QED BY <1>1, <3>2, <5>1 DEF b
      <4>4. b.step \in 3..4 => \A s \in a.scope \cap session : <<s, "exclusive">> \in a.held
        <5>1. b.held \subseteq a.held /\ a.scope = b.scope /\ b.op = "logout"
          BY <1>1, <3>2 DEF b
        <5>2. b.step \in 3..4 => b.step \in 3..5
          OBVIOUS
        <5>3. b.step \in 3..5 => \A s \in b.scope \cap session : <<s, "exclusive">> \in b.held
          BY <2>1, <5>1 DEF SessionsSwept
        <5> QED BY <5>1, <5>2, <5>3
      <4>5. b.step >= 6 => a.scope \cap session = {}
        BY <1>1, <2>1, <3>2 DEF SessionsSwept
      <4>6. /\ a.step = 2 <=> b.step = 1
            /\ a.step \in 3..5 <=> b.step = 2 \/ b.step \in 3..4
            /\ a.step >= 6 <=> b.step >= 6
        BY <1>1, <4>1
      <4> QED BY <3>2, <4>2, <4>3, <4>4, <4>5, <4>6 DEF SessionsSwept
    <3> QED BY <3>1, <3>2
  <2>3. CodesSwept(code, a)
    <3>1. b.step + 1 = VoidAt(b.op) => Fresh(code, a.scope) \subseteq a.seen
      BY <1>1, <1>3, <2>1, SweepPlaces DEF b
    <3>2. b.step = VoidAt(b.op) => Fresh(code, a.scope) \subseteq a.spent
      BY <1>1, <1>3, <2>1, SweepPlaces DEF b
    <3>3. VoidAt(b.op) \in Nat
      BY DEF VoidAt
    <3>4. b.step > VoidAt(b.op) => Fresh(code, a.scope) \subseteq a.spent
      BY <1>1, <2>1 DEF CodesSwept, b
    <3> QED BY <1>1, <3>1, <3>2, <3>3, <3>4 DEF CodesSwept
  <2>4. TokensSwept(code, tok, a)
    <3>1. LockAt(b.op) \in Nat /\ RevokeAt(b.op) \in Nat /\ LockAt(b.op) < RevokeAt(b.op)
      BY DEF LockAt, RevokeAt
    <3>2. b.step = LockAt(b.op) => Excludes(a) \/ Live(code, tok, a.scope) = {}
      BY <1>1, <1>3, <2>1, SweepPlaces DEF b, Excludes
    <3>3. b.step + 1 = RevokeAt(b.op) => Live(code, tok, a.scope) \subseteq a.seen
      BY <1>1, <1>3, <2>1, SweepPlaces DEF b
    <3>4. b.step = RevokeAt(b.op) => Live(code, tok, a.scope) \subseteq a.revoked
      BY <1>1, <1>3, <2>1, SweepPlaces DEF b
    <3>5. b.step # RevokeAt(b.op) + 1
      BY <1>1, <1>3, <2>1, SweepPlaces
    <3>6. Excludes(b) => Excludes(a)
      BY <1>1 DEF Excludes, b
    <3> QED BY <1>1, <2>1, <3>1, <3>2, <3>3, <3>4, <3>5, <3>6 DEF TokensSwept
  <2> QED BY <1>1, <2>1, <2>2, <2>3, <2>4
<1> QED BY <1>4, <1>5, <1>6 DEF Good, a

\* A statement of an operation that sweeps nothing.
LEMMA PlainNext ==
  ASSUME IInv, Endings, Sweeps, NEW p \in Requests, Busy(p), Stmt(p) \notin {"commit", "deny"},
         NEW r \in RequestType, Sets(p, After(r)), load' = load,
         r.op = req[p].op, r.step = req[p].step, r.scope = req[p].scope, r.on = req[p].on,
         r.op \notin Sweeping, r.dropped = {}, req[p].held \subseteq r.held,
         r.op = "mint" => r.on \in session /\ <<r.on, "shared">> \in r.held,
         r.op = "rotate" /\ r.step = 1 => <<"user", "shared">> \in r.held,
         r.op = "rotate" /\ r.step = 2 => <<"client", "shared">> \in r.held
  PROVE  (Endings /\ Sweeps)'
<1> DEFINE a == After(r)
<1>1. /\ req[p].step \in Nat /\ req[p].step >= 1 /\ a.step = req[p].step + 1 /\ a.op = r.op
      /\ a.on = r.on /\ a.dropped = {} /\ a.held = r.held /\ a.scope = r.scope
  BY AfterStatement
<1>2. Held(load, session, req[p])
  BY DEF Sweeps, Good
<1> HIDE DEF a
<1>3. Held(load, session, a)
  BY <1>1, <1>2 DEF Held
<1>4. a.op \notin Sweeping
  BY <1>1
<1> QED BY <1>3, <1>4, PlainStep DEF Sets, a

\* Rows that are there are found, because none is deleted.
LEMMA RowsFound ==
  ASSUME IInv, Endings, NEW t \in Tokens, tok[t].st # "none"
  PROVE  Present(t)
BY DEF Endings, Links, Present, IInv, TypeOK, TokenType

\* A replayed code that has no linked token has no token.
LEMMA NoneLinked ==
  ASSUME IInv, Endings, NEW c \in Codes, LinkedTo({c}) = {}
  PROVE  \A t \in Tokens : tok[t].st # "none" => tok[t].origin # c
BY RowsFound DEF Endings, Links, LinkedTo

\* The tokens that the scope of a replay covers are those of its grant.
LEMMA ReplayLive ==
  ASSUME IInv, NEW o \in Origins, NEW t \in Live(code, tok, {o})
  PROVE  t \in Tokens /\ tok[t].st = "live" /\ tok[t].origin = o
<1>1. \A c \in Codes : code[c].session # o
  BY Distinct DEF IInv, TypeOK, CodeType, Origins
<1> QED BY <1>1 DEF Live, Covered

LEMMA EndLockTokensStep ==
  ASSUME IInv, Endings, Sweeps, NEW p \in Requests, LockTokens(p), load' = load
  PROVE  (Endings /\ Sweeps)'
<1>1. PICK s \in DOMAIN LockOf :
        /\ Runs(p, s)
        /\ Sets(p, After([req[p] EXCEPT !.held =
                            IF LockKeyFound(p) THEN @ \cup {LockOf[s]} ELSE @]))
  BY DEF LockTokens
<1> DEFINE h == IF LockKeyFound(p) THEN req[p].held \cup {LockOf[s]} ELSE req[p].held
           r == [req[p] EXCEPT !.held = h]
<1>2. Busy(p) /\ Stmt(p) = s /\ req[p] \in RequestType /\ Kept(req[p]) /\ Good(load, code, tok, session, req[p])
  BY <1>1 DEF IInv, TypeOK, Runs, At, Sweeps
<1>3. req[p].held \subseteq h /\ (LockKeyFound(p) => LockOf[s] \in h)
  OBVIOUS
<1>4. h \in SUBSET (({"user", "client"} \cup Sessions) \X {"shared", "exclusive"})
  BY <1>2, LockTyped DEF RequestType
<1>5. Sets(p, After(r))
  BY <1>1
<1> HIDE DEF h
<1>6. /\ r \in RequestType /\ r.op = req[p].op /\ r.step = req[p].step /\ r.on = req[p].on
      /\ r.scope = req[p].scope /\ r.family = req[p].family /\ r.held = h
      /\ r.spent = req[p].spent /\ r.revoked = req[p].revoked /\ r.dropped = req[p].dropped
  BY <1>2, <1>4 DEF RequestType
<1> HIDE DEF r
<1>7. s \in {"lockUser", "lockUserShared", "lockClient", "lockClientShared"}
  BY LockNames
<1>8. Place(req[p].op, req[p].step) /\ Script[req[p].op][req[p].step] = s
  BY <1>2, AtPlace DEF IInv, Stmt
<1>9. r.dropped = {}
  BY <1>2, <1>6 DEF Good, Held
<1>10. CASE r.op \notin Sweeping
  <2>1. r.op = "rotate" => LockKeyFound(p)
    <3>1. r.op = "rotate" => req[p].on \in Tokens /\ tok[req[p].on].st # "none"
      BY <1>2, <1>6 DEF Kept, OnKept
    <3> QED BY <1>6, <3>1, RowsFound DEF LockKeyFound
  <2>2. r.op # "mint"
    BY <1>6, <1>7, <1>8 DEF Place
  <2>3. r.op = "rotate" => /\ r.step = 1 => s = "lockUserShared"
                           /\ r.step = 2 => s = "lockClientShared"
    BY <1>6, <1>8, Scripts
  <2>4. LockOf["lockUserShared"] = <<"user", "shared">> /\ LockOf["lockClientShared"] = <<"client", "shared">>
    BY DEF LockOf
  <2> QED BY <1>2, <1>3, <1>5, <1>6, <1>7, <1>9, <1>10, <2>1, <2>2, <2>3, <2>4, PlainNext
<1>11. CASE r.op \in Sweeping
  <2>1. s = IF r.op = "revokeClient" THEN "lockClient" ELSE "lockUser"
    BY <1>6, <1>7, <1>8, <1>11 DEF Place, Sweeping
  <2>2. LockOf["lockUser"] = <<"user", "exclusive">> /\ LockOf["lockClient"] = <<"client", "exclusive">>
    BY DEF LockOf
  <2>3. LockKeyFound(p) => Excludes(r)
    BY <1>3, <1>6, <2>1, <2>2 DEF Excludes
  <2>4. ~LockKeyFound(p) => Live(code, tok, r.scope) = {}
    <3>1. CASE r.op \in {"replayToken", "endFamily"}
      <4>1. req[p].on \in Tokens /\ tok[req[p].on].st # "none" /\ req[p].family = tok[req[p].on].family
        BY <1>2, <1>6, <3>1 DEF Kept, OnKept
      <4>2. Present(req[p].on)
        BY <4>1, RowsFound
      <4> QED BY <1>6, <3>1, <4>1, <4>2 DEF LockKeyFound
    <3>2. CASE r.op = "replayCode"
      <4>1. req[p].on \in Codes /\ r.scope = {req[p].on}
        BY <1>2, <1>6, <3>2 DEF Kept, OnKept, Good, Replay
      <4>2. SUFFICES ASSUME ~LockKeyFound(p) PROVE Live(code, tok, r.scope) = {}
        OBVIOUS
      <4>3. LinkedTo({req[p].on}) = {}
        BY <1>6, <3>2, <4>2 DEF LockKeyFound
      <4> QED BY <4>1, <4>3, NoneLinked, ReplayLive DEF Origins
    <3>3. CASE r.op \notin {"replayToken", "endFamily", "replayCode"}
      BY <1>6, <1>11, <3>3 DEF LockKeyFound, Sweeping
    <3> QED BY <3>1, <3>2, <3>3
  <2>5. Good(load, code, tok, session, After(r))
    BY <1>2, <1>3, <1>6, <1>7, <1>11, <2>3, <2>4, SweepNext
  <2> QED BY <1>5, <2>5, GoodStep DEF Sets
<1> QED BY <1>10, <1>11

LEMMA EndShareSessionStep ==
  ASSUME IInv, Endings, Sweeps, NEW p \in Requests, ShareSession(p), load' = load
  PROVE  (Endings /\ Sweeps)'
<1>1. CASE Sets(p, Idle)
  BY <1>1, EndIdleStep
<1>2. CASE /\ req[p].on \in session
           /\ Sets(p, After([req[p] EXCEPT !.held = @ \cup LocksTaken(p)]))
  <2> DEFINE h == req[p].held \cup LocksTaken(p)
             r == [req[p] EXCEPT !.held = h]
  <2>1. Busy(p) /\ Stmt(p) = "shareSession" /\ req[p] \in RequestType /\ Held(load, session, req[p])
    BY DEF ShareSession, Runs, At, IInv, TypeOK, Sweeps, Good
  <2>2. LocksTaken(p) = {<<req[p].on, "shared">>}
    BY <2>1, LockNames DEF LocksTaken
  <2>3. h \in SUBSET (({"user", "client"} \cup Sessions) \X {"shared", "exclusive"})
    BY <2>1, <2>2, <1>2 DEF RequestType, IInv, TypeOK
  <2>4. Sets(p, After(r)) /\ req[p].held \subseteq h /\ <<req[p].on, "shared">> \in h
    BY <1>2, <2>2
  <2> HIDE DEF h
  <2>5. /\ r \in RequestType /\ r.op = req[p].op /\ r.step = req[p].step /\ r.on = req[p].on
        /\ r.scope = req[p].scope /\ r.held = h /\ r.dropped = req[p].dropped
    BY <2>1, <2>3 DEF RequestType
  <2> HIDE DEF r
  <2>6. req[p].op = "mint"
    BY <2>1, AtPlace DEF Stmt, Place, IInv
  <2>7. r.dropped = {} /\ r.op \notin Sweeping /\ r.op = "mint"
    BY <2>1, <2>5, <2>6 DEF Held, Sweeping
  <2> QED BY <1>2, <2>1, <2>4, <2>5, <2>7, PlainNext
<1> QED BY <1>1, <1>2 DEF ShareSession

LEMMA EndFindFamilyStep ==
  ASSUME IInv, Endings, Sweeps, NEW p \in Requests, FindFamily(p), load' = load
  PROVE  (Endings /\ Sweeps)'
<1>1. PICK f \in IF LinkedTo({req[p].on}) = {} THEN {None}
                 ELSE {tok[t].family : t \in LinkedTo({req[p].on})} :
        Sets(p, After([req[p] EXCEPT !.family = f]))
  BY DEF FindFamily
<1>2. f \in Tokens \cup {None}
  BY DEF LinkedTo, IInv, TypeOK, TokenType
<1>3. Busy(p) /\ Stmt(p) = "findFamily" /\ req[p] \in RequestType /\ Kept(req[p])
  BY DEF FindFamily, Runs, At, IInv, TypeOK
<1>4. req[p].op = "replayCode" /\ req[p].on \in Codes
  <2>1. req[p].op = "replayCode"
    BY <1>3, AtPlace DEF Stmt, Place, IInv
  <2> QED BY <1>3, <2>1 DEF Kept, OnKept
<1> DEFINE r == [req[p] EXCEPT !.family = f]
<1>5. /\ r \in RequestType /\ r.op = req[p].op /\ r.step = req[p].step /\ r.on = req[p].on
      /\ r.scope = req[p].scope /\ r.held = req[p].held /\ r.family = f
      /\ r.spent = req[p].spent /\ r.revoked = req[p].revoked /\ r.dropped = req[p].dropped
  BY <1>2, <1>3 DEF RequestType
<1>6. Sets(p, After(r))
  BY <1>1
<1> HIDE DEF r
<1>7. ASSUME NEW t \in Tokens, tok[t].st # "none", tok[t].origin = r.on PROVE tok[t].family = r.family
  <2>1. PICK u \in LinkedTo({req[p].on}) : f = tok[u].family
    BY <1>1, <1>4, <1>5, <1>7, NoneLinked
  <2>2. u \in Tokens /\ tok[u].st # "none" /\ tok[u].origin = req[p].on
    BY <1>4, <2>1 DEF LinkedTo, Present, Endings, Links
  <2> QED BY <1>5, <1>7, <2>1, <2>2 DEF IInv, Tables, OneFamily
<1>8. r.op \in Sweeping
  BY <1>4, <1>5 DEF Sweeping
<1>9. Good(load, code, tok, session, After(r))
  BY <1>3, <1>5, <1>7, <1>8, SweepNext
<1> QED BY <1>6, <1>9, GoodStep DEF Sets

\* A sweep of tokens sees every covered token that is live.
LEMMA LiveSeen ==
  ASSUME IInv, Endings, Sweeps, NEW p \in Requests, Busy(p), req[p].op \in Sure(load),
         Stmt(p) \in {"seeCodeFamily", "seeFamily", "seeUnrevoked", "seeUnexpired"}
  PROVE  Live(code, tok, req[p].scope) \subseteq Seen(p)
<1>1. /\ req[p] \in RequestType /\ Kept(req[p]) /\ Replay(tok, req[p]) /\ Place(req[p].op, req[p].step)
      /\ Script[req[p].op][req[p].step] = Stmt(p)
  BY AtPlace DEF IInv, TypeOK, Sweeps, Good, Stmt
<1>2. \A t \in Live(code, tok, req[p].scope) : t \in Tokens /\ tok[t].st = "live"
  BY DEF Live
<1>3. CASE Stmt(p) = "seeUnrevoked"
  BY <1>2, <1>3 DEF Seen, Unrevoked
<1>4. CASE Stmt(p) = "seeUnexpired"
  <2>1. req[p].op \in {"logout", "passwordChange", "reset"}
    BY <1>1, <1>4 DEF Place
  <2>2. load.expiring \cap Tokens = {}
    BY <2>1 DEF Sure, Sweeping
  <2>3. \A t \in Tokens : tok[t].st # "none" => ~tok[t].expired
    BY <2>2 DEF Endings, Unexpired
  <2>4. Seen(p) = {t \in Unrevoked : ~tok[t].expired}
    BY <1>4 DEF Seen
  <2> QED BY <1>2, <2>3, <2>4 DEF Unrevoked
<1>5. CASE Stmt(p) = "seeFamily"
  <2>1. req[p].op \in {"replayToken", "endFamily"}
    BY <1>1, <1>5 DEF Place
  <2>2. req[p].on \in Tokens /\ tok[req[p].on].st # "none" /\ req[p].family = tok[req[p].on].family
    BY <1>1, <2>1 DEF Kept, OnKept
  <2>3. req[p].scope = {tok[req[p].on].origin} /\ tok[req[p].on].origin \in Origins
    BY <1>1, <2>1, <2>2 DEF Replay, IInv, Tables, RowKept
  <2>4. \A t \in Live(code, tok, req[p].scope) : t \in Tokens /\ tok[t].st = "live" /\ tok[t].family = req[p].family
    <3>1. SUFFICES ASSUME NEW t \in Live(code, tok, req[p].scope)
                   PROVE  t \in Tokens /\ tok[t].st = "live" /\ tok[t].family = req[p].family
      OBVIOUS
    <3>2. t \in Tokens /\ tok[t].st = "live" /\ tok[t].origin = tok[req[p].on].origin
      BY <2>3, ReplayLive
    <3> QED BY <2>2, <3>2 DEF IInv, Tables, OneFamily
  <2>5. Seen(p) = {t \in Unrevoked : tok[t].family = req[p].family}
    BY <1>5 DEF Seen
  <2> QED BY <2>4, <2>5 DEF Unrevoked
<1>6. CASE Stmt(p) = "seeCodeFamily"
  <2>1. req[p].op = "replayCode"
    BY <1>1, <1>6 DEF Place
  <2>2. req[p].on \in Codes /\ req[p].scope = {req[p].on} /\ req[p].on \in Origins
    BY <1>1, <2>1 DEF Kept, OnKept, Replay, Origins
  <2>3. ASSUME NEW t \in Live(code, tok, req[p].scope)
        PROVE  /\ t \in Tokens /\ tok[t].st = "live"
               /\ \E f \in LinkedTo({req[p].on}) : tok[t].family = tok[f].family
    <3>1. t \in Tokens /\ tok[t].st = "live" /\ tok[t].origin = req[p].on
      BY <2>2, <2>3, ReplayLive
    <3>2. PICK f \in Tokens : tok[f].st # "none" /\ tok[f].link = req[p].on
      BY <2>2, <3>1 DEF Endings, Links
    <3>3. f \in LinkedTo({req[p].on}) /\ tok[f].origin = req[p].on
      BY <2>2, <3>2, RowsFound DEF LinkedTo, Endings, Links
    <3> QED BY <3>1, <3>2, <3>3 DEF IInv, Tables, OneFamily
  <2>4. Seen(p) = {t \in Unrevoked : \E f \in LinkedTo({req[p].on}) : tok[t].family = tok[f].family}
    BY <1>6 DEF Seen
  <2> QED BY <2>3, <2>4 DEF Unrevoked
<1> QED BY <1>3, <1>4, <1>5, <1>6

LEMMA EndSnapshotStep ==
  ASSUME IInv, Endings, Sweeps, NEW p \in Requests, Snapshot(p), load' = load
  PROVE  (Endings /\ Sweeps)'
<1> DEFINE sn == Seen(p)
           r == [req[p] EXCEPT !.seen = sn]
<1>1. /\ Busy(p) /\ Stmt(p) \in Snapshots /\ req[p] \in RequestType /\ Held(load, session, req[p])
      /\ sn \in SUBSET (Sessions \cup Origins) /\ Sets(p, After(r)) /\ Kept(req[p])
      /\ Place(req[p].op, req[p].step) /\ Script[req[p].op][req[p].step] = Stmt(p)
  BY SeenTyped, AtPlace DEF Snapshot, IInv, TypeOK, Sweeps, Good, Stmt
<1>2. Stmt(p) = "seeCodes" => Fresh(code, req[p].scope) \subseteq sn
  BY DEF Seen, Fresh
<1>3. Stmt(p) = "seeSessions" /\ req[p].op = "logout" => req[p].scope \cap session \subseteq sn
  BY <1>1, Distinct DEF Seen, Held, IInv, TypeOK
<1>4. ASSUME req[p].op \in Sure(load),
             Stmt(p) \in {"seeCodeFamily", "seeFamily", "seeUnrevoked", "seeUnexpired"}
      PROVE  Live(code, tok, req[p].scope) \subseteq sn
  BY <1>1, <1>4, LiveSeen
<1> HIDE DEF sn
<1>5. /\ r \in RequestType /\ r.op = req[p].op /\ r.step = req[p].step /\ r.on = req[p].on
      /\ r.scope = req[p].scope /\ r.family = req[p].family /\ r.held = req[p].held /\ r.seen = sn
      /\ r.spent = req[p].spent /\ r.revoked = req[p].revoked /\ r.dropped = req[p].dropped
  BY <1>1 DEF RequestType
<1> HIDE DEF r
<1>6. Stmt(p) \notin {"commit", "deny", "findFamily", "endSeen", "spendEnded", "voidSeen", "revokeSeen", "lockUser", "lockClient"}
  BY <1>1 DEF Snapshots
<1>7. CASE r.op \in Sweeping
  <2>1. Good(load, code, tok, session, After(r))
    BY <1>1, <1>2, <1>3, <1>4, <1>5, <1>6, <1>7, SweepNext
  <2> QED BY <1>1, <2>1, GoodStep DEF Sets
<1>8. CASE r.op \notin Sweeping
  <2>1. r.op \notin {"mint", "rotate"}
    BY <1>1, <1>5 DEF Place, Snapshots
  <2>2. r.dropped = {}
    BY <1>1, <1>5 DEF Held
  <2> QED BY <1>1, <1>5, <1>6, <1>8, <2>1, <2>2, PlainNext
<1> QED BY <1>7, <1>8

LEMMA EndEndSeenStep ==
  ASSUME IInv, Endings, Sweeps, NEW p \in Requests, EndSeen(p), load' = load
  PROVE  (Endings /\ Sweeps)'
<1> DEFINE h == req[p].held \cup {<<s, "exclusive">> : s \in req[p].seen \cap session}
           r == [req[p] EXCEPT !.seen = {}, !.held = h]
<1>1. /\ Busy(p) /\ Stmt(p) = "endSeen" /\ req[p] \in RequestType /\ Sets(p, After(r))
      /\ Held(load, session, req[p]) /\ Swept(load, code, tok, session, req[p])
      /\ Place(req[p].op, req[p].step) /\ Script[req[p].op][req[p].step] = Stmt(p)
  BY AtPlace DEF EndSeen, Runs, At, IInv, TypeOK, Sweeps, Good, Stmt
<1>2. h \in SUBSET (({"user", "client"} \cup Sessions) \X {"shared", "exclusive"})
  BY <1>1 DEF RequestType, IInv, TypeOK
<1>3. req[p].held \subseteq h /\ \A s \in req[p].seen \cap session : <<s, "exclusive">> \in h
  OBVIOUS
<1> HIDE DEF h
<1>4. /\ r \in RequestType /\ r.op = req[p].op /\ r.step = req[p].step /\ r.on = req[p].on
      /\ r.scope = req[p].scope /\ r.family = req[p].family /\ r.held = h
      /\ r.spent = req[p].spent /\ r.revoked = req[p].revoked /\ r.dropped = req[p].dropped
  BY <1>1, <1>2 DEF RequestType
<1> HIDE DEF r
<1>5. req[p].op \in {"logout", "passwordChange", "reset"} /\ (req[p].op = "logout" => req[p].step = 2)
  BY <1>1 DEF Place
<1>6. CASE r.op \in Sweeping
  <2>1. r.op \in Sure(load) /\ r.op = "logout" => r.scope \cap session \subseteq req[p].seen
    BY <1>1, <1>4, <1>5 DEF Swept, SessionsSwept
  <2>2. r.op \in Sure(load) /\ r.op = "logout" => \A s \in r.scope \cap session : <<s, "exclusive">> \in r.held
    BY <1>3, <1>4, <2>1
  <2>3. Good(load, code, tok, session, After(r))
    BY <1>1, <1>3, <1>4, <1>6, <2>2, SweepNext
  <2> QED BY <1>1, <2>3, GoodStep DEF Sets
<1>7. CASE r.op \notin Sweeping
  <2>1. r.op \notin {"mint", "rotate"} /\ r.dropped = {}
    BY <1>1, <1>4, <1>5 DEF Held
  <2> QED BY <1>1, <1>3, <1>4, <1>7, <2>1, PlainNext
<1> QED BY <1>6, <1>7

LEMMA EndVoidSeenStep ==
  ASSUME IInv, Endings, Sweeps, NEW p \in Requests, VoidSeen(p), load' = load
  PROVE  (Endings /\ Sweeps)'
<1> DEFINE x == req[p].spent \cup {c \in req[p].seen : code[c].st = "fresh"}
           r == [req[p] EXCEPT !.seen = {}, !.spent = x]
<1>1. /\ Busy(p) /\ Stmt(p) \in {"spendEnded", "voidSeen"} /\ req[p] \in RequestType /\ Sets(p, After(r))
      /\ Held(load, session, req[p]) /\ Swept(load, code, tok, session, req[p])
      /\ Place(req[p].op, req[p].step) /\ Script[req[p].op][req[p].step] = Stmt(p) /\ Kept(req[p])
  BY AtPlace DEF VoidSeen, Runs, At, IInv, TypeOK, Sweeps, Good, Stmt
<1>2. x \in SUBSET Codes
  BY <1>1 DEF Kept, SeenKept, Busy, RequestType
<1>3. req[p].spent \subseteq x /\ \A c \in req[p].seen : code[c].st = "fresh" => c \in x
  OBVIOUS
<1> HIDE DEF x
<1>4. /\ r \in RequestType /\ r.op = req[p].op /\ r.step = req[p].step /\ r.on = req[p].on
      /\ r.scope = req[p].scope /\ r.family = req[p].family /\ r.held = req[p].held
      /\ r.spent = x /\ r.revoked = req[p].revoked /\ r.dropped = req[p].dropped
  BY <1>1, <1>2 DEF RequestType
<1> HIDE DEF r
<1>5. /\ req[p].op \in {"logout", "passwordChange", "reset", "revokeConsent"}
      /\ Stmt(p) = "voidSeen" /\ req[p].op # "reset" => req[p].step = VoidAt(req[p].op)
  BY <1>1 DEF Place, VoidAt
<1>6. CASE r.op \in Sweeping
  <2>1. r.op \in Sure(load) /\ Stmt(p) = "voidSeen" => Fresh(code, r.scope) \subseteq req[p].seen
    BY <1>1, <1>4, <1>5, <1>6 DEF Swept, CodesSwept, Sweeping
  <2>2. r.op \in Sure(load) /\ Stmt(p) = "voidSeen" => Fresh(code, r.scope) \subseteq r.spent
    BY <1>3, <1>4, <2>1 DEF Fresh
  <2>3. Good(load, code, tok, session, After(r))
    BY <1>1, <1>3, <1>4, <1>6, <2>2, SweepNext
  <2> QED BY <1>1, <2>3, GoodStep DEF Sets
<1>7. CASE r.op \notin Sweeping
  <2>1. r.op \notin {"mint", "rotate"} /\ r.dropped = {}
    BY <1>1, <1>4, <1>5 DEF Held
  <2> QED BY <1>1, <1>4, <1>7, <2>1, PlainNext
<1> QED BY <1>6, <1>7

LEMMA EndRevokeSeenStep ==
  ASSUME IInv, Endings, Sweeps, NEW p \in Requests, RevokeSeen(p), load' = load
  PROVE  (Endings /\ Sweeps)'
<1> DEFINE x == req[p].revoked \cup {t \in req[p].seen : tok[t].st = "live"}
           r == [req[p] EXCEPT !.seen = {}, !.revoked = x]
<1>1. /\ Busy(p) /\ Stmt(p) = "revokeSeen" /\ req[p] \in RequestType /\ Sets(p, After(r))
      /\ Held(load, session, req[p]) /\ Swept(load, code, tok, session, req[p])
      /\ Place(req[p].op, req[p].step) /\ Script[req[p].op][req[p].step] = Stmt(p) /\ Kept(req[p])
  BY AtPlace DEF RevokeSeen, Runs, At, IInv, TypeOK, Sweeps, Good, Stmt
<1>2. x \in SUBSET Tokens
  BY <1>1 DEF Kept, SeenKept, Busy, RequestType
<1>3. req[p].revoked \subseteq x /\ \A t \in req[p].seen : tok[t].st = "live" => t \in x
  OBVIOUS
<1> HIDE DEF x
<1>4. /\ r \in RequestType /\ r.op = req[p].op /\ r.step = req[p].step /\ r.on = req[p].on
      /\ r.scope = req[p].scope /\ r.family = req[p].family /\ r.held = req[p].held
      /\ r.revoked = x /\ r.spent = req[p].spent /\ r.dropped = req[p].dropped
  BY <1>1, <1>2 DEF RequestType
<1> HIDE DEF r
<1>5. /\ req[p].op \in Sweeping \cup {"reset"}
      /\ req[p].op # "reset" => req[p].step = RevokeAt(req[p].op)
  BY <1>1 DEF Place, RevokeAt, Sweeping
<1>6. CASE r.op \in Sweeping
  <2>1. r.op \in Sure(load) => Live(code, tok, r.scope) \subseteq req[p].seen
    BY <1>1, <1>4, <1>5, <1>6 DEF Swept, TokensSwept, Sweeping
  <2>2. r.op \in Sure(load) => Live(code, tok, r.scope) \subseteq r.revoked
    BY <1>3, <1>4, <2>1 DEF Live
  <2>3. Good(load, code, tok, session, After(r))
    BY <1>1, <1>3, <1>4, <1>6, <2>2, SweepNext
  <2> QED BY <1>1, <2>3, GoodStep DEF Sets
<1>7. CASE r.op \notin Sweeping
  <2>1. r.op \notin {"mint", "rotate"} /\ r.dropped = {}
    BY <1>1, <1>4, <1>5, <1>7 DEF Held
  <2> QED BY <1>1, <1>4, <1>7, <2>1, PlainNext
<1> QED BY <1>6, <1>7

LEMMA EndSpendCodeStep ==
  ASSUME IInv, Endings, Sweeps, RowsStay, NEW p \in Requests, SpendCode(p), load' = load
  PROVE  (Endings /\ Sweeps)'
<1>1. /\ Busy(p) /\ Stmt(p) = "spendCode" /\ req[p] \in RequestType /\ Kept(req[p])
      /\ Held(load, session, req[p]) /\ req[p].op \in {"redeem", "redeemBare", "burnCode"}
  BY AtPlace DEF SpendCode, Runs, At, IInv, TypeOK, Stmt, Place, Sweeps, Good
<1>2. req[p].on \in Codes /\ code[req[p].on].st # "none"
  BY <1>1 DEF Kept, OnKept
<1>3. CASE Sets(p, Idle)
  BY <1>3, EndIdleStep
<1>4. CASE ~SpendsCode(p) /\ Sets(p, Running("replayCode", req[p].on))
  <2>1. "replayCode" \in Ops /\ req[p].on \in Sessions \cup Origins \cup {None}
    BY <1>2, OpNames DEF Origins
  <2>2. code[req[p].on].st # "fresh"
    BY <1>4 DEF SpendsCode
  <2>3. Good(load, code, tok, session, Running("replayCode", req[p].on))
    BY <1>2, <2>1, <2>2, BeginGood
  <2> QED BY <1>4, <2>3, GoodStep DEF Sets
<1>5. CASE Sets(p, After([req[p] EXCEPT !.spent = {req[p].on}]))
  <2> DEFINE x == {req[p].on}
             r == [req[p] EXCEPT !.spent = x]
  <2>1. x \in SUBSET Codes /\ Sets(p, After(r))
    BY <1>2, <1>5
  <2> HIDE DEF x
  <2>2. /\ r \in RequestType /\ r.op = req[p].op /\ r.step = req[p].step /\ r.on = req[p].on
        /\ r.scope = req[p].scope /\ r.held = req[p].held /\ r.dropped = req[p].dropped
    BY <1>1, <2>1 DEF RequestType
  <2> HIDE DEF r
  <2>3. r.op \notin Sweeping \cup {"mint", "rotate"} /\ r.dropped = {}
    BY <1>1, <2>2 DEF Sweeping, Held
  <2> QED BY <1>1, <2>1, <2>2, <2>3, PlainNext
<1> QED BY <1>3, <1>4, <1>5 DEF SpendCode

LEMMA EndSpendTokenStep ==
  ASSUME IInv, Endings, Sweeps, RowsStay, NEW p \in Requests, SpendToken(p), load' = load
  PROVE  (Endings /\ Sweeps)'
<1>1. /\ Busy(p) /\ Stmt(p) = "spendToken" /\ req[p] \in RequestType /\ Kept(req[p])
      /\ Held(load, session, req[p]) /\ req[p].op = "rotate" /\ req[p].step = 3
  BY AtPlace DEF SpendToken, Runs, At, IInv, TypeOK, Stmt, Place, Sweeps, Good
<1>2. req[p].on \in Tokens /\ tok[req[p].on].st # "none"
  BY <1>1 DEF Kept, OnKept
<1>3. CASE Sets(p, Running("replayToken", req[p].on))
  <2>1. "replayToken" \in Ops /\ req[p].on \in Sessions \cup Origins \cup {None}
    BY <1>2, OpNames DEF Origins
  <2>2. Good(load, code, tok, session, Running("replayToken", req[p].on))
    BY <1>2, <2>1, BeginGood
  <2> QED BY <1>3, <2>2, GoodStep DEF Sets
<1>4. CASE Sets(p, After([req[p] EXCEPT !.revoked = {req[p].on}]))
  <2> DEFINE x == {req[p].on}
             r == [req[p] EXCEPT !.revoked = x]
  <2>1. x \in SUBSET Tokens /\ Sets(p, After(r))
    BY <1>2, <1>4
  <2> HIDE DEF x
  <2>2. /\ r \in RequestType /\ r.op = req[p].op /\ r.step = req[p].step /\ r.on = req[p].on
        /\ r.scope = req[p].scope /\ r.held = req[p].held /\ r.dropped = req[p].dropped
    BY <1>1, <2>1 DEF RequestType
  <2> HIDE DEF r
  <2>3. r.op \notin Sweeping \cup {"mint"} /\ r.dropped = {} /\ r.step # 1 /\ r.step # 2
    BY <1>1, <2>2 DEF Sweeping, Held
  <2> QED BY <1>1, <2>1, <2>2, <2>3, PlainNext
<1> QED BY <1>3, <1>4 DEF SpendToken

LEMMA EndRevokeByIdStep ==
  ASSUME IInv, Endings, Sweeps, NEW p \in Requests, RevokeById(p), load' = load
  PROVE  (Endings /\ Sweeps)'
<1>1. /\ Busy(p) /\ Stmt(p) = "revokeById" /\ req[p] \in RequestType /\ Kept(req[p])
      /\ Held(load, session, req[p]) /\ req[p].op = "burnToken"
  BY AtPlace DEF RevokeById, Runs, At, IInv, TypeOK, Stmt, Place, Sweeps, Good
<1>2. req[p].on \in Tokens
  BY <1>1 DEF Kept, OnKept
<1>3. CASE Sets(p, Idle)
  BY <1>3, EndIdleStep
<1>4. CASE Sets(p, After([req[p] EXCEPT !.revoked = {req[p].on}]))
  <2> DEFINE x == {req[p].on}
             r == [req[p] EXCEPT !.revoked = x]
  <2>1. x \in SUBSET Tokens /\ Sets(p, After(r))
    BY <1>2, <1>4
  <2> HIDE DEF x
  <2>2. /\ r \in RequestType /\ r.op = req[p].op /\ r.step = req[p].step /\ r.on = req[p].on
        /\ r.scope = req[p].scope /\ r.held = req[p].held /\ r.dropped = req[p].dropped
    BY <1>1, <2>1 DEF RequestType
  <2> HIDE DEF r
  <2>3. r.op \notin Sweeping \cup {"mint", "rotate"} /\ r.dropped = {}
    BY <1>1, <2>2 DEF Sweeping, Held
  <2> QED BY <1>1, <2>1, <2>2, <2>3, PlainNext
<1> QED BY <1>3, <1>4 DEF RevokeById

\* No purge runs.
LEMMA EndDeleteSeenStep ==
  ASSUME IInv, Sweeps, RowsStay, NEW p \in Requests, DeleteSeen(p)
  PROVE  FALSE
<1>1. Held(load, session, req[p]) /\ req[p].op \in {"purgeTokens", "purgeCodes"}
  BY AtPlace DEF DeleteSeen, Runs, At, IInv, Stmt, Place, Sweeps, Good
<1> QED BY <1>1 DEF Held, RowsStay

LEMMA EndIssueStep ==
  ASSUME IInv, Endings, Sweeps, NEW p \in Requests, Busy(p), Stmt(p) \in {"insert", "sign"}, NEW t \in Unused,
         req' = [req EXCEPT ![p] = After([@ EXCEPT !.new = t])],
         access' = [access EXCEPT ![t] = Signed(p, t)],
         UNCHANGED <<load, session, code, tok, begun, ended, replayed>>
  PROVE  (Endings /\ Sweeps)'
<1>1. /\ t \in Tokens /\ t \in Origins /\ req[p] \in RequestType /\ Held(load, session, req[p])
      /\ req \in [Requests -> RequestType] /\ access \in [Tokens -> AccessType]
  BY UnusedFresh DEF Origins, IInv, TypeOK, Sweeps, Good
<1>2. req[p].op \in Issuing /\ req[p].step \in Nat /\ req[p].step >= 2 /\ (req[p].op = "rotate" => req[p].step = 5)
  BY IssuePlace
<1> DEFINE r == [req[p] EXCEPT !.new = t]
<1>3. /\ r \in RequestType /\ r.op = req[p].op /\ r.step = req[p].step /\ r.on = req[p].on
      /\ r.scope = req[p].scope /\ r.held = req[p].held /\ r.dropped = req[p].dropped
  BY <1>1 DEF RequestType
<1>4. req' = [req EXCEPT ![p] = After(r)]
  BY <1>1
<1> HIDE DEF r
<1> DEFINE a == After(r)
<1>5. /\ a.step = req[p].step + 1 /\ a.op = req[p].op
      /\ a.on = req[p].on /\ a.dropped = req[p].dropped /\ a.held = req[p].held /\ a.scope = req[p].scope
  BY <1>3, AfterStatement
<1> HIDE DEF a
<1>6. a.op \notin Sweeping /\ Held(load, session, a)
  BY <1>1, <1>2, <1>5 DEF Held, Issuing, Sweeping
<1>7. \A u \in Tokens : access'[u] = access[u] \/ access'[u].st = "signed"
  BY <1>1 DEF Signed
<1> QED BY <1>4, <1>6, <1>7, PlainStep DEF a
-------------------------------------------------------------------------
(* The commit *)

\* A code is minted under a session that is not ended.
LEMMA MintedUnder ==
  ASSUME IInv, Sweeps, NEW p \in Requests, Commit(p), NEW c \in Codes, c = req[p].new
  PROVE  code'[c].session \in session
<1>1. /\ Busy(p) /\ Stmt(p) = "commit" /\ Kept(req[p]) /\ Held(load, session, req[p])
      /\ Place(req[p].op, req[p].step) /\ Script[req[p].op][req[p].step] = Stmt(p)
  BY AtPlace DEF Commit, At, IInv, Sweeps, Good, Stmt
<1>2. req[p].op = "mint"
  BY <1>1 DEF Kept, NewKept
<1>3. req[p].step = 2
  BY <1>1, <1>2 DEF Place
<1>4. req[p].on \in session
  BY <1>1, <1>2, <1>3 DEF Held
<1> QED BY <1>4, CommitCodes

\* Ended sessions gain no codes.
LEMMA CoveredBack ==
  ASSUME IInv, Sweeps, NEW p \in Requests, Commit(p), NEW S, S \cap session = {}, NEW o,
         Covered(code', S, o)
  PROVE  Covered(code, S, o)
<1>1. CASE o \in S
  BY <1>1 DEF Covered
<1>2. CASE o \in Codes /\ code'[o].st # "none" /\ code'[o].session \in S
  <2>1. o # req[p].new
    BY <1>2, MintedUnder
  <2>2. code[o].st # "none"
    <3>1. Kept(req[p]) /\ req[p] \in RequestType
      BY DEF IInv, TypeOK
    <3>2. SUFFICES ASSUME code[o].st = "none" PROVE FALSE
      OBVIOUS
    <3>3. o \notin Rows(req[p])
      BY <1>2, <3>1, <3>2, Distinct DEF Rows, Kept, RowsKept, Stored, RequestType
    <3> QED BY <1>2, <2>1, <3>2, <3>3, CommitCodes
  <2> QED BY <1>2, <2>2, CommitCodes DEF Covered
<1> QED BY <1>1, <1>2 DEF Covered

LEMMA FreshShrinks ==
  ASSUME IInv, Sweeps, NEW p \in Requests, Commit(p), NEW S, S \cap session = {}, Known(code, tok, S)
  PROVE  Fresh(code', S) \subseteq Fresh(code, S) \ req[p].spent
<1>1. SUFFICES ASSUME NEW c \in Codes, code'[c].st = "fresh", Covered(code', S, c)
               PROVE  c \in Fresh(code, S) \ req[p].spent
  BY DEF Fresh
<1>2. Covered(code, S, c)
  BY <1>1, CoveredBack
<1>3. c # req[p].new
  BY <1>2, CommitCodes DEF Covered, Known
<1>4. code[c].st = "fresh" /\ c \notin req[p].spent
  BY <1>1, <1>3, CommitCodes
<1> QED BY <1>2, <1>4 DEF Fresh

\* No token is added to S unless one of its codes is redeemed or one of its
\* tokens rotated.
LEMMA LiveShrinks ==
  ASSUME IInv, Sweeps, NEW p \in Requests, Commit(p), NEW S, S \cap session = {}, Known(code, tok, S),
         req[p].op = "redeem" /\ req[p].new \in Tokens => req[p].on \notin Fresh(code, S),
         req[p].op = "rotate" /\ req[p].new \in Tokens => req[p].on \notin Live(code, tok, S)
  PROVE  Live(code', tok', S) \subseteq Live(code, tok, S) \ req[p].revoked
<1>1. SUFFICES ASSUME NEW t \in Tokens, tok'[t].st = "live", Covered(code', S, tok'[t].origin)
               PROVE  t \in Live(code, tok, S) \ req[p].revoked
  BY DEF Live
<1>2. Covered(code, S, tok'[t].origin)
  BY <1>1, CoveredBack
<1>3. CASE tok[t].st # "none"
  <2>1. tok[t].st = "live" /\ t \notin req[p].revoked /\ tok'[t].origin = tok[t].origin
    BY <1>1, <1>3, CommitTokens
  <2> QED BY <1>2, <2>1 DEF Live
<1>4. CASE tok[t].st = "none"
  <2>1. t = req[p].new /\ req[p].op # "redeemBare"
    BY <1>1, <1>4, CommitTokens
  <2>2. tok'[t] = Inserted(p, t) /\ req[p].new \in Tokens /\ req[p].op \in {"redeem", "rotate", "login"}
    BY <2>1, CommitTokens, NewToken DEF Issuing
  <2>3. Covered(code, S, OriginFor(req[p], t))
    BY <1>2, <2>1, <2>2, InsertedRow
  <2>4. CASE req[p].op = "redeem"
    <3>1. req[p].on \in Codes /\ code[req[p].on].st = "fresh" /\ OriginFor(req[p], t) = req[p].on
      BY <2>2, <2>4, NewToken DEF OriginFor
    <3> QED BY <2>2, <2>3, <2>4, <3>1 DEF Fresh
  <2>5. CASE req[p].op = "rotate"
    <3>1. /\ req[p].on \in Tokens /\ tok[req[p].on].st = "live"
          /\ OriginFor(req[p], t) = tok[req[p].on].origin
      BY <2>2, <2>5, NewToken DEF OriginFor
    <3> QED BY <2>2, <2>3, <2>5, <3>1 DEF Live
  <2>6. CASE req[p].op = "login"
    <3>1. OriginFor(req[p], t) = t
      BY <2>6 DEF OriginFor
    <3> QED BY <1>4, <2>3, <3>1, Distinct DEF Covered, Known
  <2> QED BY <2>2, <2>4, <2>5, <2>6
<1> QED BY <1>3, <1>4

LEMMA KnownStays ==
  ASSUME IInv, NEW p \in Requests, Commit(p), NEW S, Known(code, tok, S)
  PROVE  Known(code', tok', S)
BY CommitCodes, CommitTokens DEF Known

\* What is over stays over.
LEMMA OverStays ==
  ASSUME IInv, Sweeps, NEW p \in Requests, Commit(p), NEW S, Over(code, tok, session, S)
  PROVE  Over(code', tok', session', S)
<1>1. session' \subseteq session
  BY DEF Commit
<1>2. Fresh(code', S) = {}
  BY FreshShrinks DEF Over
<1>3. Live(code', tok', S) = {}
  BY LiveShrinks DEF Over
<1> QED BY <1>1, <1>2, <1>3, KnownStays DEF Over

\* The sweep of another request loses nothing it has seen, and meets nothing new.
LEMMA SweptStays ==
  ASSUME IInv, Sweeps, NEW p \in Requests, Commit(p), NEW q \in Requests \ {p}
  PROVE  Swept(load, code', tok', session', req[q])
<1> DEFINE r == req[q]
           S == r.scope
<1>1. SUFFICES ASSUME r.op \in Sure(load)
               PROVE  /\ Known(code', tok', S) /\ SessionsSwept(session', r) /\ CodesSwept(code', r)
                      /\ TokensSwept(code', tok', r)
  BY DEF Swept
<1>2. /\ Known(code, tok, S) /\ SessionsSwept(session, r) /\ CodesSwept(code, r)
      /\ TokensSwept(code, tok, r) /\ r \in RequestType /\ r.step \in Nat /\ Compatible(r, req[p])
  BY <1>1 DEF Sweeps, Good, Swept, IInv, TypeOK, RequestType
<1>3. session' \subseteq session /\ session \cap Origins = {}
  BY Distinct DEF Commit, IInv, TypeOK
<1>4. SessionsSwept(session', r)
  BY <1>2, <1>3 DEF SessionsSwept
<1>5. r.op # "logout" \/ r.step >= 6 => S \cap session = {}
  BY <1>2, <1>3 DEF SessionsSwept
<1>6. r.step >= VoidAt(r.op) => S \cap session = {}
  <2>1. r.op = "logout" /\ r.step >= VoidAt(r.op) => r.step >= 6
    BY <1>2 DEF VoidAt
  <2> QED BY <1>5, <2>1
<1>7. r.step >= VoidAt(r.op) => Fresh(code', S) \subseteq Fresh(code, S)
  BY <1>2, <1>6, FreshShrinks
<1>8. VoidAt(r.op) \in Nat /\ LockAt(r.op) \in Nat /\ RevokeAt(r.op) \in Nat
      /\ VoidAt(r.op) < LockAt(r.op) /\ LockAt(r.op) < RevokeAt(r.op)
  BY DEF VoidAt, LockAt, RevokeAt
<1>9. CodesSwept(code', r)
  BY <1>2, <1>7, <1>8 DEF CodesSwept
<1>10. r.step > LockAt(r.op) => Live(code', tok', S) \subseteq Live(code, tok, S)
  <2>1. SUFFICES ASSUME r.step > LockAt(r.op) PROVE Live(code', tok', S) \subseteq Live(code, tok, S)
    OBVIOUS
  <2>2. S \cap session = {} /\ Fresh(code, S) \subseteq r.spent
    BY <1>2, <1>6, <1>8, <2>1 DEF CodesSwept
  <2>3. req[p].op = "redeem" /\ req[p].new \in Tokens => req[p].on \notin Fresh(code, S)
    <3>1. req[p].op = "redeem" /\ req[p].new \in Tokens => req[p].on \in req[p].spent
      BY NewToken
    <3>2. req[p].spent \cap r.spent = {}
      BY <1>2 DEF Compatible, Rows
    <3> QED BY <2>2, <3>1, <3>2
  <2>4. req[p].op = "rotate" /\ req[p].new \in Tokens => req[p].on \notin Live(code, tok, S)
    <3>1. SUFFICES ASSUME req[p].op = "rotate" PROVE Live(code, tok, S) = {}
      OBVIOUS
    <3>2. <<"user", "shared">> \in req[p].held /\ <<"client", "shared">> \in req[p].held
      <4>1. Busy(p) /\ Place(req[p].op, req[p].step) /\ Script[req[p].op][req[p].step] = "commit"
        BY AtPlace DEF Commit, At, Stmt, IInv
      <4>2. req[p].step = 6
        BY <3>1, <4>1 DEF Place
      <4>3. Held(load, session, req[p])
        BY DEF Sweeps, Good
      <4> QED BY <3>1, <4>2, <4>3 DEF Held
    <3>3. ~Excludes(r)
      BY <1>2, <3>2 DEF Excludes, Compatible, Conflict
    <3>4. CASE r.step <= RevokeAt(r.op) + 1
      BY <1>2, <2>1, <3>3, <3>4 DEF TokensSwept
    <3>5. CASE r.step > RevokeAt(r.op) + 1
      BY <1>2, <3>5 DEF TokensSwept
    <3> QED BY <1>2, <1>8, <3>4, <3>5
  <2> QED BY <1>2, <2>2, <2>3, <2>4, LiveShrinks
<1>11. TokensSwept(code', tok', r)
  <2>1. r.step > RevokeAt(r.op) + 1 => Fresh(code', S) = {}
    BY <1>2, <1>7, <1>8 DEF TokensSwept
  <2> QED BY <1>2, <1>8, <1>10, <2>1 DEF TokensSwept
<1> QED BY <1>2, <1>4, <1>9, <1>11, KnownStays

\* A request that revokes or replays inserts nothing.
LEMMA SweepsInsertNothing ==
  ASSUME IInv, NEW p \in Requests, req[p].op \in Sweeping
  PROVE  req[p].new \notin Tokens /\ req[p].new \notin Codes
<1>1. Kept(req[p])
  BY DEF IInv
<1> QED BY <1>1 DEF Kept, NewKept, Sweeping, Issuing

\* The family a replay found is still that of every token of its grant.
LEMMA ReplayStays ==
  ASSUME IInv, Sweeps, NEW p \in Requests, Commit(p), NEW q \in Requests
  PROVE  Replay(tok', req[q])
<1> DEFINE r == req[q]
<1>1. Replay(tok, r) /\ Kept(r) /\ Swept(load, code, tok, session, r) /\ r.step \in Nat
  BY DEF Sweeps, Good, IInv, TypeOK, RequestType
<1>2. r.op \in {"replayToken", "endFamily"} => r.scope = {tok'[r.on].origin}
  BY <1>1, CommitTokens DEF Replay, Kept, OnKept
<1>3. ASSUME r.op = "replayCode", r.step >= 3, NEW t \in Tokens, tok'[t].st # "none", tok'[t].origin = r.on
      PROVE  tok'[t].family = r.family
  <2>1. r.on \in Codes /\ r.scope = {r.on}
    BY <1>1, <1>3 DEF Kept, OnKept, Replay
  <2>2. CASE tok[t].st # "none"
    BY <1>1, <1>3, <2>2, CommitTokens DEF Replay
  <2>3. CASE tok[t].st = "none"
    <3>1. t = req[p].new /\ req[p].op # "redeemBare"
      BY <1>3, <2>3, CommitTokens
    <3>2. tok'[t] = Inserted(p, t) /\ req[p].new \in Tokens /\ req[p].op \in {"redeem", "rotate", "login"}
      BY <3>1, CommitTokens, NewToken DEF Issuing
    <3>3. OriginFor(req[p], t) = r.on
      BY <1>3, <3>1, <3>2, InsertedRow
    <3>4. p # q
      BY <1>3, <3>2
    <3>5. req[p].op # "redeem"
      <4>1. SUFFICES ASSUME req[p].op = "redeem" PROVE FALSE
        OBVIOUS
      <4>2. req[p].spent = {r.on} /\ code[r.on].st = "fresh"
        BY <3>2, <3>3, <4>1, NewToken DEF OriginFor
      <4>3. "replayCode" \in Sure(load)
        BY DEF Sure, Sweeping
      <4>4. Fresh(code, r.scope) \subseteq r.spent
        BY <1>1, <1>3, <4>3 DEF Swept, CodesSwept, VoidAt
      <4>5. r.on \in Fresh(code, r.scope)
        BY <2>1, <4>2 DEF Fresh, Covered
      <4> QED BY <3>4, <4>2, <4>4, <4>5 DEF IInv, Compatible, Rows
    <3>6. req[p].op # "login"
      BY <2>1, <3>3, Distinct DEF OriginFor
    <3>7. /\ req[p].on \in Tokens /\ tok[req[p].on].st = "live" /\ tok[req[p].on].origin = r.on
          /\ req[p].family = tok[req[p].on].family
      BY <3>2, <3>3, <3>5, <3>6, NewToken DEF OriginFor
    <3>8. tok'[t].family = req[p].family
      BY <3>1, <3>2, <3>5, <3>6, InsertedRow
    <3> QED BY <1>1, <1>3, <3>7, <3>8 DEF Replay
  <2> QED BY <2>2, <2>3
<1> QED BY <1>1, <1>2, <1>3 DEF Replay

\* Another request keeps what it held.
LEMMA OtherGood ==
  ASSUME IInv, Sweeps, NEW p \in Requests, Commit(p), NEW q \in Requests \ {p}
  PROVE  Good(load, code', tok', session', req[q])
<1>1. Held(load, session, req[q]) /\ Compatible(req[q], req[p])
  BY DEF Sweeps, Good, IInv
<1>2. ASSUME req[q].op = "mint", req[q].step = 2
      PROVE  req[q].on \in session' /\ <<req[q].on, "shared">> \in req[q].held
  <2>1. req[q].on \in session /\ <<req[q].on, "shared">> \in req[q].held
    BY <1>1, <1>2 DEF Held
  <2>2. <<req[q].on, "exclusive">> \notin req[p].held
    BY <1>1, <2>1 DEF Compatible, Conflict
  <2> QED BY <2>1, <2>2 DEF Commit
<1>3. Held(load, session', req[q])
  BY <1>1, <1>2 DEF Held
<1> QED BY <1>3, SweptStays, ReplayStays DEF Good

\* Once the transaction that revokes the tokens commits, the grants are over.
LEMMA SweepCommitted ==
  ASSUME IInv, Sweeps, NEW p \in Requests, Commit(p), req[p].op \in Sure(load),
         req[p].step > RevokeAt(req[p].op)
  PROVE  Over(code', tok', session', req[p].scope)
<1> DEFINE r == req[p]
           S == r.scope
<1>1. /\ Known(code, tok, S) /\ SessionsSwept(session, r) /\ CodesSwept(code, r)
      /\ TokensSwept(code, tok, r) /\ r \in RequestType /\ r.step \in Nat /\ r.op \in Sweeping
  BY DEF Sweeps, Good, Swept, IInv, TypeOK, RequestType, Sure
<1>2. VoidAt(r.op) \in Nat /\ RevokeAt(r.op) \in Nat /\ VoidAt(r.op) < RevokeAt(r.op)
      /\ (r.op = "logout" => RevokeAt(r.op) = 11)
  BY DEF VoidAt, RevokeAt
<1>3. session' \subseteq session /\ session \cap Origins = {}
  BY Distinct DEF Commit, IInv, TypeOK
<1>4. S \cap session = {}
  BY <1>1, <1>2, <1>3 DEF SessionsSwept
<1>5. Fresh(code', S) = {}
  <2>1. Fresh(code, S) \subseteq r.spent
    BY <1>1, <1>2 DEF CodesSwept
  <2> QED BY <1>1, <1>4, <2>1, FreshShrinks
<1>6. Live(code', tok', S) = {}
  <2>1. Live(code', tok', S) \subseteq Live(code, tok, S) \ r.revoked
    BY <1>1, <1>4, LiveShrinks DEF Sweeping
  <2>2. CASE r.step = RevokeAt(r.op) + 1
    BY <1>1, <2>1, <2>2 DEF TokensSwept
  <2>3. CASE r.step > RevokeAt(r.op) + 1
    BY <1>1, <2>1, <2>3 DEF TokensSwept
  <2> QED BY <1>1, <1>2, <2>2, <2>3
<1> QED BY <1>1, <1>3, <1>4, <1>5, <1>6, KnownStays DEF Over

\* Where the commits of the sweeps stand.
LEMMA SweepCommits ==
  ASSUME IInv, NEW p \in Requests, Commit(p), req[p].op \in Sweeping
  PROVE  \/ req[p].step = RevokeAt(req[p].op) + 1
         \/ req[p].op = "passwordChange" /\ req[p].step = 11
         \/ req[p].op = "logout" /\ req[p].step = 5
         \/ req[p].op = "logout" /\ req[p].step = 8
<1>1. Busy(p) /\ Place(req[p].op, req[p].step) /\ Script[req[p].op][req[p].step] = "commit"
  BY AtPlace DEF Commit, At, Stmt, IInv
<1> QED BY <1>1 DEF Place, Sweeping, RevokeAt

\* The request that commits goes on, or is over.
LEMMA OwnGood ==
  ASSUME IInv, Sweeps, NEW p \in Requests, Commit(p)
  PROVE  Good(load, code', tok', session', req'[p])
<1> DEFINE r == req[p]
           a == req'[p]
<1>1. Held(load, session, r) /\ Swept(load, code, tok, session, r) /\ r \in RequestType /\ r.step \in Nat
  BY DEF Sweeps, Good, IInv, TypeOK, RequestType
<1>2. CASE a = Idle
  <2>1. Held(load, session', Idle) /\ Replay(tok', Idle) /\ Swept(load, code', tok', session', Idle)
    BY IdleTyped DEF Held, Replay, Swept, Sure, Sweeping
  <2> QED BY <1>2, <2>1 DEF Good
<1>3. CASE a # Idle
  <2>1. /\ a.op = r.op /\ a.step = r.step + 1 /\ a.on = r.on /\ a.family = r.family
        /\ a.scope = r.scope /\ a.spent = {} /\ a.revoked = {} /\ a.dropped = {}
        /\ r.op \in {"replayCode", "replayToken", "logout", "passwordChange", "reset"}
    BY <1>3, CommitRequest DEF Rows
  <2>2. r.op = "replayCode" => r.step >= 3
    <3>1. r.op = "replayCode" => r.step = 5
      BY SweepCommits DEF Sweeping, RevokeAt
    <3> QED BY <3>1
  <2> HIDE DEF a, r
  <2>3. Held(load, session', a)
    BY <1>1, <2>1 DEF Held
  <2>4. Replay(tok', a)
    <3>1. Replay(tok', r)
      BY ReplayStays DEF r
    <3> QED BY <2>1, <2>2, <3>1 DEF Replay
  <2>5. ASSUME a.op \in Sure(load)
        PROVE  /\ Known(code', tok', a.scope) /\ SessionsSwept(session', a) /\ CodesSwept(code', a)
               /\ TokensSwept(code', tok', a)
    <3>1. /\ Known(code, tok, r.scope) /\ SessionsSwept(session, r) /\ CodesSwept(code, r)
          /\ TokensSwept(code, tok, r) /\ r.op \in Sweeping
      BY <1>1, <2>1, <2>5 DEF Swept, Sure
    <3>2. Known(code', tok', a.scope)
      BY <2>1, <3>1, KnownStays
    <3>3. session' = {s \in session : <<s, "exclusive">> \notin r.held}
      BY DEF Commit, r
    <3>4. CASE r.op = "logout" /\ r.step = 5
      <4>1. SessionsSwept(session', a)
        BY <2>1, <3>1, <3>3, <3>4 DEF SessionsSwept
      <4>2. CodesSwept(code', a) /\ TokensSwept(code', tok', a)
        BY <2>1, <3>4 DEF CodesSwept, TokensSwept, VoidAt, LockAt, RevokeAt
      <4> QED BY <3>2, <4>1, <4>2
    <3>5. CASE r.op = "logout" /\ r.step = 8
      <4>1. r.scope \cap session = {} /\ SessionsSwept(session', a)
        BY <2>1, <3>1, <3>3, <3>5 DEF SessionsSwept
      <4>2. Fresh(code, r.scope) \subseteq r.spent
        BY <3>1, <3>5 DEF CodesSwept, VoidAt
      <4>3. Fresh(code', r.scope) = {}
        BY <3>1, <4>1, <4>2, FreshShrinks DEF r
      <4>4. CodesSwept(code', a) /\ TokensSwept(code', tok', a)
        BY <2>1, <3>5, <4>3 DEF CodesSwept, TokensSwept, VoidAt, LockAt, RevokeAt
      <4> QED BY <3>2, <4>1, <4>4
    <3>6. CASE r.step > RevokeAt(r.op)
      <4>1. Over(code', tok', session', r.scope)
        BY <2>1, <2>5, <3>6, SweepCommitted DEF r
      <4>2. SessionsSwept(session', a)
        BY <2>1, <3>1, <3>6, <4>1 DEF SessionsSwept, Over, RevokeAt
      <4>3. CodesSwept(code', a) /\ TokensSwept(code', tok', a)
        <5>1. RevokeAt(r.op) \in Nat
          BY DEF RevokeAt
        <5> QED BY <1>1, <2>1, <3>6, <4>1, <5>1 DEF CodesSwept, TokensSwept, Over
      <4> QED BY <3>2, <4>2, <4>3
    <3>7. \/ r.op = "logout" /\ r.step = 5
          \/ r.op = "logout" /\ r.step = 8
          \/ r.step > RevokeAt(r.op)
      <4>1. /\ RevokeAt(r.op) \in Nat
            /\ r.op = "passwordChange" => RevokeAt(r.op) = 5
        BY DEF RevokeAt
      <4> QED BY <1>1, <3>1, <4>1, SweepCommits DEF r
    <3> QED BY <3>4, <3>5, <3>6, <3>7
  <2> QED BY <2>3, <2>4, <2>5 DEF Good, Swept, a
<1> QED BY <1>2, <1>3

\* What the transaction of p adds to the token table.
LEMMA NewRow ==
  ASSUME IInv, NEW p \in Requests, Commit(p), NEW t \in Tokens, tok[t].st = "none", tok'[t].st # "none"
  PROVE  /\ t = req[p].new /\ req[p].op \in {"redeem", "rotate", "login"}
         /\ tok'[t].st = "live" /\ ~tok'[t].expired
         /\ tok'[t].origin = OriginFor(req[p], t)
         /\ req[p].op = "redeem" => /\ req[p].on \in Codes /\ code[req[p].on].st = "fresh"
                                    /\ tok'[t].origin = req[p].on /\ tok'[t].link = req[p].on
                                    /\ tok'[t].family = t
         /\ req[p].op = "rotate" => /\ req[p].on \in Tokens /\ tok[req[p].on].st = "live"
                                    /\ tok'[t].origin = tok[req[p].on].origin /\ tok'[t].link = None
                                    /\ tok'[t].family = req[p].family
         /\ req[p].op = "login" => tok'[t].origin = t /\ tok'[t].link = None /\ tok'[t].family = t
<1>1. t = req[p].new /\ req[p].op # "redeemBare"
  BY CommitTokens
<1>2. tok'[t] = Inserted(p, t) /\ req[p].new \in Tokens /\ req[p].op \in {"redeem", "rotate", "login"}
  BY <1>1, CommitTokens, NewToken DEF Issuing
<1>3. ~Inserted(p, t).expired
  BY DEF Inserted
<1>4. /\ tok'[t].st = "live" /\ tok'[t].origin = OriginFor(req[p], t)
      /\ tok'[t].family = (IF req[p].op = "rotate" THEN req[p].family ELSE t)
      /\ tok'[t].link = (IF req[p].op = "redeem" THEN req[p].on ELSE None)
  BY <1>1, <1>2, InsertedRow
<1>5. CASE req[p].op = "redeem"
  BY <1>1, <1>2, <1>3, <1>4, <1>5, NewToken DEF OriginFor
<1>6. CASE req[p].op = "rotate"
  BY <1>1, <1>2, <1>3, <1>4, <1>6, NewToken DEF OriginFor
<1>7. CASE req[p].op = "login"
  BY <1>1, <1>2, <1>3, <1>4, <1>7 DEF OriginFor
<1> QED BY <1>2, <1>5, <1>6, <1>7

LEMMA LinksStay ==
  ASSUME IInv, Endings, Sweeps, NEW p \in Requests, Commit(p)
  PROVE  Links(tok')
<1>1. req[p].dropped = {}
  BY DEF Sweeps, Good, Held
<1>2. ASSUME NEW t \in Tokens, tok[t].st # "none"
      PROVE  /\ tok'[t].st # "none" /\ tok'[t].st # "gone"
             /\ tok'[t].origin = tok[t].origin /\ tok'[t].link = tok[t].link
  <2>1. Present(t)
    BY <1>2, RowsFound
  <2> QED BY <1>1, <1>2, <2>1, CommitTokens
<1>3. ASSUME NEW t \in Tokens PROVE tok'[t].st # "gone"
  BY <1>2, NewRow
<1>4. ASSUME NEW t \in Tokens, tok'[t].st # "none", tok'[t].link \in Codes
      PROVE  tok'[t].origin = tok'[t].link
  <2>1. CASE tok[t].st # "none"
    BY <1>2, <1>4, <2>1 DEF Endings, Links
  <2>2. CASE tok[t].st = "none"
    BY <1>4, <2>2, NewRow, Distinct
  <2> QED BY <2>1, <2>2
<1>5. ASSUME NEW t \in Tokens, tok'[t].st # "none", tok'[t].origin \in Codes
      PROVE  \E u \in Tokens : tok'[u].st # "none" /\ tok'[u].link = tok'[t].origin
  <2>1. ASSUME NEW v \in Tokens, tok[v].st # "none", tok[v].origin = tok'[t].origin
        PROVE  \E u \in Tokens : tok'[u].st # "none" /\ tok'[u].link = tok'[t].origin
    <3>1. PICK u \in Tokens : tok[u].st # "none" /\ tok[u].link = tok[v].origin
      BY <1>5, <2>1 DEF Endings, Links
    <3> QED BY <1>2, <2>1, <3>1
  <2>2. CASE tok[t].st # "none"
    BY <1>2, <2>1, <2>2
  <2>3. CASE tok[t].st = "none"
    <3>1. CASE req[p].op = "redeem"
      BY <1>5, <2>3, <3>1, NewRow
    <3>2. CASE req[p].op = "rotate"
      <4>1. req[p].on \in Tokens /\ tok[req[p].on].st # "none" /\ tok[req[p].on].origin = tok'[t].origin
        BY <1>5, <2>3, <3>2, NewRow
      <4> QED BY <2>1, <4>1
    <3>3. CASE req[p].op = "login"
      BY <1>5, <2>3, <3>3, NewRow, Distinct
    <3> QED BY <1>5, <2>3, <3>1, <3>2, <3>3, NewRow
  <2> QED BY <2>2, <2>3
<1> QED BY <1>3, <1>4, <1>5 DEF Links

\* An access token is issued with its records.
LEMMA RecordedStays ==
  ASSUME IInv, Endings, NEW p \in Requests, Commit(p), NEW t \in Tokens
  PROVE  Recorded(access', tok', t)
<1>1. Recorded(access, tok, t)
  BY DEF Endings
<1>2. CASE tok[t].st # "none"
  <2>1. t # req[p].new /\ tok'[t].st # "none" /\ tok'[t].origin = tok[t].origin /\ tok'[t].family = tok[t].family
    BY <1>2, CommitTokens
  <2>2. access'[t] = access[t]
    BY <2>1, CommitAccess
  <2> QED BY <1>1, <1>2, <2>1, <2>2 DEF Recorded
<1>3. CASE tok[t].st = "none" /\ t # req[p].new
  <2>1. access'[t] = access[t] /\ tok'[t] = tok[t]
    BY <1>3, CommitAccess, CommitTokens
  <2>2. SUFFICES ASSUME access[t].st = "issued", NEW u \in Tokens, tok'[u].st # "none",
                        tok'[u].origin = access[t].origin
                 PROVE  FALSE
    BY <1>1, <1>3, <2>1 DEF Recorded
  <2>3. /\ access[t].origin \in access[t].keys \cap Codes
        /\ \A v \in Tokens : tok[v].st # "none" => tok[v].origin # access[t].origin
    BY <1>1, <1>3, <2>2 DEF Recorded
  <2>4. tok[u].st = "none"
    BY <2>2, <2>3, CommitTokens
  <2>5. code[access[t].origin].st \in {"used", "gone"}
    BY <2>2, <2>3 DEF IInv, Tables, SpentKeys
  <2>6. CASE req[p].op = "redeem"
    BY <2>2, <2>4, <2>5, <2>6, NewRow
  <2>7. CASE req[p].op = "rotate"
    BY <2>2, <2>3, <2>4, <2>7, NewRow
  <2>8. CASE req[p].op = "login"
    BY <2>2, <2>3, <2>4, <2>8, NewRow, Distinct
  <2> QED BY <2>2, <2>4, <2>6, <2>7, <2>8, NewRow
<1>4. CASE tok[t].st = "none" /\ t = req[p].new
  <2>1. /\ access'[t].origin = OriginFor(req[p], t) /\ access'[t].keys = KeysFor(req[p], t)
        /\ req[p].op \in Issuing
    BY <1>4, CommitAccess, NewToken
  <2>2. CASE req[p].op = "redeemBare"
    <3>1. req[p].on \in Codes /\ code[req[p].on].st = "fresh"
      BY <1>4, <2>2, NewToken
    <3>2. tok'[t].st = "none"
      BY <1>4, <2>2, CommitTokens
    <3>3. access'[t].origin = req[p].on /\ access'[t].keys = {req[p].on}
      BY <2>1, <2>2 DEF OriginFor, KeysFor
    <3>4. ASSUME NEW u \in Tokens, tok'[u].st # "none" PROVE tok'[u].origin # req[p].on
      <4>1. tok[u].st # "none" /\ tok'[u].origin = tok[u].origin
        BY <2>2, <3>4, CommitTokens
      <4> QED BY <3>1, <4>1 DEF IInv, Tables, RowKept
    <3> QED BY <3>1, <3>2, <3>3, <3>4 DEF Recorded
  <2>3. CASE req[p].op # "redeemBare"
    <3>1. tok'[t].st # "none"
      BY <1>4, <2>3, CommitTokens, InsertedRow
    <3>2. tok'[t].origin = t \/ tok'[t].family \in access'[t].keys
      <4>1. CASE req[p].op = "redeem"
        BY <1>4, <2>1, <3>1, <4>1, NewRow DEF KeysFor
      <4>2. CASE req[p].op = "rotate"
        BY <1>4, <2>1, <3>1, <4>2, NewRow DEF KeysFor
      <4>3. CASE req[p].op = "login"
        BY <1>4, <3>1, <4>3, NewRow
      <4> QED BY <2>1, <2>3, <4>1, <4>2, <4>3 DEF Issuing
    <3>3. access'[t].origin = tok'[t].origin
      BY <1>4, <2>1, <3>1, NewRow
    <3> QED BY <3>1, <3>2, <3>3 DEF Recorded
  <2> QED BY <2>2, <2>3
<1> QED BY <1>2, <1>3, <1>4

\* No access token is issued for a grant whose replay was answered.
LEMMA DeniedStays ==
  ASSUME IInv, Endings, NEW p \in Requests, Commit(p)
  PROVE  Denied(access', replayed)
<1>1. SUFFICES ASSUME NEW t \in Tokens, access'[t].st = "issued", access'[t].origin \in replayed \ {t}
               PROVE  access'[t].denied
  BY DEF Denied
<1>2. CASE t # req[p].new
  <2>1. access'[t] = access[t]
    BY <1>2, CommitAccess
  <2> QED BY <1>1, <2>1 DEF Endings, Denied
<1>3. CASE t = req[p].new
  <2>1. OriginFor(req[p], t) \in replayed \ {t} /\ req[p].op \in Issuing
    BY <1>1, <1>3, CommitAccess, NewToken
  <2>2. Fresh(code, replayed) = {} /\ Live(code, tok, replayed) = {}
    BY DEF Endings, Over
  <2>3. req[p].op \notin {"redeem", "redeemBare"}
    <3>1. SUFFICES ASSUME req[p].op \in {"redeem", "redeemBare"} PROVE FALSE
      OBVIOUS
    <3>2. req[p].on \in Codes /\ code[req[p].on].st = "fresh" /\ req[p].on \in replayed
      BY <1>3, <2>1, <3>1, NewToken DEF OriginFor
    <3> QED BY <2>2, <3>2 DEF Fresh, Covered
  <2>4. req[p].op # "rotate"
    <3>1. SUFFICES ASSUME req[p].op = "rotate" PROVE FALSE
      OBVIOUS
    <3>2. req[p].on \in Tokens /\ tok[req[p].on].st = "live" /\ tok[req[p].on].origin \in replayed
      BY <1>3, <2>1, <3>1, NewToken DEF OriginFor
    <3> QED BY <2>2, <3>2 DEF Live, Covered
  <2>5. req[p].op # "login"
    BY <2>1 DEF OriginFor
  <2> QED BY <2>1, <2>3, <2>4, <2>5 DEF Issuing
<1> QED BY <1>2, <1>3

LEMMA OverUnion ==
  ASSUME NEW cd, NEW tk, NEW ss, NEW S, NEW T, Over(cd, tk, ss, S), Over(cd, tk, ss, T)
  PROVE  Over(cd, tk, ss, S \cup T)
<1>1. \A o : Covered(cd, S \cup T, o) => Covered(cd, S, o) \/ Covered(cd, T, o)
  BY DEF Covered
<1>2. Fresh(cd, S \cup T) = {}
  BY <1>1 DEF Over, Fresh
<1>3. Live(cd, tk, S \cup T) = {}
  BY <1>1 DEF Over, Live
<1>4. Known(cd, tk, S \cup T) /\ (S \cup T) \cap ss = {}
  BY DEF Over, Known
<1> QED BY <1>2, <1>3, <1>4 DEF Over

\* What an operation promised to end is over when it is done.
LEMMA EndedOver ==
  ASSUME IInv, Endings, Sweeps, NEW p \in Requests, Commit(p), Steady
  PROVE  Over(code', tok', session', ended')
<1>1. Over(code', tok', session', ended)
  BY OverStays DEF Endings
<1>2. CASE ended' = ended
  BY <1>1, <1>2
<1>3. CASE ended' # ended
  <2>1. ended' = ended \cup req[p].scope /\ ~(req[p].step < Len(Script[req[p].op]))
    BY <1>3, CommitRequest
  <2>2. Over(code', tok', session', req[p].scope)
    <3>1. Held(load, session, req[p]) /\ req[p].step \in Nat
      BY DEF Sweeps, Good, IInv, TypeOK, RequestType
    <3>2. req[p].op # "reset"
      BY <3>1 DEF Held, Steady
    <3>3. CASE req[p].scope = {}
      BY <3>3 DEF Over, Known, Fresh, Live, Covered
    <3>4. CASE req[p].op \in Sweeping
      <4>1. req[p].op \in Sure(load)
        BY <3>1, <3>4 DEF Held, Steady, Sure
      <4>2. req[p].step > RevokeAt(req[p].op)
        <5>1. req[p].op = "logout" => Len(Script[req[p].op]) = 12
          BY Scripts
        <5>2. RevokeAt(req[p].op) \in Nat /\ (req[p].op = "passwordChange" => RevokeAt(req[p].op) = 5)
          BY DEF RevokeAt
        <5>3. \/ req[p].step = RevokeAt(req[p].op) + 1
              \/ req[p].op = "passwordChange" /\ req[p].step = 11
              \/ req[p].op = "logout" /\ req[p].step = 5
              \/ req[p].op = "logout" /\ req[p].step = 8
          BY <3>4, SweepCommits
        <5>4. req[p].op = "logout" => ~(req[p].step < 12)
          BY <2>1, <5>1
        <5> QED BY <3>1, <5>2, <5>3, <5>4
      <4> QED BY <4>1, <4>2, SweepCommitted
    <3> QED BY <3>1, <3>2, <3>3, <3>4 DEF Held
  <2> QED BY <1>1, <2>1, <2>2, OverUnion
<1> QED BY <1>2, <1>3

LEMMA EndCommitStep ==
  ASSUME IInv, Endings, Sweeps, NEW p \in Requests, Commit(p), load' = load
  PROVE  (Endings /\ Sweeps)'
<1>1. Sweeps'
  <2>1. SUFFICES ASSUME NEW q \in Requests PROVE Good(load', code', tok', session', req'[q])
    BY DEF Sweeps
  <2>2. CASE q = p
    BY <2>2, OwnGood
  <2>3. CASE q # p
    <3>1. req'[q] = req[q]
      BY <2>3, CommitRequest
    <3> QED BY <2>3, <3>1, OtherGood
  <2> QED BY <2>2, <2>3
<1>2. replayed' = replayed
  BY DEF Commit
<1>3. Unexpired(load', tok')
  <2>1. \A t \in Tokens : tok'[t].st # "none" =>
          ~tok'[t].expired \/ (tok[t].st # "none" /\ tok'[t].expired = tok[t].expired)
    BY CommitTokens, NewRow
  <2> QED BY <2>1 DEF Endings, Unexpired
<1>4. Over(code', tok', session', replayed')
  BY <1>2, OverStays DEF Endings
<1>5. Steady' => Over(code', tok', session', ended')
  <2>1. Steady' => Steady
    BY DEF Steady, RowsStay
  <2> QED BY <2>1, EndedOver
<1>6. Links(tok') /\ (\A t \in Tokens : Recorded(access', tok', t)) /\ Denied(access', replayed')
  BY <1>2, LinksStay, RecordedStays, DeniedStays
<1> QED BY <1>1, <1>3, <1>4, <1>5, <1>6 DEF Endings
-------------------------------------------------------------------------
(* The other steps *)

LEMMA EndInsertStep ==
  ASSUME IInv, Endings, Sweeps, NEW p \in Requests, Insert(p), load' = load
  PROVE  (Endings /\ Sweeps)'
<1>1. CASE Sets(p, Idle)
  BY <1>1, EndIdleStep
<1>2. CASE \E t \in Unused :
              /\ req' = [req EXCEPT ![p] = After([@ EXCEPT !.new = t])]
              /\ access' = [access EXCEPT ![t] = Signed(p, t)]
              /\ UNCHANGED <<session, code, tok, begun, ended, replayed>>
  <2>1. Busy(p) /\ Stmt(p) \in {"insert", "sign"}
    BY DEF Insert, Runs, At
  <2>2. PICK t \in Unused :
              /\ req' = [req EXCEPT ![p] = After([@ EXCEPT !.new = t])]
              /\ access' = [access EXCEPT ![t] = Signed(p, t)]
              /\ UNCHANGED <<session, code, tok, begun, ended, replayed>>
    BY <1>2
  <2>3. UNCHANGED <<load, session, code, tok, begun, ended, replayed>>
    BY <2>2
  <2> QED BY <2>1, <2>2, <2>3, EndIssueStep
<1> QED BY <1>1, <1>2 DEF Insert

LEMMA EndSignStep ==
  ASSUME IInv, Endings, Sweeps, NEW p \in Requests, Sign(p), load' = load
  PROVE  (Endings /\ Sweeps)'
<1>1. Busy(p) /\ Stmt(p) \in {"insert", "sign"}
  BY DEF Sign, Runs, At
<1>2. PICK t \in Unused :
        /\ req' = [req EXCEPT ![p] = After([@ EXCEPT !.new = t])]
        /\ access' = [access EXCEPT ![t] = Signed(p, t)]
  BY DEF Sign
<1>3. UNCHANGED <<load, session, code, tok, begun, ended, replayed>>
  BY DEF Sign
<1> QED BY <1>1, <1>2, <1>3, EndIssueStep

\* The replay is answered: every access token of its grant is filed under one
\* of the keys that are denied.
LEMMA EndDenyStep ==
  ASSUME IInv, Endings, Sweeps, NEW p \in Requests, revokeGrantAccessTokens(p), load' = load
  PROVE  (Endings /\ Sweeps)'
<1> DEFINE r == req[p]
<1>1. /\ req' = [req EXCEPT ![p] = Idle] /\ UNCHANGED <<load, session, code, tok, begun>>
      /\ ended' = ended \cup r.scope /\ replayed' = replayed \cup r.scope
      /\ Busy(p) /\ Stmt(p) = "deny"
  BY DEF revokeGrantAccessTokens, At
<1>2. \A q \in Requests : req'[q] = req[q] \/ req'[q] = Idle
  BY <1>1 DEF IInv, TypeOK
<1>3. Sweeps'
  <2>1. Good(load, code, tok, session, Idle)
    BY IdleTyped DEF Good, Held, Replay, Swept, Sure, Sweeping
  <2> QED BY <1>1, <1>2, <2>1 DEF Sweeps
<1>4. \/ r.op = "replayCode" /\ r.step = 6
      \/ r.op = "replayToken" /\ r.step = 5
  BY <1>1, AtPlace DEF IInv, Stmt, Place
<1>5. /\ Kept(r) /\ Replay(tok, r) /\ Swept(load, code, tok, session, r) /\ session \cap Origins = {}
  BY Distinct DEF IInv, TypeOK, Sweeps, Good
<1>6. Over(code, tok, session, r.scope)
  <2>1. r.op \in Sure(load)
    BY <1>4 DEF Sure, Sweeping
  <2>2. Known(code, tok, r.scope) /\ r.scope \subseteq Origins /\ TokensSwept(code, tok, r)
    BY <1>4, <1>5, <2>1 DEF Swept, SessionsSwept
  <2>3. Live(code, tok, r.scope) = {} /\ Fresh(code, r.scope) = {}
    BY <1>4, <2>2 DEF TokensSwept, RevokeAt
  <2> QED BY <1>5, <2>2, <2>3 DEF Over
<1>7. ASSUME NEW t \in Tokens
      PROVE  /\ access'[t].st = access[t].st /\ access'[t].origin = access[t].origin
             /\ access'[t].keys = access[t].keys /\ (access[t].denied => access'[t].denied)
             /\ access[t].keys \cap ReplayKeys(p) # {} => access'[t].denied
  <2>1. access[t] \in AccessType
    BY DEF IInv, TypeOK
  <2>2. access'[t] = IF access[t].keys \cap ReplayKeys(p) # {}
                       THEN [access[t] EXCEPT !.denied = TRUE] ELSE access[t]
    BY DEF revokeGrantAccessTokens
  <2> QED BY <2>1, <2>2 DEF AccessType
<1>8. \A t \in Tokens : Recorded(access', tok', t)
  BY <1>1, <1>7 DEF Endings, Recorded
<1>9. ASSUME NEW t \in Tokens, access[t].st = "issued", access[t].origin \in r.scope \ {t}
      PROVE  access[t].keys \cap ReplayKeys(p) # {}
  <2>1. Recorded(access, tok, t)
    BY DEF Endings
  <2>2. CASE tok[t].st # "none"
    <3>1. /\ tok[t].origin \in r.scope /\ tok[t].family \in access[t].keys /\ tok[t].family \in Tokens
      BY <1>9, <2>1, <2>2 DEF Recorded, IInv, Tables, RowKept
    <3>2. tok[t].family = r.family
      <4>1. CASE r.op = "replayCode"
        BY <1>4, <1>5, <2>2, <3>1, <4>1 DEF Replay
      <4>2. CASE r.op = "replayToken"
        BY <1>5, <2>2, <3>1, <4>2 DEF Replay, Kept, OnKept, IInv, Tables, OneFamily
      <4> QED BY <1>4, <4>1, <4>2
    <3> QED BY <3>1, <3>2, Distinct DEF ReplayKeys
  <2>3. CASE tok[t].st = "none"
    <3>1. /\ access[t].origin \in access[t].keys \cap Codes
          /\ \A u \in Tokens : tok[u].st # "none" => tok[u].origin # access[t].origin
      BY <1>9, <2>1, <2>3 DEF Recorded
    <3>2. CASE r.op = "replayCode"
      <4>1. r.on = access[t].origin
        BY <1>5, <1>9, <3>2 DEF Replay
      <4> QED BY <3>1, <3>2, <4>1, Distinct DEF ReplayKeys
    <3>3. CASE r.op = "replayToken"
      BY <1>5, <1>9, <3>1, <3>3 DEF Replay, Kept, OnKept
    <3> QED BY <1>4, <3>2, <3>3
  <2> QED BY <2>2, <2>3
<1>10. Denied(access', replayed')
  BY <1>1, <1>7, <1>9 DEF Endings, Denied
<1>11. Over(code', tok', session', replayed')
  BY <1>1, <1>6, OverUnion DEF Endings
<1>12. Steady' => Over(code', tok', session', ended')
  <2>1. Steady' => Steady
    BY <1>1 DEF Steady, RowsStay
  <2> QED BY <1>1, <1>6, <2>1, OverUnion DEF Endings
<1>13. Links(tok') /\ Unexpired(load', tok')
  BY <1>1 DEF Endings
<1> QED BY <1>3, <1>8, <1>10, <1>11, <1>12, <1>13 DEF Endings

\* Expiry is no part of what keeps a grant ended, save that only rows that the
\* load lets expire do.
LEMMA EndExpireStep ==
  ASSUME IInv, Endings, Sweeps, NEW x \in Codes \cup Tokens, Expire(x), load' = load
  PROVE  (Endings /\ Sweeps)'
<1>1. UNCHANGED <<session, access, req, begun, ended, replayed>>
  BY DEF Expire
<1>2. ASSUME NEW c \in Codes PROVE code'[c].st = code[c].st /\ code'[c].session = code[c].session
  <2>1. code \in [Codes -> CodeType] /\ code[c] \in CodeType
    BY DEF IInv, TypeOK
  <2>2. code'[c] = code[c] \/ code'[c] = [code[c] EXCEPT !.expired = TRUE]
    BY <2>1 DEF Expire
  <2> QED BY <2>1, <2>2 DEF CodeType
<1>3. ASSUME NEW t \in Tokens
      PROVE  /\ tok'[t].st = tok[t].st /\ tok'[t].family = tok[t].family
             /\ tok'[t].origin = tok[t].origin /\ tok'[t].link = tok[t].link
             /\ t \notin load.expiring => tok'[t] = tok[t]
  <2>1. tok \in [Tokens -> TokenType] /\ tok[t] \in TokenType
    BY DEF IInv, TypeOK
  <2>2. tok'[t] = tok[t] \/ (tok'[t] = [tok[t] EXCEPT !.expired = TRUE] /\ t \in load.expiring)
    BY <2>1 DEF Expire
  <2> QED BY <2>1, <2>2 DEF TokenType
<1>4. ASSUME NEW S
      PROVE  /\ Fresh(code', S) = Fresh(code, S) /\ Live(code', tok', S) = Live(code, tok, S)
             /\ Known(code', tok', S) <=> Known(code, tok, S)
  <2>1. \A o : Covered(code', S, o) <=> Covered(code, S, o)
    BY <1>2 DEF Covered
  <2>2. Fresh(code', S) = Fresh(code, S)
    BY <1>2, <2>1 DEF Fresh
  <2>3. Live(code', tok', S) = Live(code, tok, S)
    BY <1>3, <2>1 DEF Live
  <2>4. Known(code', tok', S) <=> Known(code, tok, S)
    BY <1>2, <1>3 DEF Known
  <2> QED BY <2>2, <2>3, <2>4
<1>5. \A S : Over(code', tok', session', S) <=> Over(code, tok, session, S)
  BY <1>1, <1>4 DEF Over
<1>6. ASSUME NEW q \in Requests PROVE Good(load', code', tok', session', req'[q])
  <2> DEFINE r == req[q]
  <2>1. Held(load, session, r) /\ Replay(tok, r) /\ Swept(load, code, tok, session, r) /\ Kept(r)
    BY DEF Sweeps, Good, IInv
  <2>2. Replay(tok', r)
    BY <1>3, <2>1 DEF Replay, Kept, OnKept
  <2>3. CodesSwept(code', r) <=> CodesSwept(code, r)
    BY <1>4 DEF CodesSwept
  <2>4. TokensSwept(code', tok', r) <=> TokensSwept(code, tok, r)
    BY <1>4 DEF TokensSwept
  <2>5. Swept(load, code', tok', session, r)
    BY <1>4, <2>1, <2>3, <2>4 DEF Swept
  <2> QED BY <1>1, <2>1, <2>2, <2>5 DEF Good
<1>7. Links(tok')
  BY <1>3 DEF Endings, Links
<1>8. Unexpired(load', tok')
  BY <1>3 DEF Endings, Unexpired
<1>9. \A t \in Tokens : Recorded(access', tok', t)
  BY <1>1, <1>3 DEF Endings, Recorded
<1>10. Steady' => Steady
  BY DEF Steady, RowsStay
<1> QED BY <1>1, <1>5, <1>6, <1>7, <1>8, <1>9, <1>10 DEF Endings, Sweeps
-------------------------------------------------------------------------
LEMMA InitEnd == Init => EndInv
<1> SUFFICES ASSUME Init PROVE Endings /\ Sweeps
  BY DEF EndInv
<1>1. \A t \in Tokens : tok[t].st = "none" /\ access[t].st = "none"
  BY DEF Init, NoToken, NoAccess
<1>2. Over(code, tok, session, {})
  BY DEF Over, Known, Fresh, Live, Covered
<1>3. Endings
  BY <1>1, <1>2 DEF Init, Endings, Links, Unexpired, Recorded, Denied
<1>4. Good(load, code, tok, session, Idle)
  BY IdleTyped DEF Good, Held, Replay, Swept, Sure, Sweeping
<1>5. \A p \in Requests : req[p] = Idle
  BY DEF Init
<1> QED BY <1>3, <1>4, <1>5 DEF Sweeps

LEMMA NextEnd == IInv /\ EndInv /\ [Next]_vars => EndInv'
<1> SUFFICES ASSUME IInv, EndInv, [Next]_vars, RowsStay PROVE (Endings /\ Sweeps)'
  <2>1. [Next]_vars => load' = load
    BY DEF Next, vars
  <2>2. [Next]_vars /\ RowsStay' => RowsStay
    BY <2>1 DEF RowsStay
  <2> QED BY <2>2 DEF EndInv
<1>1. Endings /\ Sweeps
  BY DEF EndInv
<1>2. CASE UNCHANGED vars
  <2>1. Steady' <=> Steady
    BY <1>2 DEF vars, Steady, RowsStay
  <2> QED BY <1>1, <1>2, <2>1 DEF vars, Endings, Sweeps
<1>3. CASE Next
  <2>1. load' = load
    BY <1>3 DEF Next
  <2>2. ASSUME NEW x \in Codes \cup Tokens, Expire(x) PROVE (Endings /\ Sweeps)'
    BY <1>1, <2>1, <2>2, EndExpireStep
  <2>3. ASSUME NEW p \in Requests, Step(p) PROVE (Endings /\ Sweeps)'
    <3>1. CASE \/ \E c \in Codes : handleAuthorizationCode(p, c)
               \/ \E s \in Sessions : changePassword(p, s)
               \/ \E t \in Tokens : handleRefreshToken(p, t) \/ tryRevokeRefreshToken(p, t)
               \/ Arrive(p)
      BY <1>1, <2>1, <3>1, EndArrivalStep
    <3>2. CASE \E c \in Codes, s \in Sessions : mintAuthorizationCode(p, s, c)
      BY <1>1, <2>1, <3>2, EndMintStep
    <3>3. CASE LockTokens(p)
      BY <1>1, <2>1, <3>3, EndLockTokensStep
    <3>4. CASE ShareSession(p)
      BY <1>1, <2>1, <3>4, EndShareSessionStep
    <3>5. CASE FindFamily(p)
      BY <1>1, <2>1, <3>5, EndFindFamilyStep
    <3>6. CASE Snapshot(p)
      BY <1>1, <2>1, <3>6, EndSnapshotStep
    <3>7. CASE SpendCode(p)
      BY <1>1, <2>1, <3>7, EndSpendCodeStep
    <3>8. CASE SpendToken(p)
      BY <1>1, <2>1, <3>8, EndSpendTokenStep
    <3>9. CASE RevokeById(p)
      BY <1>1, <2>1, <3>9, EndRevokeByIdStep
    <3>10. CASE EndSeen(p)
      BY <1>1, <2>1, <3>10, EndEndSeenStep
    <3>11. CASE VoidSeen(p)
      BY <1>1, <2>1, <3>11, EndVoidSeenStep
    <3>12. CASE RevokeSeen(p)
      BY <1>1, <2>1, <3>12, EndRevokeSeenStep
    <3>13. CASE DeleteSeen(p)
      BY <1>1, <3>13, EndDeleteSeenStep
    <3>14. CASE Insert(p)
      BY <1>1, <2>1, <3>14, EndInsertStep
    <3>15. CASE Sign(p)
      BY <1>1, <2>1, <3>15, EndSignStep
    <3>16. CASE Commit(p)
      BY <1>1, <2>1, <3>16, EndCommitStep
    <3>17. CASE revokeGrantAccessTokens(p)
      BY <1>1, <2>1, <3>17, EndDenyStep
    <3>18. CASE Fails(p)
      BY <1>1, <2>1, <3>18, EndIdleStep DEF Fails
    <3> QED BY <2>3, <3>1, <3>2, <3>3, <3>4, <3>5, <3>6, <3>7, <3>8, <3>9, <3>10, <3>11, <3>12, <3>13,
               <3>14, <3>15, <3>16, <3>17, <3>18 DEF Step
  <2> QED BY <1>3, <2>2, <2>3 DEF Next
<1> QED BY <1>2, <1>3

\* The inductive invariant of the endings, on top of that of the tables.
THEOREM EndingsKept == Spec => []EndInv
<1>1. Init => EndInv
  BY InitEnd
<1>2. IInv /\ EndInv /\ [Next]_vars => EndInv'
  BY NextEnd
<1> QED BY <1>1, <1>2, Invariant, PTL DEF Spec

\* What a logout, a password change, a consent or client revocation, an
\* /oauth/revoke or a detected replay ended stays ended: no token of those
\* grants, nor of a code of an ended session, is usable afterwards, for any
\* number of rows and of requests in flight.  Where the two exceptions of the
\* code are at work (a password reset, which revokes tokens before it voids
\* codes, and revokeAllForUser passing over a token that has expired while a
\* rotation of it is in flight) it does not hold, so the theorem is about the
\* loads that leave them out.
THEOREM EndedStaysEnded == Spec => [](Steady => GrantsStayEnded)
<1>1. ASSUME IInv, EndInv, Steady PROVE GrantsStayEnded
  <2>1. Over(code, tok, session, ended)
    BY <1>1 DEF EndInv, Endings, Steady
  <2>2. SUFFICES ASSUME NEW t \in Tokens, Usable(t)
                 PROVE  /\ tok[t].origin \notin ended
                        /\ \A c \in Codes : c = tok[t].origin => code[c].session \notin ended
    BY DEF GrantsStayEnded
  <2>3. ~Covered(code, ended, tok[t].origin)
    BY <2>1, <2>2 DEF Over, Live, Usable
  <2>4. \A c \in Codes : c = tok[t].origin => code[c].st # "none"
    BY <1>1, <2>2 DEF IInv, Tables, RowKept, Usable
  <2> QED BY <2>3, <2>4 DEF Covered
<1> QED BY <1>1, Invariant, EndingsKept, PTL

\* Once a replay of a code or of a refresh token has been answered, every access
\* token of its grant is on the denylist, those of rotations that raced it
\* included: each is filed under the code or the family before its transaction
\* commits, and the replay holds the user's lock when it looks the family up.
THEOREM ReplayDenies == Spec => []ReplayDeniesAccess
<1>1. EndInv => ReplayDeniesAccess
  BY DEF EndInv, Endings, Denied, ReplayDeniesAccess
<1> QED BY <1>1, EndingsKept, PTL

----------------------------------------------------------------------------
(* No circle of waiting requests.  Holds says what a transaction holds when *)
(* it comes to a statement that may wait, and Rank orders those statements  *)
(* so that a blocked request is only ever blocked by one of a higher rank.  *)

UserShared      == <<"user", "shared">>
UserExclusive   == <<"user", "exclusive">>
ClientShared    == <<"client", "shared">>
ClientExclusive == <<"client", "exclusive">>

\* A transaction that has written and locked nothing yet.
Clean(r) == r.held = {} /\ Rows(r) = {}

\* One that has ended sessions and written nothing else.
SessionsOnly(r) == Rows(r) = {} /\ \A l \in r.held : l[1] \in Sessions

\* The sweeps that void codes before they take the user's lock, in one transaction.
CodesFirst == {"passwordChange", "revokeConsent"}

\* The unredeemed codes of the sessions a transaction has ended.
EndedCodes(cd, r) == {c \in Codes : cd[c].st = "fresh" /\ <<cd[c].session, "exclusive">> \in r.held}

\* A session that was ended is locked until its codes are seen, then spent, and
\* both committed; a mint about to commit has kept its session from ending.
Closes(cd, ss, r) ==
  /\ r.op = "mint" /\ r.step = 2 => r.on \in ss /\ <<r.on, "shared">> \in r.held
  /\ (\E s \in Sessions : <<s, "exclusive">> \in r.held) =>
       r.op # "mint" /\ Script[r.op][r.step] \in {"seeEndedCodes", "spendEnded", "commit"}
  /\ r.op # "idle" /\ Script[r.op][r.step] = "spendEnded" => EndedCodes(cd, r) \subseteq r.seen
  /\ r.op # "idle" /\ Script[r.op][r.step] = "commit" => EndedCodes(cd, r) \subseteq r.spent

Holds(tk, r) ==
  /\ r.step = 1 => Clean(r)
  /\ r.op = "redeem" /\ r.step = 2 => r.held = {}
  /\ r.op = "rotate" =>
       /\ r.step = 2 => r.held \subseteq {UserShared}
       /\ r.step = 3 /\ tk[r.on].st \in {"live", "revoked"} => ClientShared \in r.held
       /\ r.step > 3 => ClientShared \in r.held
  /\ r.op = "replayCode" /\ r.step <= 4 => Rows(r) = {}
  /\ r.op \in {"replayToken", "endFamily", "revokeClient"} /\ r.step <= 3 => Rows(r) = {}
  /\ r.op \in {"purgeTokens", "purgeCodes"} /\ r.step = 2 => Clean(r)
  /\ r.op = "logout" =>
       /\ r.step \in {2, 6, 7, 9} => Clean(r)
       /\ r.step \in {3, 4} => SessionsOnly(r)
       /\ r.step \in {10, 11} => Rows(r) = {}
  /\ r.op \in CodesFirst =>
       /\ r.step = 2 => Clean(r)
       /\ r.step <= 3 => r.held = {}
       /\ r.step <= 5 => r.revoked = {} /\ r.dropped = {}
  /\ r.op = "reset" =>
       /\ r.step <= 3 => r.revoked = {}
       /\ r.step <= 5 => r.spent = {} /\ r.dropped = {}
  /\ r.op \in {"passwordChange", "reset"} =>
       /\ r.step \in {7, 8} => Clean(r)
       /\ r.step \in {9, 10} => SessionsOnly(r)

Holding ==
  /\ CodesEndWithSession
  /\ \A p \in Requests : Holds(tok, req[p]) /\ Closes(code, session, req[p])

\* What a statement that may wait waits for: sessions, codes, the user, the
\* client, token rows, and last the codes of a reset, which it comes to with
\* token rows written.
Rank(p) ==
  IF Stmt(p) \in {"shareSession", "endSeen"} THEN 1
  ELSE IF Stmt(p) \in {"lockUser", "lockUserShared"} THEN 3
  ELSE IF Stmt(p) \in {"lockClient", "lockClientShared"} THEN 4
  ELSE IF Stmt(p) \in {"spendToken", "revokeSeen"} THEN 5
  ELSE IF ResetWaitsForCodes(p) THEN 6
  ELSE 2
-------------------------------------------------------------------------
(* What a transaction holds *)

LEMMA LockValues ==
  /\ LockOf["lockUser"] = UserExclusive /\ LockOf["lockUserShared"] = UserShared
  /\ LockOf["lockClient"] = ClientExclusive /\ LockOf["lockClientShared"] = ClientShared
BY DEF LockOf, UserExclusive, UserShared, ClientExclusive, ClientShared

\* The next statement, with what this one took.
LEMMA HoldsNext ==
  ASSUME IInv, Holding, NEW p \in Requests, Busy(p), NEW r \in RequestType,
         Stmt(p) \notin {"commit", "deny"},
         r.op = req[p].op, r.step = req[p].step, r.on = req[p].on,
         r.dropped = req[p].dropped \/ Stmt(p) = "deleteSeen",
         r.revoked = req[p].revoked \/ Stmt(p) \in {"spendToken", "revokeById", "revokeSeen"},
         r.spent = req[p].spent \/ Stmt(p) \in {"spendCode", "spendEnded", "voidSeen"},
         \/ r.held = req[p].held
         \/ Stmt(p) = "shareSession"
         \/ Stmt(p) = "endSeen" /\ \A l \in r.held : l \in req[p].held \/ l[1] \in Sessions
         \/ Stmt(p) \in DOMAIN LockOf /\ r.held = req[p].held \cup {LockOf[Stmt(p)]},
         Stmt(p) = "lockClientShared" /\ r.op = "rotate" /\ Present(r.on) => ClientShared \in r.held,
         Stmt(p) = "spendToken" => Present(r.on)
  PROVE  Holds(tok, After(r))
<1> DEFINE s == Stmt(p)
           a == After(r)
           b == req[p]
<1>1. /\ r.op \in Ops /\ r.step \in 1..Len(Script[r.op]) /\ r.step < Len(Script[r.op])
      /\ Place(r.op, r.step) /\ Script[r.op][r.step] = s /\ s # "commit"
  <2>1. r.op \in Ops /\ r.step \in 1..Len(Script[r.op]) /\ Place(r.op, r.step)
    BY AtPlace DEF IInv
  <2>2. Script[r.op][r.step] = s
    BY DEF Stmt
  <2>3. r.step < Len(Script[r.op])
    BY <2>1, <2>2 DEF Place
  <2> QED BY <2>1, <2>2, <2>3
<1>2. /\ a.step = r.step + 1 /\ a.op = r.op /\ a.on = r.on /\ a.spent = r.spent
      /\ a.revoked = r.revoked /\ a.dropped = r.dropped /\ a.held = r.held
  BY <1>1, AfterNext
<1>3. r.step \in Nat /\ r.step >= 1
  <2>1. r.step \in Nat
    BY DEF RequestType
  <2> QED BY <1>1, <2>1, Lengths
<1>4. Holds(tok, b)
  BY DEF Holding
<1>5. Rows(a) = a.spent \cup a.revoked \cup a.dropped /\ Rows(b) = b.spent \cup b.revoked \cup b.dropped
  BY DEF Rows
<1> HIDE DEF a, b, s
<1>6. /\ s = "deleteSeen" => r.op \in {"purgeTokens", "purgeCodes"} /\ r.step = 2
      /\ s = "spendToken" => r.op = "rotate" /\ r.step = 3
      /\ s = "revokeById" => r.op = "burnToken"
      /\ s = "spendCode" => r.op \in {"redeem", "redeemBare", "burnCode"}
      /\ s = "shareSession" => r.op = "mint"
      /\ s = "lockClient" => r.op = "revokeClient"
      /\ s = "lockUserShared" => r.op = "rotate" /\ r.step = 1
  BY <1>1 DEF Place
<1>7. /\ s = "revokeSeen" =>
           \/ r.step = 3 /\ r.op \in {"replayToken", "endFamily", "reset", "revokeClient"}
           \/ r.step = 4 /\ r.op = "replayCode"
           \/ r.step = 5 /\ r.op \in {"passwordChange", "revokeConsent"}
           \/ r.step = 11 /\ r.op = "logout"
      /\ s = "voidSeen" =>
           \/ r.step = 2 /\ r.op \in {"passwordChange", "revokeConsent"}
           \/ r.step = 5 /\ r.op = "reset"
           \/ r.step = 7 /\ r.op = "logout"
      /\ s = "endSeen" =>
           \/ r.step = 2 /\ r.op = "logout"
           \/ r.step = 8 /\ r.op \in {"passwordChange", "reset"}
      /\ s = "spendEnded" =>
           \/ r.step = 4 /\ r.op = "logout"
           \/ r.step = 10 /\ r.op \in {"passwordChange", "reset"}
      /\ s = "lockUser" =>
           \/ r.step = 1 /\ r.op \in {"replayCode", "replayToken", "endFamily", "reset"}
           \/ r.step = 3 /\ r.op \in {"passwordChange", "revokeConsent"}
           \/ r.step = 9 /\ r.op = "logout"
      /\ s = "lockClientShared" =>
           \/ r.step = 1 /\ r.op = "login"
           \/ r.step = 2 /\ r.op \in {"redeem", "rotate"}
           \/ r.step = 4 /\ r.op = "rotate"
  BY <1>1 DEF Place
<1>8. a.step # 1
  BY <1>2, <1>3
<1>9. /\ r.dropped = b.dropped \/ s = "deleteSeen"
      /\ r.revoked = b.revoked \/ s \in {"spendToken", "revokeById", "revokeSeen"}
      /\ r.spent = b.spent \/ s \in {"spendCode", "spendEnded", "voidSeen"}
      /\ \/ r.held = b.held \/ s = "shareSession"
         \/ s = "endSeen" /\ \A l \in r.held : l \in b.held \/ l[1] \in Sessions
         \/ s = "lockUser" /\ r.held = b.held \cup {UserExclusive}
         \/ s = "lockUserShared" /\ r.held = b.held \cup {UserShared}
         \/ s = "lockClient" /\ r.held = b.held \cup {ClientExclusive}
         \/ s = "lockClientShared" /\ r.held = b.held \cup {ClientShared}
      /\ r.op = b.op /\ r.step = b.step /\ r.on = b.on
  BY LockNames, LockValues DEF b, s
<1>10. /\ r.op = "logout" => r.step \notin {5, 8}
       /\ r.op \in {"passwordChange", "reset"} => r.step # 6
  <2>1. Script["logout"][5] = "commit" /\ Script["logout"][8] = "commit"
        /\ Script["passwordChange"][6] = "commit" /\ Script["reset"][6] = "commit"
    BY Scripts
  <2> QED BY <1>1, <2>1
<1>11. a.op = "redeem" /\ a.step = 2 => a.held = {}
  BY <1>2, <1>3, <1>4, <1>6, <1>7, <1>9 DEF Holds, Clean
<1>12. a.op = "rotate" =>
         /\ a.step = 2 => a.held \subseteq {UserShared}
         /\ a.step = 3 /\ tok[a.on].st \in {"live", "revoked"} => ClientShared \in a.held
         /\ a.step > 3 => ClientShared \in a.held
  <2>1. SUFFICES ASSUME r.op = "rotate"
                 PROVE  /\ r.step = 1 => a.held \subseteq {UserShared}
                        /\ r.step = 2 /\ Present(r.on) => ClientShared \in a.held
                        /\ r.step >= 3 => ClientShared \in a.held
    BY <1>2, <1>3 DEF Present
  <2>2. r.step = 1 => a.held \subseteq {UserShared}
    BY <1>2, <1>4, <1>6, <1>7, <1>9, <2>1 DEF Holds, Clean
  <2>3. r.step = 2 => s = "lockClientShared"
    BY <1>1, <2>1, Scripts
  <2>4. r.step = 2 /\ Present(r.on) => ClientShared \in a.held
    BY <1>2, <2>1, <2>3 DEF s
  <2>5. r.step = 3 => s = "spendToken"
    BY <1>1, <2>1, Scripts
  <2>6. r.step = 3 => ClientShared \in b.held
    BY <1>4, <1>9, <2>1, <2>5 DEF Holds, Present, s
  <2>7. r.step > 3 => ClientShared \in b.held
    BY <1>4, <1>9, <2>1 DEF Holds
  <2>8. r.step >= 3 => ClientShared \in a.held
    BY <1>2, <1>3, <1>6, <1>7, <1>9, <2>1, <2>6, <2>7
  <2> QED BY <2>2, <2>4, <2>8
<1>13. /\ a.op = "replayCode" /\ a.step <= 4 => Rows(a) = {}
       /\ a.op \in {"replayToken", "endFamily", "revokeClient"} /\ a.step <= 3 => Rows(a) = {}
  BY <1>2, <1>3, <1>4, <1>5, <1>6, <1>7, <1>9 DEF Holds
<1>14. a.op \in {"purgeTokens", "purgeCodes"} /\ a.step = 2 => Clean(a)
  BY <1>2, <1>3, <1>4, <1>5, <1>6, <1>7, <1>9 DEF Holds, Clean
<1>15. a.op = "logout" =>
         /\ a.step \in {2, 6, 7, 9} => Clean(a)
         /\ a.step \in {3, 4} => SessionsOnly(a)
         /\ a.step \in {10, 11} => Rows(a) = {}
  BY <1>2, <1>3, <1>4, <1>5, <1>6, <1>7, <1>9, <1>10 DEF Holds, Clean, SessionsOnly
<1>16. a.op \in CodesFirst =>
         /\ a.step = 2 => Clean(a)
         /\ a.step <= 3 => a.held = {}
         /\ a.step <= 5 => a.revoked = {} /\ a.dropped = {}
  BY <1>2, <1>3, <1>4, <1>5, <1>6, <1>7, <1>9 DEF Holds, Clean, CodesFirst
<1>17. a.op = "reset" =>
         /\ a.step <= 3 => a.revoked = {}
         /\ a.step <= 5 => a.spent = {} /\ a.dropped = {}
  BY <1>2, <1>3, <1>4, <1>5, <1>6, <1>7, <1>9 DEF Holds, Clean
<1>18. a.op \in {"passwordChange", "reset"} =>
         /\ a.step \in {7, 8} => Clean(a)
         /\ a.step \in {9, 10} => SessionsOnly(a)
  BY <1>2, <1>3, <1>4, <1>5, <1>6, <1>7, <1>9, <1>10 DEF Holds, Clean, SessionsOnly
<1>19. Holds(tok, a)
  BY <1>8, <1>11, <1>12, <1>13, <1>14, <1>15, <1>16, <1>17, <1>18 DEF Holds
<1> QED BY <1>19 DEF a

\* What follows the end of sessions in their transaction.
LEMMA Follows ==
  ASSUME NEW op \in Ops, NEW i \in 1..Len(Script[op])
  PROVE  /\ Script[op][i] = "endSeen" => Script[op][i + 1] = "seeEndedCodes"
         /\ Script[op][i] = "seeEndedCodes" => Script[op][i + 1] = "spendEnded"
         /\ Script[op][i] = "spendEnded" => Script[op][i + 1] = "commit"
<1>1. Place(op, i)
  BY Places
<1>2. Script[op][i] = "endSeen" => Script[op][i + 1] = "seeEndedCodes"
  BY <1>1, Scripts DEF Place
<1>3. Script[op][i] = "seeEndedCodes" => Script[op][i + 1] = "spendEnded"
  BY <1>1, Scripts DEF Place
<1>4. Script[op][i] = "spendEnded" => Script[op][i + 1] = "commit"
  BY <1>1, Scripts DEF Place
<1> QED BY <1>2, <1>3, <1>4

\* Sessions that end are held until their codes are seen and spent.
LEMMA ClosesNext ==
  ASSUME IInv, Holding, NEW p \in Requests, Busy(p), NEW r \in RequestType,
         Stmt(p) \notin {"commit", "deny"},
         r.op = req[p].op, r.step = req[p].step, r.on = req[p].on, req[p].spent \subseteq r.spent,
         Stmt(p) = "shareSession" => r.on \in session /\ <<r.on, "shared">> \in r.held,
         Stmt(p) # "endSeen" =>
           \A s \in Sessions : <<s, "exclusive">> \in r.held => <<s, "exclusive">> \in req[p].held,
         Stmt(p) = "seeEndedCodes" => EndedCodes(code, r) \subseteq r.seen,
         Stmt(p) = "spendEnded" => EndedCodes(code, r) \subseteq r.spent
  PROVE  Closes(code, session, After(r))
<1> DEFINE a == After(r)
           b == req[p]
           w == Stmt(p)
<1>1. /\ r.op \in Ops /\ r.step \in 1..Len(Script[r.op]) /\ r.step < Len(Script[r.op])
      /\ Place(r.op, r.step) /\ Script[r.op][r.step] = w
  <2>1. r.op \in Ops /\ r.step \in 1..Len(Script[r.op]) /\ Place(r.op, r.step)
    BY AtPlace DEF IInv
  <2>2. Script[r.op][r.step] = w
    BY DEF Stmt
  <2>3. r.step < Len(Script[r.op])
    BY <2>1, <2>2 DEF Place
  <2> QED BY <2>1, <2>2, <2>3
<1>2. /\ a.step = r.step + 1 /\ a.op = r.op /\ a.on = r.on /\ a.spent = r.spent
      /\ a.seen = r.seen /\ a.held = r.held
  BY <1>1, AfterNext
<1>3. Closes(code, session, b) /\ CodesEndWithSession
  BY DEF Holding
<1>4. r.op = b.op /\ r.step = b.step
  OBVIOUS
<1> HIDE DEF a, b, w
<1>5. ASSUME NEW s \in Sessions, <<s, "exclusive">> \in a.held
      PROVE  w \in {"endSeen", "seeEndedCodes", "spendEnded"} /\ r.op # "mint"
  <2>1. CASE w = "endSeen"
    BY <1>1, <2>1 DEF Place
  <2>2. CASE w # "endSeen"
    <3>1. <<s, "exclusive">> \in b.held
      BY <1>2, <1>5, <2>2 DEF b, w
    <3> QED BY <1>1, <1>3, <1>4, <3>1 DEF Closes, w
  <2> QED BY <2>1, <2>2
<1>6. a.op = "mint" /\ a.step = 2 => a.on \in session /\ <<a.on, "shared">> \in a.held
  <2>1. a.op = "mint" /\ a.step = 2 => r.step = 1
    BY <1>1, <1>2
  <2>2. a.op = "mint" /\ a.step = 2 => w = "shareSession"
    BY <1>1, <1>2, <2>1, Scripts
  <2> QED BY <1>2, <2>2 DEF w
<1>7. (\E s \in Sessions : <<s, "exclusive">> \in a.held) =>
        a.op # "mint" /\ Script[a.op][a.step] \in {"seeEndedCodes", "spendEnded", "commit"}
  BY <1>1, <1>2, <1>5, Follows
<1>8. Script[a.op][a.step] = "spendEnded" => EndedCodes(code, a) \subseteq a.seen
  <2>1. Script[a.op][a.step] = "spendEnded" => w = "seeEndedCodes"
    BY <1>1, <1>2, Before
  <2> QED BY <1>2, <2>1 DEF EndedCodes, w
<1>9. ASSUME Script[a.op][a.step] = "commit", NEW c \in EndedCodes(code, a)
      PROVE  c \in a.spent
  <2>1. code[c].session \in Sessions /\ <<code[c].session, "exclusive">> \in a.held
    BY <1>3, <1>9 DEF EndedCodes, CodesEndWithSession, IInv, TypeOK
  <2>2. w \in {"endSeen", "seeEndedCodes", "spendEnded"}
    BY <1>5, <2>1
  <2>3. w = "spendEnded"
    BY <1>1, <1>2, <1>9, <2>2, Follows
  <2> QED BY <1>2, <1>9, <2>3 DEF EndedCodes, w
<1>10. Closes(code, session, a)
  BY <1>6, <1>7, <1>8, <1>9 DEF Closes
<1> QED BY <1>10 DEF a

\* The step of p changes its request, and no row.
LEMMA HoldingStep ==
  ASSUME IInv, Holding, NEW p \in Requests, NEW a, req' = [req EXCEPT ![p] = a],
         UNCHANGED <<load, tok, code, session>>, Holds(tok, a), Closes(code, session, a)
  PROVE  Holding'
<1>1. \A q \in Requests : req'[q] = req[q] \/ req'[q] = a
  BY DEF IInv, TypeOK
<1>2. CodesEndWithSession'
  BY DEF Holding, CodesEndWithSession
<1>3. \A q \in Requests : Holds(tok', req'[q]) /\ Closes(code', session', req'[q])
  BY <1>1 DEF Holding
<1> QED BY <1>2, <1>3 DEF Holding

\* A request that has not run a statement yet, or is over.
LEMMA HoldsFresh ==
  ASSUME IInv, NEW r, r.step = 1, r.held = {}, Rows(r) = {}
  PROVE  Holds(tok, r) /\ Closes(code, session, r)
<1>1. r.spent = {} /\ r.revoked = {} /\ r.dropped = {}
  BY DEF Rows
<1>2. Holds(tok, r)
  BY <1>1 DEF Holds, Clean
<1>3. Closes(code, session, r)
  BY DEF Closes, EndedCodes
<1> QED BY <1>2, <1>3

LEMMA HoldingIdleStep ==
  ASSUME IInv, Holding, NEW p \in Requests, req' = [req EXCEPT ![p] = Idle],
         UNCHANGED <<load, tok, code, session>>
  PROVE  Holding'
<1>1. Holds(tok, Idle) /\ Closes(code, session, Idle)
  <2>1. Idle.step = 1
    BY DEF Idle
  <2> QED BY <2>1, IdleTyped, HoldsFresh
<1> QED BY <1>1, HoldingStep

LEMMA HoldingBeginStep ==
  ASSUME IInv, Holding, NEW p \in Requests, NEW op \in Ops,
         NEW on \in Sessions \cup Origins \cup {None},
         req' = [req EXCEPT ![p] = Running(op, on)], UNCHANGED <<load, tok, code, session>>,
         op \in {"replayToken", "endFamily"} => on \in Tokens /\ tok[on].st # "none",
         op = "replayCode" => on \in Codes
  PROVE  Holding'
<1> DEFINE r == Running(op, on)
<1>1. r.op = op /\ r.step = 1 /\ r.held = {} /\ Rows(r) = {}
  BY RunningTyped DEF IInv, Tables, RowKept
<1> HIDE DEF r
<1>2. Holds(tok, r) /\ Closes(code, session, r)
  BY <1>1, HoldsFresh
<1> QED BY <1>2, HoldingStep DEF r

\* An arrival holds nothing.
LEMMA HoldingArrivalStep ==
  ASSUME IInv, Holding, NEW p \in Requests, load' = load,
         \/ \E c \in Codes : handleAuthorizationCode(p, c)
         \/ \E s \in Sessions : changePassword(p, s)
         \/ \E t \in Tokens : handleRefreshToken(p, t) \/ tryRevokeRefreshToken(p, t)
         \/ Arrive(p)
  PROVE  Holding'
<1>1. PICK op \in Ops, on \in Sessions \cup Origins \cup {None} :
        /\ Begin(p, op, on)
        /\ op \in {"replayToken", "endFamily"} => on \in Tokens /\ tok[on].st # "none"
        /\ op = "replayCode" => on \in Codes
  <2>1. ASSUME NEW c \in Codes, handleAuthorizationCode(p, c)
        PROVE  \E op \in {"replayCode", "redeem", "redeemBare", "burnCode"} : Begin(p, op, c)
    BY <2>1 DEF handleAuthorizationCode
  <2>2. ASSUME NEW t \in Tokens, handleRefreshToken(p, t) \/ tryRevokeRefreshToken(p, t)
        PROVE  /\ tok[t].st # "none"
               /\ \E op \in {"replayToken", "endFamily", "rotate", "burnToken"} : Begin(p, op, t)
    BY <2>2 DEF handleRefreshToken, tryRevokeRefreshToken, Present
  <2>3. ASSUME NEW s \in Sessions, changePassword(p, s)
        PROVE  Begin(p, "passwordChange", s)
    BY <2>3 DEF changePassword
  <2>4. ASSUME Arrive(p)
        PROVE  \E op \in load.kinds \cap {"login", "logout", "reset", "revokeConsent", "revokeClient",
                                          "purgeTokens", "purgeCodes"} : Begin(p, op, None)
    BY <2>4 DEF Arrive
  <2> QED BY <2>1, <2>2, <2>3, <2>4, OpNames DEF Origins
<1> QED BY <1>1, HoldingBeginStep DEF Begin

LEMMA HoldingMintStep ==
  ASSUME IInv, Holding, NEW p \in Requests, NEW s \in Sessions, NEW c \in Codes,
         mintAuthorizationCode(p, s, c), load' = load
  PROVE  Holding'
<1> DEFINE r0 == Running("mint", s)
           r == [r0 EXCEPT !.new = c]
<1>1. /\ r0 \in RequestType /\ r0.op = "mint" /\ r0.step = 1 /\ r0.held = {} /\ Rows(r0) = {}
  BY RunningTyped, OpNames DEF IInv, Tables, RowKept
<1>2. req' = [req EXCEPT ![p] = r] /\ UNCHANGED <<tok, code, session>>
  BY DEF mintAuthorizationCode, Sets
<1> HIDE DEF r0
<1>3. r.op = "mint" /\ r.step = 1 /\ r.held = {} /\ Rows(r) = {}
  BY <1>1 DEF RequestType, Rows
<1> HIDE DEF r
<1>4. Holds(tok, r) /\ Closes(code, session, r)
  BY <1>3, HoldsFresh
<1> QED BY <1>2, <1>4, HoldingStep

\* Statements that take no lock.
LEMMA HoldingStatement ==
  ASSUME IInv, Holding, NEW p \in Requests, Busy(p), NEW r \in RequestType,
         req' = [req EXCEPT ![p] = After(r)], UNCHANGED <<load, tok, code, session>>,
         Stmt(p) \notin {"commit", "deny", "lockClientShared", "shareSession", "endSeen"},
         r.op = req[p].op, r.step = req[p].step, r.on = req[p].on, r.held = req[p].held,
         r.dropped = req[p].dropped \/ Stmt(p) = "deleteSeen",
         r.revoked = req[p].revoked \/ Stmt(p) \in {"spendToken", "revokeById", "revokeSeen"},
         r.spent = req[p].spent \/ Stmt(p) \in {"spendCode", "spendEnded", "voidSeen"},
         req[p].spent \subseteq r.spent,
         Stmt(p) = "spendToken" => Present(r.on),
         Stmt(p) = "seeEndedCodes" => EndedCodes(code, r) \subseteq r.seen,
         Stmt(p) = "spendEnded" => EndedCodes(code, r) \subseteq r.spent
  PROVE  Holding'
<1>1. Holds(tok, After(r))
  BY HoldsNext
<1>2. Closes(code, session, After(r))
  BY ClosesNext
<1> QED BY <1>1, <1>2, HoldingStep

LEMMA HoldingLockTokensStep ==
  ASSUME IInv, Holding, NEW p \in Requests, LockTokens(p), load' = load
  PROVE  Holding'
<1>1. PICK s \in DOMAIN LockOf :
        /\ Runs(p, s)
        /\ Sets(p, After([req[p] EXCEPT !.held =
                            IF LockKeyFound(p) THEN @ \cup {LockOf[s]} ELSE @]))
  BY DEF LockTokens
<1> DEFINE h == IF LockKeyFound(p) THEN req[p].held \cup {LockOf[s]} ELSE req[p].held
           r == [req[p] EXCEPT !.held = h]
<1>2. Busy(p) /\ Stmt(p) = s /\ req[p] \in RequestType
  BY <1>1, Unblocked DEF IInv, TypeOK
<1>3. h \in SUBSET (({"user", "client"} \cup Sessions) \X {"shared", "exclusive"})
  BY <1>2, LockTyped DEF RequestType
<1>4. req' = [req EXCEPT ![p] = After(r)] /\ UNCHANGED <<tok, code, session>>
  BY <1>1 DEF Sets
<1>5. h = req[p].held \/ h = req[p].held \cup {LockOf[s]}
  OBVIOUS
<1>6. \A x \in Sessions : <<x, "exclusive">> \in h => <<x, "exclusive">> \in req[p].held
  <2>1. \A x \in Sessions : x \notin {"user", "client"}
    BY GrantsAssumption
  <2>2. \A x \in Sessions : <<x, "exclusive">> # LockOf[s]
    BY <2>1, LockTyped
  <2> QED BY <1>5, <2>2
<1>7. s = "lockClientShared" /\ req[p].op = "rotate" /\ Present(req[p].on) => ClientShared \in h
  BY LockValues DEF LockKeyFound
<1> HIDE DEF h
<1>8. /\ r \in RequestType /\ r.op = req[p].op /\ r.step = req[p].step /\ r.on = req[p].on
      /\ r.spent = req[p].spent /\ r.revoked = req[p].revoked /\ r.dropped = req[p].dropped
      /\ r.held = h
  BY <1>2, <1>3 DEF RequestType
<1> HIDE DEF r
<1>9. s \notin {"commit", "deny", "spendToken", "shareSession", "endSeen", "seeEndedCodes", "spendEnded"}
  BY LockNames
<1>10. Holds(tok, After(r))
  BY <1>2, <1>5, <1>7, <1>8, <1>9, HoldsNext
<1>11. Closes(code, session, After(r))
  BY <1>2, <1>6, <1>8, <1>9, ClosesNext
<1> QED BY <1>4, <1>10, <1>11, HoldingStep

LEMMA HoldingShareSessionStep ==
  ASSUME IInv, Holding, NEW p \in Requests, ShareSession(p), load' = load
  PROVE  Holding'
<1>1. CASE Sets(p, Idle)
  BY <1>1, HoldingIdleStep DEF Sets
<1>2. CASE /\ req[p].on \in session
           /\ Sets(p, After([req[p] EXCEPT !.held = @ \cup LocksTaken(p)]))
  <2> DEFINE h == req[p].held \cup LocksTaken(p)
             r == [req[p] EXCEPT !.held = h]
  <2>1. Busy(p) /\ Stmt(p) = "shareSession" /\ req[p] \in RequestType
    BY Unblocked DEF ShareSession, IInv, TypeOK
  <2>2. LocksTaken(p) = {<<req[p].on, "shared">>}
    BY <2>1, LockNames DEF LocksTaken
  <2>3. h \in SUBSET (({"user", "client"} \cup Sessions) \X {"shared", "exclusive"})
    BY <2>1, <2>2, <1>2 DEF RequestType, IInv, TypeOK
  <2>4. /\ \A x \in Sessions : <<x, "exclusive">> \in h => <<x, "exclusive">> \in req[p].held
        /\ <<req[p].on, "shared">> \in h
    BY <2>2
  <2>5. req' = [req EXCEPT ![p] = After(r)] /\ UNCHANGED <<tok, code, session>>
    BY <1>2 DEF Sets
  <2> HIDE DEF h
  <2>6. /\ r \in RequestType /\ r.op = req[p].op /\ r.step = req[p].step /\ r.on = req[p].on
        /\ r.spent = req[p].spent /\ r.revoked = req[p].revoked /\ r.dropped = req[p].dropped
        /\ r.held = h
    BY <2>1, <2>3 DEF RequestType
  <2> HIDE DEF r
  <2>7. Holds(tok, After(r))
    BY <2>1, <2>6, HoldsNext
  <2>8. Closes(code, session, After(r))
    BY <1>2, <2>1, <2>4, <2>6, ClosesNext
  <2> QED BY <2>5, <2>7, <2>8, HoldingStep
<1> QED BY <1>1, <1>2 DEF ShareSession

LEMMA HoldingFindFamilyStep ==
  ASSUME IInv, Holding, NEW p \in Requests, FindFamily(p), load' = load
  PROVE  Holding'
<1>1. PICK f \in IF LinkedTo({req[p].on}) = {} THEN {None}
                 ELSE {tok[t].family : t \in LinkedTo({req[p].on})} :
        Sets(p, After([req[p] EXCEPT !.family = f]))
  BY DEF FindFamily
<1>2. f \in Tokens \cup {None}
  BY DEF LinkedTo, IInv, TypeOK, TokenType
<1> DEFINE r == [req[p] EXCEPT !.family = f]
<1>3. Busy(p) /\ Stmt(p) = "findFamily" /\ req[p] \in RequestType
  BY Unblocked DEF FindFamily, IInv, TypeOK
<1>4. /\ r \in RequestType /\ r.op = req[p].op /\ r.step = req[p].step /\ r.on = req[p].on
      /\ r.spent = req[p].spent /\ r.revoked = req[p].revoked /\ r.dropped = req[p].dropped
      /\ r.held = req[p].held
  BY <1>2, <1>3 DEF RequestType
<1>5. req' = [req EXCEPT ![p] = After(r)] /\ UNCHANGED <<tok, code, session>>
  BY <1>1 DEF Sets
<1> HIDE DEF r
<1> QED BY <1>3, <1>4, <1>5, HoldingStatement

LEMMA HoldingSnapshotStep ==
  ASSUME IInv, Holding, NEW p \in Requests, Snapshot(p), load' = load
  PROVE  Holding'
<1> DEFINE sn == Seen(p)
           r == [req[p] EXCEPT !.seen = sn]
<1>1. /\ Busy(p) /\ Stmt(p) \in Snapshots /\ req[p] \in RequestType
      /\ sn \in SUBSET (Sessions \cup Origins)
      /\ req' = [req EXCEPT ![p] = After(r)] /\ UNCHANGED <<tok, code, session>>
  BY SeenTyped DEF Snapshot, Sets, IInv, TypeOK
<1>2. Stmt(p) = "seeEndedCodes" => EndedCodes(code, req[p]) \subseteq sn
  <2>1. SUFFICES ASSUME Stmt(p) = "seeEndedCodes", NEW c \in EndedCodes(code, req[p])
                 PROVE  c \in sn
    OBVIOUS
  <2>2. c \in Codes /\ code[c].st = "fresh" /\ <<code[c].session, "exclusive">> \in req[p].held
    BY DEF EndedCodes
  <2>3. code[c].session \in Sessions
    BY <2>2 DEF Holding, CodesEndWithSession, IInv, TypeOK
  <2>4. code[c].session \in SessionsEnded(p)
    BY <2>2, <2>3 DEF SessionsEnded
  <2> QED BY <2>1, <2>2, <2>4 DEF Seen
<1> HIDE DEF sn
<1>3. /\ r \in RequestType /\ r.op = req[p].op /\ r.step = req[p].step /\ r.on = req[p].on
      /\ r.spent = req[p].spent /\ r.revoked = req[p].revoked /\ r.dropped = req[p].dropped
      /\ r.held = req[p].held /\ r.seen = sn
  BY <1>1 DEF RequestType
<1> HIDE DEF r
<1>4. Stmt(p) = "seeEndedCodes" => EndedCodes(code, r) \subseteq r.seen
  BY <1>2, <1>3 DEF EndedCodes
<1> QED BY <1>1, <1>3, <1>4, HoldingStatement DEF Snapshots

LEMMA HoldingEndSeenStep ==
  ASSUME IInv, Holding, NEW p \in Requests, EndSeen(p), load' = load
  PROVE  Holding'
<1> DEFINE h == req[p].held \cup {<<s, "exclusive">> : s \in req[p].seen \cap session}
           r == [req[p] EXCEPT !.seen = {}, !.held = h]
<1>1. /\ Busy(p) /\ Stmt(p) = "endSeen" /\ req[p] \in RequestType
      /\ req' = [req EXCEPT ![p] = After(r)] /\ UNCHANGED <<tok, code, session>>
  BY Unblocked DEF EndSeen, Sets, IInv, TypeOK
<1>2. h \in SUBSET (({"user", "client"} \cup Sessions) \X {"shared", "exclusive"})
  BY <1>1 DEF RequestType, IInv, TypeOK
<1>3. \A l \in h : l \in req[p].held \/ l[1] \in Sessions
  BY DEF IInv, TypeOK
<1> HIDE DEF h
<1>4. /\ r \in RequestType /\ r.op = req[p].op /\ r.step = req[p].step /\ r.on = req[p].on
      /\ r.spent = req[p].spent /\ r.revoked = req[p].revoked /\ r.dropped = req[p].dropped
      /\ r.held = h
  BY <1>1, <1>2 DEF RequestType
<1> HIDE DEF r
<1>5. Holds(tok, After(r))
  BY <1>1, <1>3, <1>4, HoldsNext
<1>6. Closes(code, session, After(r))
  BY <1>1, <1>4, ClosesNext
<1> QED BY <1>1, <1>5, <1>6, HoldingStep

LEMMA HoldingVoidSeenStep ==
  ASSUME IInv, Holding, NEW p \in Requests, VoidSeen(p), load' = load
  PROVE  Holding'
<1> DEFINE x == req[p].spent \cup {c \in req[p].seen : code[c].st = "fresh"}
           r == [req[p] EXCEPT !.seen = {}, !.spent = x]
<1>0. PICK s \in {"spendEnded", "voidSeen"} : Runs(p, s)
  BY DEF VoidSeen
<1>1. /\ Busy(p) /\ Stmt(p) = s /\ req[p] \in RequestType /\ Kept(req[p])
      /\ req' = [req EXCEPT ![p] = After(r)] /\ UNCHANGED <<tok, code, session>>
  BY <1>0, Unblocked DEF VoidSeen, Sets, IInv, TypeOK
<1>2. x \in SUBSET Codes /\ req[p].spent \subseteq x
  BY <1>1 DEF Kept, SeenKept, Stmt, Busy, RequestType
<1>3. Stmt(p) = "spendEnded" => EndedCodes(code, req[p]) \subseteq x
  <2>1. Stmt(p) = "spendEnded" => EndedCodes(code, req[p]) \subseteq req[p].seen
    BY <1>1 DEF Holding, Closes, Stmt, Busy
  <2> QED BY <2>1 DEF EndedCodes
<1> HIDE DEF x
<1>4. /\ r \in RequestType /\ r.op = req[p].op /\ r.step = req[p].step /\ r.on = req[p].on
      /\ r.revoked = req[p].revoked /\ r.dropped = req[p].dropped /\ r.held = req[p].held
      /\ r.spent = x
  BY <1>1, <1>2 DEF RequestType
<1> HIDE DEF r
<1>5. Stmt(p) = "spendEnded" => EndedCodes(code, r) \subseteq r.spent
  BY <1>3, <1>4 DEF EndedCodes
<1> QED BY <1>1, <1>2, <1>4, <1>5, HoldingStatement

LEMMA HoldingRevokeSeenStep ==
  ASSUME IInv, Holding, NEW p \in Requests, RevokeSeen(p), load' = load
  PROVE  Holding'
<1> DEFINE x == req[p].revoked \cup {t \in req[p].seen : tok[t].st = "live"}
           r == [req[p] EXCEPT !.seen = {}, !.revoked = x]
<1>1. /\ Busy(p) /\ Stmt(p) = "revokeSeen" /\ req[p] \in RequestType /\ Kept(req[p])
      /\ req' = [req EXCEPT ![p] = After(r)] /\ UNCHANGED <<tok, code, session>>
  BY Unblocked DEF RevokeSeen, Sets, IInv, TypeOK
<1>2. x \in SUBSET Tokens
  BY <1>1 DEF Kept, SeenKept, Stmt, Busy, RequestType
<1> HIDE DEF x
<1>3. /\ r \in RequestType /\ r.op = req[p].op /\ r.step = req[p].step /\ r.on = req[p].on
      /\ r.spent = req[p].spent /\ r.dropped = req[p].dropped /\ r.held = req[p].held
  BY <1>1, <1>2 DEF RequestType
<1> HIDE DEF r
<1> QED BY <1>1, <1>3, HoldingStatement

LEMMA HoldingDeleteSeenStep ==
  ASSUME IInv, Holding, NEW p \in Requests, DeleteSeen(p), load' = load
  PROVE  Holding'
<1> DEFINE x == {y \in req[p].seen : IF y \in Tokens THEN Present(y) ELSE Stored(y)}
           r == [req[p] EXCEPT !.seen = {}, !.dropped = x]
<1>1. /\ Busy(p) /\ Stmt(p) = "deleteSeen" /\ req[p] \in RequestType /\ Kept(req[p])
      /\ req' = [req EXCEPT ![p] = After(r)] /\ UNCHANGED <<tok, code, session>>
  BY Unblocked DEF DeleteSeen, Sets, IInv, TypeOK
<1>2. x \in SUBSET Origins
  <2>1. req[p].seen \subseteq Codes \/ req[p].seen \subseteq Tokens
    BY <1>1 DEF Kept, SeenKept, Stmt, Busy
  <2> QED BY <2>1 DEF Origins
<1> HIDE DEF x
<1>3. /\ r \in RequestType /\ r.op = req[p].op /\ r.step = req[p].step /\ r.on = req[p].on
      /\ r.spent = req[p].spent /\ r.revoked = req[p].revoked /\ r.held = req[p].held
  BY <1>1, <1>2 DEF RequestType
<1> HIDE DEF r
<1> QED BY <1>1, <1>3, HoldingStatement

LEMMA HoldingRevokeByIdStep ==
  ASSUME IInv, Holding, NEW p \in Requests, RevokeById(p), load' = load
  PROVE  Holding'
<1>1. CASE Sets(p, Idle)
  BY <1>1, HoldingIdleStep DEF Sets
<1>2. CASE Sets(p, After([req[p] EXCEPT !.revoked = {req[p].on}]))
  <2> DEFINE x == {req[p].on}
             r == [req[p] EXCEPT !.revoked = x]
  <2>1. /\ Busy(p) /\ Stmt(p) = "revokeById" /\ req[p] \in RequestType /\ Kept(req[p])
        /\ req' = [req EXCEPT ![p] = After(r)] /\ UNCHANGED <<tok, code, session>>
    BY <1>2, Unblocked DEF RevokeById, Sets, IInv, TypeOK
  <2>2. req[p].on \in Tokens
    BY <2>1, AtPlace DEF Stmt, Place, IInv, Kept, OnKept
  <2> HIDE DEF x
  <2>3. /\ r \in RequestType /\ r.op = req[p].op /\ r.step = req[p].step /\ r.on = req[p].on
        /\ r.spent = req[p].spent /\ r.dropped = req[p].dropped /\ r.held = req[p].held
    BY <2>1, <2>2 DEF RequestType, x
  <2> HIDE DEF r
  <2> QED BY <2>1, <2>3, HoldingStatement
<1> QED BY <1>1, <1>2 DEF RevokeById

LEMMA HoldingSpendCodeStep ==
  ASSUME IInv, Holding, NEW p \in Requests, SpendCode(p), load' = load
  PROVE  Holding'
<1>1. /\ Busy(p) /\ Stmt(p) = "spendCode" /\ req[p] \in RequestType /\ Kept(req[p])
      /\ req[p].op \in {"redeem", "redeemBare", "burnCode"} /\ req[p].step = 1
  BY Unblocked, AtPlace DEF SpendCode, IInv, TypeOK, Stmt, Place
<1>2. req[p].on \in Codes
  BY <1>1 DEF Kept, OnKept
<1>3. CASE Sets(p, Idle)
  BY <1>3, HoldingIdleStep DEF Sets
<1>4. CASE Sets(p, Running("replayCode", req[p].on))
  <2>1. "replayCode" \in Ops /\ req[p].on \in Sessions \cup Origins \cup {None}
    BY <1>2, OpNames DEF Origins
  <2>2. /\ req' = [req EXCEPT ![p] = Running("replayCode", req[p].on)] /\ UNCHANGED <<load, tok, code, session>>
    BY <1>4 DEF Sets
  <2> QED BY <1>2, <2>1, <2>2, HoldingBeginStep
<1>5. CASE Sets(p, After([req[p] EXCEPT !.spent = {req[p].on}]))
  <2> DEFINE x == {req[p].on}
             r == [req[p] EXCEPT !.spent = x]
  <2>1. req' = [req EXCEPT ![p] = After(r)] /\ UNCHANGED <<tok, code, session>>
    BY <1>5 DEF Sets
  <2> HIDE DEF x
  <2>2. /\ r \in RequestType /\ r.op = req[p].op /\ r.step = req[p].step /\ r.on = req[p].on
        /\ r.revoked = req[p].revoked /\ r.dropped = req[p].dropped /\ r.held = req[p].held
    BY <1>1, <1>2 DEF RequestType, x
  <2> HIDE DEF r
  <2>3. req[p].spent = {}
    BY <1>1 DEF Holding, Holds, Clean, Rows
  <2> QED BY <1>1, <2>1, <2>2, <2>3, HoldingStatement
<1> QED BY <1>3, <1>4, <1>5 DEF SpendCode

\* A rotation that spends its token found it in the table, and so held the
\* client's lock.
LEMMA HoldingSpendTokenStep ==
  ASSUME IInv, Holding, NEW p \in Requests, SpendToken(p), load' = load
  PROVE  Holding'
<1>1. /\ Busy(p) /\ Stmt(p) = "spendToken" /\ req[p] \in RequestType /\ Kept(req[p])
      /\ req[p].op = "rotate"
  BY Unblocked, AtPlace DEF SpendToken, IInv, TypeOK, Stmt, Place
<1>2. req[p].on \in Tokens /\ tok[req[p].on].st # "none"
  BY <1>1 DEF Kept, OnKept
<1>3. CASE Sets(p, Running("replayToken", req[p].on))
  <2>1. "replayToken" \in Ops /\ req[p].on \in Sessions \cup Origins \cup {None}
    BY <1>2, OpNames DEF Origins
  <2>2. /\ req' = [req EXCEPT ![p] = Running("replayToken", req[p].on)] /\ UNCHANGED <<load, tok, code, session>>
    BY <1>3 DEF Sets
  <2> QED BY <1>2, <2>1, <2>2, HoldingBeginStep
<1>4. CASE RotatesToken(p) /\ Sets(p, After([req[p] EXCEPT !.revoked = {req[p].on}]))
  <2> DEFINE x == {req[p].on}
             r == [req[p] EXCEPT !.revoked = x]
  <2>1. req' = [req EXCEPT ![p] = After(r)] /\ UNCHANGED <<tok, code, session>>
    BY <1>4 DEF Sets
  <2> HIDE DEF x
  <2>2. /\ r \in RequestType /\ r.op = req[p].op /\ r.step = req[p].step /\ r.on = req[p].on
        /\ r.spent = req[p].spent /\ r.dropped = req[p].dropped /\ r.held = req[p].held
    BY <1>1, <1>2 DEF RequestType, x
  <2> HIDE DEF r
  <2>3. Present(r.on)
    BY <1>4, <2>2 DEF RotatesToken, Present
  <2> QED BY <1>1, <2>1, <2>2, <2>3, HoldingStatement
<1> QED BY <1>3, <1>4 DEF SpendToken

LEMMA HoldingIssueStep ==
  ASSUME IInv, Holding, NEW p \in Requests, NEW t \in Tokens, Busy(p), Stmt(p) \in {"insert", "sign"},
         req' = [req EXCEPT ![p] = After([@ EXCEPT !.new = t])], UNCHANGED <<load, tok, code, session>>
  PROVE  Holding'
<1> DEFINE r == [req[p] EXCEPT !.new = t]
<1>1. req[p] \in RequestType /\ req' = [req EXCEPT ![p] = After(r)]
  BY DEF IInv, TypeOK
<1>2. /\ r \in RequestType /\ r.op = req[p].op /\ r.step = req[p].step /\ r.on = req[p].on
      /\ r.spent = req[p].spent /\ r.revoked = req[p].revoked /\ r.dropped = req[p].dropped
      /\ r.held = req[p].held
  BY <1>1 DEF RequestType, Origins
<1> HIDE DEF r
<1> QED BY <1>1, <1>2, HoldingStatement

LEMMA HoldingInsertStep ==
  ASSUME IInv, Holding, NEW p \in Requests, Insert(p) \/ Sign(p), load' = load
  PROVE  Holding'
<1>1. CASE Sets(p, Idle)
  BY <1>1, HoldingIdleStep DEF Sets
<1>2. CASE \E t \in Unused : req' = [req EXCEPT ![p] = After([@ EXCEPT !.new = t])] /\ UNCHANGED <<tok, code, session>>
  <2>1. PICK t \in Tokens : req' = [req EXCEPT ![p] = After([@ EXCEPT !.new = t])] /\ UNCHANGED <<tok, code, session>>
    BY <1>2, UnusedFresh
  <2>2. Busy(p) /\ Stmt(p) \in {"insert", "sign"}
    BY DEF Insert, Sign, Runs, At
  <2> QED BY <2>1, <2>2, HoldingIssueStep
<1> QED BY <1>1, <1>2 DEF Insert, Sign

\* Other requests than the one that commits: a token that was deleted stays so.
LEMMA HoldsStays ==
  ASSUME IInv, Holding, NEW q \in Requests, req'[q] = req[q], load' = load,
         \A t \in Tokens : tok[t].st # "none" /\ tok'[t].st \in {"live", "revoked"} =>
           tok[t].st \in {"live", "revoked"}
  PROVE  Holds(tok', req'[q])
<1>1. Holds(tok, req[q]) /\ Kept(req[q])
  BY DEF Holding, IInv
<1>2. req[q].op = "rotate" => req[q].on \in Tokens /\ tok[req[q].on].st # "none"
  BY <1>1 DEF Kept, OnKept
<1> QED BY <1>1, <1>2 DEF Holds

\* A mint that commits has kept its session from ending.
LEMMA MintCommits ==
  ASSUME IInv, Holding, NEW p \in Requests, Commit(p), req[p].new \in Codes
  PROVE  /\ req[p].on \in session /\ <<req[p].on, "shared">> \in req[p].held
         /\ <<req[p].on, "exclusive">> \notin req[p].held
<1>1. req[p].op = "mint" /\ Stmt(p) = "commit" /\ req[p].on \in Sessions
  BY DEF IInv, Kept, NewKept, OnKept, Commit, At
<1>2. req[p].step = 2
  BY <1>1, AtPlace DEF Stmt, Place, IInv, Commit, At
<1> QED BY <1>1, <1>2 DEF Holding, Closes

\* A commit leaves no other request a code to end that it did not have: a mint
\* shares its session's lock with nobody who ends it.
LEMMA EndedCodesShrink ==
  ASSUME IInv, Holding, NEW p \in Requests, Commit(p), NEW q \in Requests \ {p}
  PROVE  EndedCodes(code', req[q]) \subseteq EndedCodes(code, req[q])
<1>1. SUFFICES ASSUME NEW c \in Codes, code'[c].st = "fresh",
                      <<code'[c].session, "exclusive">> \in req[q].held
               PROVE  code[c].st = "fresh" /\ <<code[c].session, "exclusive">> \in req[q].held
  BY DEF EndedCodes
<1>2. CASE c = req[p].new
  <2>1. Compatible(req[p], req[q])
    BY DEF IInv
  <2>2. <<req[p].on, "shared">> \in req[p].held
    BY <1>2, MintCommits
  <2>3. code'[c].session = req[p].on
    BY <1>2, CommitCodes
  <2> QED BY <1>1, <2>1, <2>2, <2>3 DEF Compatible, Conflict
<1>3. CASE c # req[p].new
  <2>1. code[c].st = "fresh"
    BY <1>1, <1>3, CommitCodes
  <2> QED BY <1>1, <2>1, CommitCodes
<1> QED BY <1>2, <1>3

\* The new code is of a live session, and the sessions that end have no codes left.
LEMMA CodesCommit ==
  ASSUME IInv, Holding, NEW p \in Requests, Commit(p)
  PROVE  CodesEndWithSession'
<1>1. SUFFICES ASSUME NEW c \in Codes, code'[c].st = "fresh"
               PROVE  code'[c].session \in session'
  BY DEF CodesEndWithSession
<1>2. session' = {s \in session : <<s, "exclusive">> \notin req[p].held}
  BY DEF Commit
<1>3. CASE c = req[p].new
  BY <1>2, <1>3, MintCommits, CommitCodes
<1>4. CASE c # req[p].new
  <2>1. /\ code[c].st = "fresh" /\ c \notin req[p].spent /\ code'[c].session = code[c].session
    BY <1>1, <1>4, CommitCodes
  <2>2. code[c].session \in session
    BY <2>1 DEF Holding, CodesEndWithSession
  <2>3. EndedCodes(code, req[p]) \subseteq req[p].spent
    BY DEF Holding, Closes, Commit, At, Busy, Stmt
  <2>4. <<code[c].session, "exclusive">> \notin req[p].held
    BY <2>1, <2>3 DEF EndedCodes
  <2> QED BY <1>2, <2>1, <2>2, <2>4
<1> QED BY <1>3, <1>4

LEMMA HoldingCommitStep ==
  ASSUME IInv, Holding, NEW p \in Requests, Commit(p), load' = load
  PROVE  Holding'
<1>1. ASSUME NEW q \in Requests \ {p} PROVE Holds(tok', req'[q]) /\ Closes(code', session', req'[q])
  <2>1. ASSUME NEW t \in Tokens, tok[t].st # "none", tok'[t].st \in {"live", "revoked"}
        PROVE  tok[t].st \in {"live", "revoked"}
    <3>1. tok[t].st \in {"none", "live", "revoked", "gone"}
      BY DEF IInv, TypeOK, TokenType
    <3>2. tok[t].st = "gone" => tok'[t].st = "gone"
      BY CommitTokens
    <3> QED BY <2>1, <3>1, <3>2
  <2>2. req'[q] = req[q]
    BY CommitRequest
  <2>3. Holds(tok', req'[q])
    BY <2>1, <2>2, HoldsStays
  <2>4. Closes(code, session, req[q]) /\ Compatible(req[q], req[p])
    BY DEF Holding, IInv
  <2>5. ASSUME NEW s \in session, <<s, "shared">> \in req[q].held PROVE s \in session'
    <3>1. <<s, "exclusive">> \notin req[p].held
      BY <2>4, <2>5 DEF Compatible, Conflict
    <3> QED BY <3>1 DEF Commit
  <2>6. Closes(code', session', req[q])
    BY <2>4, <2>5, EndedCodesShrink DEF Closes
  <2> QED BY <2>2, <2>3, <2>6
<1>2. Holds(tok', req'[p]) /\ Closes(code', session', req'[p])
  <2> DEFINE a == req'[p]
  <2>1. CASE a = Idle
    <3>1. Holds(tok', Idle)
      BY IdleTyped DEF Holds, Clean, CodesFirst, Idle
    <3>2. Closes(code', session', Idle)
      BY IdleTyped DEF Closes
    <3> QED BY <2>1, <3>1, <3>2
  <2>2. CASE /\ a.op \in {"replayCode", "replayToken", "logout", "passwordChange", "reset"}
             /\ a.op = req[p].op
    <3>1. Rows(a) = {} /\ a.held = {}
      <4>1. Rows(req[p])' = Rows(a)
        BY DEF Rows
      <4> QED BY <4>1, CommitRequest
    <3>2. Holds(tok, req[p])
      BY DEF Holding
    <3> HIDE DEF a
    <3>3. a.spent = {} /\ a.revoked = {} /\ a.dropped = {}
      BY <3>1 DEF Rows
    <3>4. Holds(tok', a)
      BY <2>2, <3>1, <3>3 DEF Holds, Clean, SessionsOnly
    <3>5. Closes(code', session', a)
      BY <2>2, <3>1 DEF Closes, EndedCodes
    <3> QED BY <3>4, <3>5 DEF a
  <2> QED BY <2>1, <2>2, CommitRequest
<1> QED BY <1>1, <1>2, CodesCommit DEF Holding

LEMMA HoldingExpireStep ==
  ASSUME IInv, Holding, NEW x \in Codes \cup Tokens, Expire(x), load' = load
  PROVE  Holding'
<1>1. req' = req /\ session' = session
  BY DEF Expire
<1>2. ASSUME NEW t \in Tokens PROVE tok'[t].st = tok[t].st
  <2>1. tok \in [Tokens -> TokenType] /\ tok[t] \in TokenType
    BY DEF IInv, TypeOK
  <2>2. tok'[t] = tok[t] \/ tok'[t] = [tok[t] EXCEPT !.expired = TRUE]
    BY <2>1 DEF Expire
  <2> QED BY <2>1, <2>2 DEF TokenType
<1>3. ASSUME NEW c \in Codes PROVE code'[c].st = code[c].st /\ code'[c].session = code[c].session
  <2>1. code \in [Codes -> CodeType] /\ code[c] \in CodeType
    BY DEF IInv, TypeOK
  <2>2. code'[c] = code[c] \/ code'[c] = [code[c] EXCEPT !.expired = TRUE]
    BY <2>1 DEF Expire
  <2> QED BY <2>1, <2>2 DEF CodeType
<1>4. ASSUME NEW q \in Requests PROVE Holds(tok', req'[q]) /\ Closes(code', session', req'[q])
  <2>1. Holds(tok', req'[q])
    BY <1>1, <1>2, HoldsStays
  <2>2. EndedCodes(code', req[q]) = EndedCodes(code, req[q])
    BY <1>3 DEF EndedCodes
  <2>3. Closes(code, session, req[q])
    BY DEF Holding
  <2> QED BY <1>1, <2>1, <2>2, <2>3 DEF Closes
<1>5. CodesEndWithSession'
  BY <1>1, <1>3 DEF Holding, CodesEndWithSession
<1> QED BY <1>4, <1>5 DEF Holding
-------------------------------------------------------------------------
LEMMA InitHolding == Init => IInv /\ Holding
<1> SUFFICES ASSUME Init PROVE IInv /\ Holding
  OBVIOUS
<1>1. IInv
  BY InitIInv
<1>2. Holds(tok, Idle) /\ Closes(code, session, Idle)
  <2>1. Idle.step = 1
    BY DEF Idle
  <2> QED BY <1>1, <2>1, IdleTyped, HoldsFresh
<1>3. (\A p \in Requests : req[p] = Idle) /\ CodesEndWithSession
  BY DEF Init, CodesEndWithSession, NoCode
<1> QED BY <1>1, <1>2, <1>3 DEF Holding

LEMMA NextHolding == IInv /\ Holding /\ [Next]_vars => Holding'
<1> SUFFICES ASSUME IInv, Holding, [Next]_vars PROVE Holding'
  OBVIOUS
<1>1. CASE UNCHANGED vars
  BY <1>1 DEF vars, Holding, CodesEndWithSession
<1>2. CASE Next
  <2>1. load' = load
    BY <1>2 DEF Next
  <2>2. ASSUME NEW x \in Codes \cup Tokens, Expire(x) PROVE Holding'
    BY <2>1, <2>2, HoldingExpireStep
  <2>3. ASSUME NEW p \in Requests, Step(p) PROVE Holding'
    <3>1. CASE \/ \E c \in Codes : handleAuthorizationCode(p, c)
               \/ \E s \in Sessions : changePassword(p, s)
               \/ \E t \in Tokens : handleRefreshToken(p, t) \/ tryRevokeRefreshToken(p, t)
               \/ Arrive(p)
      BY <2>1, <3>1, HoldingArrivalStep
    <3>2. CASE \E c \in Codes, s \in Sessions : mintAuthorizationCode(p, s, c)
      BY <2>1, <3>2, HoldingMintStep
    <3>3. CASE LockTokens(p)
      BY <2>1, <3>3, HoldingLockTokensStep
    <3>4. CASE ShareSession(p)
      BY <2>1, <3>4, HoldingShareSessionStep
    <3>5. CASE FindFamily(p)
      BY <2>1, <3>5, HoldingFindFamilyStep
    <3>6. CASE Snapshot(p)
      BY <2>1, <3>6, HoldingSnapshotStep
    <3>7. CASE SpendCode(p)
      BY <2>1, <3>7, HoldingSpendCodeStep
    <3>8. CASE SpendToken(p)
      BY <2>1, <3>8, HoldingSpendTokenStep
    <3>9. CASE RevokeById(p)
      BY <2>1, <3>9, HoldingRevokeByIdStep
    <3>10. CASE EndSeen(p)
      BY <2>1, <3>10, HoldingEndSeenStep
    <3>11. CASE VoidSeen(p)
      BY <2>1, <3>11, HoldingVoidSeenStep
    <3>12. CASE RevokeSeen(p)
      BY <2>1, <3>12, HoldingRevokeSeenStep
    <3>13. CASE DeleteSeen(p)
      BY <2>1, <3>13, HoldingDeleteSeenStep
    <3>14. CASE Insert(p) \/ Sign(p)
      BY <2>1, <3>14, HoldingInsertStep
    <3>15. CASE Commit(p)
      BY <2>1, <3>15, HoldingCommitStep
    <3>16. CASE revokeGrantAccessTokens(p)
      BY <2>1, <3>16, HoldingIdleStep DEF revokeGrantAccessTokens
    <3>17. CASE Fails(p)
      BY <2>1, <3>17, HoldingIdleStep DEF Fails, Sets
    <3> QED BY <2>3, <3>1, <3>2, <3>3, <3>4, <3>5, <3>6, <3>7, <3>8, <3>9, <3>10, <3>11, <3>12, <3>13,
               <3>14, <3>15, <3>16, <3>17 DEF Step
  <2> QED BY <1>2, <2>2, <2>3 DEF Next
<1> QED BY <1>1, <1>2

-------------------------------------------------------------------------
(* Who waits for whom *)

\* A request that waits is at one of a few statements. An insert never waits
\* for the unique index: both redemptions would have spent the same code.
LEMMA Waits ==
  ASSUME IInv, Holding, NEW p \in Requests, Busy(p), NEW q \in Blockers(p)
  PROVE  /\ Stmt(p) \in {"shareSession", "endSeen", "spendEnded", "spendCode", "deleteSeen", "revokeById",
                         "voidSeen", "lockUser", "lockUserShared", "lockClient", "lockClientShared", "spendToken",
                         "revokeSeen"}
         /\ Stmt(p) = "lockClientShared" /\ req[p].op = "rotate" => req[p].step = 2
<1>1. q \in Requests \ {p} /\ Compatible(req[p], req[q])
  BY DEF Blockers, IInv
<1>2. CASE \E l \in req[q].held, m \in LocksTaken(p) : Conflict(l, m)
  <2>1. Stmt(p) \in {"shareSession", "endSeen", "lockUser", "lockUserShared", "lockClient",
                     "lockClientShared"}
    BY <1>2, LockNames DEF LocksTaken
  <2>2. ASSUME Stmt(p) = "lockClientShared", req[p].op = "rotate", req[p].step # 2 PROVE FALSE
    <3>1. req[p].step = 4
      BY <2>2, AtPlace DEF Stmt, Place, IInv
    <3>2. ClientShared \in req[p].held
      BY <2>2, <3>1 DEF Holding, Holds
    <3>3. LocksTaken(p) = {ClientShared}
      BY <2>2, LockNames, LockValues DEF LocksTaken
    <3> QED BY <1>1, <1>2, <3>2, <3>3 DEF Compatible, Conflict
  <2> QED BY <2>1, <2>2
<1>3. CASE RowsLockedBy(q) \cap RowsWritten(p) # {}
  BY <1>3 DEF RowsWritten
<1>4. CASE /\ Stmt(p) = "insert" /\ req[p].op = "redeem"
           /\ req[q].op = "redeem" /\ req[q].on = req[p].on /\ req[q].new # None
  <2>1. req[p].spent = {req[p].on}
    <3>1. req[p].step # 1
      BY <1>4, Scripts DEF Stmt
    <3> QED BY <1>4, <3>1 DEF IInv, Kept, RedeemKept
  <2>2. req[q].spent = {req[q].on}
    <3>1. Kept(req[q]) /\ req[q] \in RequestType
      BY <1>1 DEF IInv, TypeOK
    <3>2. req[q].new \in Tokens
      BY <1>4, <3>1 DEF Kept, NewKept, RequestType, Origins
    <3>3. req[q].step = 4
      BY <1>4, <3>1, <3>2, Scripts DEF Kept, NewKept, Last
    <3> QED BY <1>4, <3>1, <3>3 DEF Kept, RedeemKept
  <2> QED BY <1>1, <1>4, <2>1, <2>2 DEF Compatible, Rows
<1> QED BY <1>2, <1>3, <1>4 DEF Blockers

\* What a request holds while it waits.
LEMMA HoldsAtWait ==
  ASSUME IInv, Holding, NEW q \in Requests, Busy(q), Blockers(q) # {}
  PROVE  /\ Rank(q) = 1 => Clean(req[q])
         /\ Rank(q) = 2 => SessionsOnly(req[q])
         /\ Rank(q) = 3 => req[q].held = {} /\ req[q].revoked = {} /\ req[q].dropped = {}
         /\ Rank(q) = 4 => /\ \A l \in req[q].held : l[1] # "client"
                           /\ req[q].revoked = {} /\ req[q].dropped = {}
         /\ Rank(q) = 5 => req[q].revoked = {} /\ req[q].dropped = {}
<1> DEFINE b == req[q]
           s == Stmt(q)
<1>1. /\ s \in {"shareSession", "endSeen", "spendEnded", "spendCode", "deleteSeen", "revokeById",
                "voidSeen", "lockUser", "lockUserShared", "lockClient", "lockClientShared",
                "spendToken", "revokeSeen"}
      /\ s = "lockClientShared" /\ b.op = "rotate" => b.step = 2
  BY Waits
<1>2. Holds(tok, b) /\ Kept(b) /\ Rows(b) = b.spent \cup b.revoked \cup b.dropped
  BY DEF Holding, IInv, Rows
<1>3. Rank(q) = IF s \in {"shareSession", "endSeen"} THEN 1
                ELSE IF s \in {"lockUser", "lockUserShared"} THEN 3
                ELSE IF s \in {"lockClient", "lockClientShared"} THEN 4
                ELSE IF s \in {"spendToken", "revokeSeen"} THEN 5
                ELSE IF s = "voidSeen" /\ b.op = "reset" THEN 6 ELSE 2
  BY DEF Rank, ResetWaitsForCodes, At
<1>4. Place(b.op, b.step) /\ Script[b.op][b.step] = s
  BY AtPlace DEF IInv, Stmt
<1> HIDE DEF b, s
<1>5. /\ s \in {"shareSession", "spendCode", "revokeById", "lockUserShared", "lockClient"} => b.step = 1
      /\ s = "endSeen" =>
           \/ b.step = 2 /\ b.op = "logout"
           \/ b.step = 8 /\ b.op \in {"passwordChange", "reset"}
      /\ s = "spendEnded" =>
           \/ b.step = 4 /\ b.op = "logout"
           \/ b.step = 10 /\ b.op \in {"passwordChange", "reset"}
      /\ s = "deleteSeen" => b.step = 2 /\ b.op \in {"purgeTokens", "purgeCodes"}
      /\ s = "voidSeen" =>
           \/ b.step = 2 /\ b.op \in {"passwordChange", "revokeConsent"}
           \/ b.step = 7 /\ b.op = "logout"
           \/ b.op = "reset"
      /\ s = "spendToken" => b.step = 3 /\ b.op = "rotate"
  BY <1>4 DEF Place
<1>6. /\ s = "lockUser" =>
           \/ b.step = 1
           \/ b.step = 3 /\ b.op \in {"passwordChange", "revokeConsent"}
           \/ b.step = 9 /\ b.op = "logout"
      /\ s = "lockClientShared" =>
           \/ b.step = 1 /\ b.op = "login"
           \/ b.step = 2 /\ b.op = "redeem"
           \/ b.step = 2 /\ b.op = "rotate"
      /\ s = "revokeSeen" =>
           \/ b.step = 3 /\ b.op \in {"replayToken", "endFamily", "reset", "revokeClient"}
           \/ b.step = 4 /\ b.op = "replayCode"
           \/ b.step = 5 /\ b.op \in {"passwordChange", "revokeConsent"}
           \/ b.step = 11 /\ b.op = "logout"
  BY <1>1, <1>4 DEF Place
<1>7. Rank(q) = 1 => Clean(b)
  BY <1>1, <1>2, <1>3, <1>5 DEF Holds
<1>8. Rank(q) = 2 => SessionsOnly(b)
  <2>1. Clean(b) => SessionsOnly(b)
    BY DEF Clean, SessionsOnly
  <2> QED BY <1>1, <1>2, <1>3, <1>5, <2>1 DEF Holds, CodesFirst
<1>9. Rank(q) = 3 => b.held = {} /\ b.revoked = {} /\ b.dropped = {}
  BY <1>2, <1>3, <1>5, <1>6 DEF Holds, Clean, CodesFirst
<1>10. Rank(q) = 4 => (\A l \in b.held : l[1] # "client") /\ b.revoked = {} /\ b.dropped = {}
  <2>1. CASE s = "lockClient" \/ (s = "lockClientShared" /\ b.op = "login")
    BY <1>2, <1>5, <1>6, <2>1 DEF Holds, Clean
  <2>2. CASE s = "lockClientShared" /\ b.op = "redeem"
    BY <1>2, <1>6, <2>2 DEF Holds, Kept, RedeemKept
  <2>3. CASE s = "lockClientShared" /\ b.op = "rotate"
    <3>1. b.held \subseteq {UserShared}
      BY <1>1, <1>2, <2>3 DEF Holds
    <3>2. \A l \in b.held : l[1] # "client"
      BY <3>1 DEF UserShared
    <3>3. b.revoked = {} /\ b.dropped = {}
      BY <1>1, <1>2, <2>3 DEF Kept, RotateKept
    <3> QED BY <3>2, <3>3
  <2> QED BY <1>3, <1>6, <2>1, <2>2, <2>3
<1>11. Rank(q) = 5 => b.revoked = {} /\ b.dropped = {}
  <2>1. CASE s = "spendToken"
    BY <1>2, <1>5, <2>1 DEF Kept, RotateKept
  <2>2. CASE s = "revokeSeen"
    BY <1>2, <1>6, <2>2 DEF Holds, CodesFirst
  <2> QED BY <1>3, <2>1, <2>2
<1> QED BY <1>7, <1>8, <1>9, <1>10, <1>11 DEF b, s

\* What blocks a blocked request, if itself blocked, waits for something later.
LEMMA BlockedByHigher ==
  ASSUME IInv, Holding, NEW p \in Requests, NEW q \in Requests, ~ResetWaitsForCodes(p),
         Busy(p), Busy(q), q \in Blockers(p), Blockers(q) # {}
  PROVE  Rank(q) > Rank(p)
<1>1. Rank(p) \in 1..5 /\ Rank(q) \in 1..6
  BY DEF Rank
<1>2. req[q] \in RequestType /\ req[p] \in RequestType /\ Kept(req[p])
  BY DEF IInv, TypeOK
<1>3. /\ req[q].spent \subseteq Codes
      /\ RowsLockedBy(q) = req[q].spent \cup req[q].revoked \cup req[q].dropped
      /\ RowsLockedBy(q) = Rows(req[q])
  BY <1>2 DEF RequestType, RowsLockedBy, Rows
<1>4. Stmt(p) # "insert"
  BY Waits
<1>5. \/ \E l \in req[q].held, m \in LocksTaken(p) : Conflict(l, m)
      \/ RowsLockedBy(q) \cap RowsWritten(p) # {}
  BY <1>4 DEF Blockers
<1>6. Rank(q) # 1
  <2>1. SUFFICES ASSUME Rank(q) = 1 PROVE FALSE
    OBVIOUS
  <2>2. Clean(req[q])
    BY <2>1, HoldsAtWait
  <2> QED BY <1>3, <1>5, <2>2 DEF Clean
<1>7. CASE Rank(p) = 1
  BY <1>1, <1>6, <1>7
<1>8. CASE Rank(p) = 2
  <2>1. Stmt(p) \notin DOMAIN LockOf \cup {"shareSession", "endSeen"}
    BY <1>8, LockNames DEF Rank
  <2>2. LocksTaken(p) = {}
    BY <2>1 DEF LocksTaken
  <2>3. Rows(req[q]) # {}
    BY <1>3, <1>5, <2>2
  <2>4. Rank(q) # 2
    BY <2>3, HoldsAtWait DEF SessionsOnly
  <2> QED BY <1>1, <1>6, <1>8, <2>4
<1>9. CASE Rank(p) = 3
  <2>1. Stmt(p) \in {"lockUser", "lockUserShared"}
    BY <1>9 DEF Rank
  <2>2. RowsWritten(p) = {} /\ LocksTaken(p) \subseteq {UserShared, UserExclusive}
    BY <2>1, LockNames, LockValues DEF RowsWritten, LocksTaken
  <2>3. \E l \in req[q].held : l[1] = "user"
    BY <1>5, <2>2 DEF Conflict, UserShared, UserExclusive
  <2>4. Rank(q) # 2 /\ Rank(q) # 3
    BY <2>3, HoldsAtWait, GrantsAssumption DEF SessionsOnly
  <2> QED BY <1>1, <1>6, <1>9, <2>4
<1>10. CASE Rank(p) = 4
  <2>1. Stmt(p) \in {"lockClient", "lockClientShared"}
    BY <1>10 DEF Rank
  <2>2. RowsWritten(p) = {} /\ LocksTaken(p) \subseteq {ClientShared, ClientExclusive}
    BY <2>1, LockNames, LockValues DEF RowsWritten, LocksTaken
  <2>3. \E l \in req[q].held : l[1] = "client"
    BY <1>5, <2>2 DEF Conflict, ClientShared, ClientExclusive
  <2>4. Rank(q) # 2 /\ Rank(q) # 3 /\ Rank(q) # 4
    BY <2>3, HoldsAtWait, GrantsAssumption DEF SessionsOnly
  <2> QED BY <1>1, <1>6, <1>10, <2>4
<1>11. CASE Rank(p) = 5
  <2>1. Stmt(p) \in {"spendToken", "revokeSeen"}
    BY <1>11 DEF Rank
  <2>2. LocksTaken(p) = {}
    BY <2>1, LockNames DEF LocksTaken
  <2>3. RowsWritten(p) \subseteq Tokens
    <3>1. CASE Stmt(p) = "spendToken"
      <4>1. req[p].op = "rotate"
        BY <3>1, AtPlace DEF IInv, Stmt, Place
      <4>2. req[p].on \in Tokens
        BY <1>2, <4>1 DEF Kept, OnKept
      <4> QED BY <3>1, <4>2 DEF RowsWritten
    <3>2. CASE Stmt(p) = "revokeSeen"
      BY <1>2, <3>2 DEF Kept, SeenKept, Stmt, Busy, RowsWritten
    <3> QED BY <2>1, <3>1, <3>2
  <2>4. req[q].revoked \cup req[q].dropped # {}
    BY <1>3, <1>5, <2>2, <2>3, Distinct
  <2>5. Rank(q) \notin {2, 3, 4, 5}
    BY <2>4, HoldsAtWait DEF SessionsOnly, Rows
  <2> QED BY <1>1, <1>6, <1>11, <2>5
<1> QED BY <1>1, <1>7, <1>8, <1>9, <1>10, <1>11

\* Every reachable request holds what its place in its script says: nothing
\* when it waits for a session, ended sessions at most when it waits for codes,
\* no advisory lock when it waits for the user's, not the client's when it waits
\* for that, and no token row when it waits for token rows (lockUserTokens,
\* lockClientTokens).  Only a reset comes to codes with more.
THEOREM LocksInOrder == Spec => []Holding
<1>1. Init => IInv /\ Holding
  BY InitHolding
<1>2. IInv /\ Holding /\ [Next]_vars => Holding'
  BY NextHolding
<1> QED BY <1>1, <1>2, Invariant, PTL DEF Spec

\* The tables are of their types, and every unredeemed code is of a live session: a session that ends has its codes
\* spent in its transaction (finishEnded), whatever is minted or redeemed beside
\* it, because a mint shares the lock on its session's row and the UPDATE waits
\* for the codes a redemption holds.
THEOREM CodesEnded == Spec => []CodesKept
<1>1. TypeOK /\ Holding => CodesKept
  BY DEF Holding, CodesKept
<1> QED BY <1>1, TypesKept, LocksInOrder, PTL

\* Requests that wait for each other in a circle have a password reset among
\* them, one that waits for codes with the user and the tokens locked
\* (revokeAllForUser comes before invalidateForUser): without it there is no
\* circle, whatever the requests are and however many: redemptions, rotations,
\* replays, logouts, password changes, consent and client revocations, purges.
THEOREM NoCircularWait == Spec => []NoLockCycle
<1>1. ASSUME IInv, Holding PROVE NoLockCycle
  <2>1. SUFFICES ASSUME NEW S \in (SUBSET Requests) \ {{}},
                        \A p \in S : Busy(p) /\ Blockers(p) \cap S # {},
                        \A p \in S : ~ResetWaitsForCodes(p)
                 PROVE  FALSE
    BY DEF NoLockCycle
  <2>2. ASSUME NEW p \in S PROVE \E q \in S : Rank(q) > Rank(p)
    <3>1. PICK q \in S : q \in Blockers(p)
      BY <2>1
    <3>2. Busy(p) /\ Busy(q) /\ Blockers(q) # {} /\ p \in Requests /\ q \in Requests
      BY <2>1
    <3> QED BY <1>1, <2>1, <3>1, <3>2, BlockedByHigher
  <2>3. \A p \in S : Rank(p) \in 1..5
    BY <2>1 DEF Rank
  <2>4. \A p \in S : Rank(p) # 5
    BY <2>2, <2>3
  <2>5. \A p \in S : Rank(p) # 4
    BY <2>2, <2>3, <2>4
  <2>6. \A p \in S : Rank(p) # 3
    BY <2>2, <2>3, <2>4, <2>5
  <2>7. \A p \in S : Rank(p) # 2
    BY <2>2, <2>3, <2>4, <2>5, <2>6
  <2>8. \A p \in S : Rank(p) # 1
    BY <2>2, <2>3, <2>4, <2>5, <2>6, <2>7
  <2> QED BY <2>1, <2>3, <2>4, <2>5, <2>6, <2>7, <2>8
<1> QED BY <1>1, Invariant, LocksInOrder, PTL
============================================================================
