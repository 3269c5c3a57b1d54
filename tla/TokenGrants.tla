---------------------------- MODULE TokenGrants ----------------------------
(***************************************************************************)
(* Authorization codes, refresh-token families and what ends them: the     *)
(* token endpoint's code redemption and refresh rotation, the replay       *)
(* reactions of both, and every bulk revocation (logout, password change,  *)
(* password reset, consent revocation, removal of a client's first-party   *)
(* profile), each as the transactions of statements the code runs against  *)
(* Postgres under READ COMMITTED.                                          *)
(*                                                                         *)
(* The tables hold the rows of ONE user at ONE client, so every advisory   *)
(* lock is the same user's or the same client's: the case in which they    *)
(* all meet. The user starts signed in, in the browser sessions Sessions.  *)
(* A request runs one operation, a script of statements. An UPDATE or      *)
(* DELETE of many rows is two steps: it takes its snapshot, and later,     *)
(* once no other transaction holds a row it saw, writes the rows that      *)
(* still satisfy its predicate; rows inserted in between are not seen. A   *)
(* transaction's writes become visible at its commit.                      *)
(***************************************************************************)
EXTENDS Naturals, Sequences, FiniteSets

CONSTANTS
  Sessions,   \* the user's browser sessions
  Codes,      \* authorization codes that can be minted
  Tokens,     \* refresh-token rows that can be inserted
  Requests,   \* requests that can be in flight together
  None,       \* no row
  Loads       \* what may come together in one behaviour: what arrives, the
              \* rows whose time can run out, and bounds on the operations begun
              \* and the tokens issued

Arrivals == {"authorize", "code", "refresh", "oauthRevoke", "login", "logout",
             "passwordChange", "reset", "revokeConsent", "revokeClient",
             "purgeTokens", "purgeCodes", "failure"}

ASSUME GrantsAssumption ==
  /\ None \notin Sessions \cup Codes \cup Tokens
  /\ Codes \cap Tokens = {}
  /\ Sessions \cap (Codes \cup Tokens \cup {"user", "client"}) = {}
  /\ Loads \subseteq [kinds : SUBSET Arrivals, expiring : SUBSET (Codes \cup Tokens),
                      begins : Nat, issues : Nat]

VARIABLES
  load,      \* the load of this behaviour, fixed from its start
  session,   \* sessions: the live ones
  code,      \* authorization_codes
  tok,       \* refresh_tokens
  access,    \* the access token signed with each refresh token, its records and the denylist
  req,       \* the requests in flight
  begun,     \* operations begun so far
  ended,     \* grants some finished operation promised to have ended
  replayed   \* grants whose replay was answered

vars == <<load, session, code, tok, access, req, begun, ended, replayed>>

(***************************************************************************)
(* Rows.  A grant is named by the code that was approved or, for a         *)
(* sign-in without a code, by its first token: `origin` remembers it and   *)
(* is not a column.  `link` is authorization_code_id.                      *)
(***************************************************************************)
NoCode  == [st |-> "none", session |-> None, expired |-> FALSE]
NoToken == [st |-> "none", family |-> None, link |-> None, origin |-> None,
            expired |-> FALSE]
NoAccess == [st |-> "none", keys |-> {}, origin |-> None, denied |-> FALSE]

Present(t) == tok[t].st \in {"live", "revoked"}

Stored(c) == code[c].st \in {"fresh", "used"}

Usable(t) == tok[t].st = "live" /\ ~tok[t].expired

\* The id of the next row: one that is not stored, not purged and not pending
\* anywhere. Fresh ids are interchangeable, so any one of them will do.
Unused ==
  LET taken == {t \in Tokens : access[t].st # "none" \/ \E q \in Requests : req[q].new = t}
  IN IF Cardinality(taken) < load.issues /\ Tokens \ taken # {}
       THEN {CHOOSE t \in Tokens \ taken : TRUE}
     ELSE {}

(***************************************************************************)
(* The repository methods, as the statements each runs in order.           *)
(***************************************************************************)
recordClient == <<"shareSession">>

\* Sessions that end take their unredeemed codes with them, spent in the same
\* transaction: the sessions' rows stay locked while it waits for the codes'.
finishEnded == <<"seeEndedCodes", "spendEnded">>

\* The same with the codes left to expire.
revokeForUser_NoCodes == <<"seeSessions", "endSeen">>
revokeForUser == <<"seeSessions", "endSeen">> \o finishEnded

markUsed == <<"spendCode">>

invalidateForUser == <<"seeCodes", "voidSeen">>

create == <<"lockClientShared", "insert">>

revokeIfActive == <<"lockUserShared", "lockClientShared", "spendToken">>

revoke == <<"revokeById">>

\* The same without the user's lock, as a bare UPDATE.
revokeFamily_NoLock == <<"seeFamily", "revokeSeen">>
revokeFamily == <<"lockUser", "seeFamily", "revokeSeen">>

revokeFamilyByAuthorizationCode == <<"lockUser", "findFamily", "seeCodeFamily", "revokeSeen">>

revokeAllForUser == <<"lockUser", "seeUnexpired", "revokeSeen">>

revokeAllForUserAndClient == <<"lockUser", "seeUnrevoked", "revokeSeen">>

\* The same with the lock taken after the rows.
revokeAllForClient_LockLast == <<"seeUnrevoked", "revokeSeen", "lockClient">>
revokeAllForClient == <<"lockClient", "seeUnrevoked", "revokeSeen">>

(***************************************************************************)
(* The operations.  "commit" ends a transaction, also the implicit one of  *)
(* a method called without one; "deny" follows the commit of a replay.     *)
(***************************************************************************)
\* POST /auth/logout ends the sessions first, then the codes, then the tokens.
\* The same with the sessions ended last.
logout_SessionsLast == invalidateForUser \o <<"commit">> \o revokeAllForUser \o <<"commit">>
                         \o revokeForUser \o <<"commit">>
logout == revokeForUser \o <<"commit">> \o invalidateForUser \o <<"commit">>
            \o revokeAllForUser \o <<"commit">>

Script ==
  [ mint           |-> recordClient \o <<"commit">>,
    redeem         |-> markUsed \o create \o <<"commit">>,
    redeemBare     |-> markUsed \o <<"sign", "commit">>,
    burnCode       |-> markUsed \o <<"commit">>,
    replayCode     |-> revokeFamilyByAuthorizationCode \o <<"commit", "deny">>,
    rotate         |-> revokeIfActive \o create \o <<"commit">>,
    burnToken      |-> revoke \o <<"commit">>,
    replayToken    |-> revokeFamily \o <<"commit", "deny">>,
    endFamily      |-> revokeFamily \o <<"commit">>,
    login          |-> create \o <<"commit">>,
    logout         |-> logout,
    passwordChange |-> invalidateForUser \o revokeAllForUser \o <<"commit">>
                         \o revokeForUser \o <<"commit">>,
    reset          |-> revokeAllForUser \o invalidateForUser \o <<"commit">>
                         \o revokeForUser \o <<"commit">>,
    revokeConsent  |-> invalidateForUser \o revokeAllForUserAndClient \o <<"commit">>,
    revokeClient   |-> revokeAllForClient \o <<"commit">>,
    purgeTokens    |-> <<"seeDeadFamilies", "deleteSeen", "commit">>,
    purgeCodes     |-> <<"seeExpiredCodes", "deleteSeen", "commit">> ]

Ops == DOMAIN Script

\* A request: its operation and statement, the row it read (`on`) and that
\* row's family, the rows its last snapshot matched, the uncommitted writes
\* of its transaction, the advisory locks it holds, and what it will end.
Idle == [op |-> "idle", step |-> 1, on |-> None, family |-> None, seen |-> {},
         spent |-> {}, revoked |-> {}, dropped |-> {}, new |-> None,
         held |-> {}, scope |-> {}]

Busy(p) == req[p].op # "idle"

Stmt(p) == Script[req[p].op][req[p].step]

At(p, s) == Busy(p) /\ Stmt(p) = s

\* The request moves to its next statement; after the last one it is over.
After(r) == IF r.step < Len(Script[r.op]) THEN [r EXCEPT !.step = @ + 1] ELSE Idle

(***************************************************************************)
(* Locks.  Advisory locks, and the locks on a session row (FOR SHARE of a  *)
(* mint, FOR UPDATE of a revocation), conflict unless both are shared; a   *)
(* code or token row written by an open transaction is locked until that   *)
(* transaction ends.                                                       *)
(***************************************************************************)
LockOf == [ lockUser         |-> <<"user", "exclusive">>,
            lockUserShared   |-> <<"user", "shared">>,
            lockClient       |-> <<"client", "exclusive">>,
            lockClientShared |-> <<"client", "shared">> ]

Conflict(l, m) == l[1] = m[1] /\ "exclusive" \in {l[2], m[2]}

RowsLockedBy(q) == req[q].spent \cup req[q].revoked \cup req[q].dropped

\* The token rows ON DELETE SET NULL rewrites when the codes cs are deleted.
LinkedTo(cs) == {t \in Tokens : Present(t) /\ tok[t].link \in cs}

\* The rows the current statement of p writes.
RowsWritten(p) ==
  CASE Stmt(p) \in {"spendCode", "spendToken", "revokeById"} -> {req[p].on}
    [] Stmt(p) \in {"spendEnded", "voidSeen", "revokeSeen"} -> req[p].seen
    [] Stmt(p) = "deleteSeen" -> req[p].seen \cup LinkedTo(req[p].seen)
    [] OTHER -> {}

\* The advisory and session-row locks the current statement of p takes.
LocksTaken(p) ==
  CASE Stmt(p) \in DOMAIN LockOf -> {LockOf[Stmt(p)]}
    [] Stmt(p) = "shareSession" -> {<<req[p].on, "shared">>}
    [] Stmt(p) = "endSeen" -> {<<s, "exclusive">> : s \in req[p].seen}
    [] OTHER -> {}

\* The requests p waits for: those that hold a lock p's statement needs.
Blockers(p) ==
  {q \in Requests \ {p} :
     \/ \E l \in req[q].held, m \in LocksTaken(p) : Conflict(l, m)
     \/ RowsLockedBy(q) \cap RowsWritten(p) # {}
     \/ /\ Stmt(p) = "insert" /\ req[p].op = "redeem"
        /\ req[q].op = "redeem" /\ req[q].on = req[p].on /\ req[q].new # None}

\* The step of p leaves the request as r and nothing else.
Sets(p, r) ==
  /\ req' = [req EXCEPT ![p] = r]
  /\ UNCHANGED <<session, code, tok, access, begun, ended, replayed>>

Runs(p, s) == At(p, s) /\ Blockers(p) = {}
----------------------------------------------------------------------------
(***************************************************************************)
(* Arrival.  Each operation begins with the read its handler makes         *)
(* outside any transaction; the statements that follow act on that read.   *)
(***************************************************************************)
\* The grants an operation promises to end: those that exist when it begins.
\* A logout also ends the sessions, with whatever grants they lead to.
Scope(op, on) ==
  CASE op = "replayCode" -> {on}
    [] op \in {"replayToken", "endFamily"} -> {tok[on].origin}
    [] op = "revokeClient" -> {tok[t].origin : t \in {u \in Tokens : Present(u)}}
    [] op \in {"logout", "passwordChange", "reset", "revokeConsent"} ->
         {c \in Codes : code[c].st # "none"}
           \cup {tok[t].origin : t \in {u \in Tokens : Present(u)}}
           \cup (IF op = "logout" THEN session ELSE {})
    [] OTHER -> {}

Running(op, on) ==
  [Idle EXCEPT !.op = op, !.on = on, !.scope = Scope(op, on),
               !.family = IF on \in Tokens THEN tok[on].family ELSE None]

Begin(p, op, on) ==
  /\ ~Busy(p)
  /\ begun < load.begins
  /\ begun' = begun + 1
  /\ req' = [req EXCEPT ![p] = Running(op, on)]
  /\ UNCHANGED <<session, code, tok, access, ended, replayed>>

\* The authorization endpoint mints a code under a browser session.
mintAuthorizationCode(p, s, c) ==
  /\ "authorize" \in load.kinds
  /\ ~Busy(p)
  /\ code[c].st = "none"
  /\ \A q \in Requests : req[q].new # c
  /\ Sets(p, [Running("mint", s) EXCEPT !.new = c])

\* A spent code is a replay; an unspent one that has expired, or an unknown
\* one, is refused and changes nothing.  Otherwise the code is redeemed, for
\* a refresh token or (no stored consent covers it) for an access token
\* alone, or burned when the account or the agent cap refuses it.
handleAuthorizationCode(p, c) ==
  /\ "code" \in load.kinds
  /\ Stored(c)
  /\ \/ code[c].st = "used" /\ Begin(p, "replayCode", c)
     \/ /\ code[c].st = "fresh" /\ ~code[c].expired
        /\ \E op \in {"redeem", "redeemBare", "burnCode"} : Begin(p, op, c)

\* A revoked token is a replay.  A live one of a family past its end ends
\* the family; an expired one is refused; otherwise it is rotated, or burned
\* when the account is refused.
handleRefreshToken(p, t) ==
  /\ "refresh" \in load.kinds
  /\ Present(t)
  /\ \/ tok[t].st = "revoked" /\ Begin(p, "replayToken", t)
     \/ tok[t].st = "live" /\ Begin(p, "endFamily", t)
     \/ Usable(t) /\ \E op \in {"rotate", "burnToken"} : Begin(p, op, t)

tryRevokeRefreshToken(p, t) ==
  /\ "oauthRevoke" \in load.kinds
  /\ Present(t)
  /\ Begin(p, "endFamily", t)

\* The password change keeps the session it is made in.
changePassword(p, s) ==
  /\ "passwordChange" \in load.kinds
  /\ s \in session
  /\ Begin(p, "passwordChange", s)

\* The operations that read no grant before they start.
Arrive(p) ==
  \E op \in load.kinds \cap {"login", "logout", "reset", "revokeConsent", "revokeClient",
                        "purgeTokens", "purgeCodes"} :
    Begin(p, op, None)
----------------------------------------------------------------------------
(***************************************************************************)
(* Statements.                                                             *)
(***************************************************************************)
\* The key of the lock, a subquery on the token rows for the statements that
\* name a token or a code: NULL, and then no lock, when it finds no row.
LockKeyFound(p) ==
  CASE req[p].op = "rotate" -> Present(req[p].on)
    [] req[p].op \in {"replayToken", "endFamily"} ->
         \E t \in Tokens : Present(t) /\ tok[t].family = req[p].family
    [] req[p].op = "replayCode" -> LinkedTo({req[p].on}) # {}
    [] OTHER -> TRUE

\* lockUserTokens and lockClientTokens: held to the end of the transaction.
LockTokens(p) ==
  \E s \in DOMAIN LockOf :
    /\ Runs(p, s)
    /\ Sets(p, After([req[p] EXCEPT !.held =
                        IF LockKeyFound(p) THEN @ \cup {LockOf[s]} ELSE @]))

\* A mint locks its session's row FOR SHARE; an ended session gets no code.
ShareSession(p) ==
  /\ Runs(p, "shareSession")
  /\ Sets(p, IF req[p].on \in session
               THEN After([req[p] EXCEPT !.held = @ \cup LocksTaken(p)])
             ELSE Idle)

\* The compare-and-set that spends a code.
\* The same without the predicate on `used`.
SpendsCode_NoCas(p) == Stored(req[p].on)
SpendsCode(p) == code[req[p].on].st = "fresh"

\* A redemption that loses it was
\* the second one, and turns into the replay; a burn that loses it is over.
SpendCode(p) ==
  /\ Runs(p, "spendCode")
  /\ Sets(p, IF SpendsCode(p)
               THEN After([req[p] EXCEPT !.spent = {req[p].on}])
             ELSE IF req[p].op = "burnCode"
               THEN Idle
             ELSE Running("replayCode", req[p].on))

\* The compare-and-set that spends a refresh token; losing it is a replay.
\* The same without the predicate on `revoked`.
RotatesToken_NoCas(p) == Present(req[p].on)
RotatesToken(p) == tok[req[p].on].st = "live"

SpendToken(p) ==
  /\ Runs(p, "spendToken")
  /\ Sets(p, IF RotatesToken(p)
               THEN After([req[p] EXCEPT !.revoked = {req[p].on}])
             ELSE Running("replayToken", req[p].on))

\* A refused account's token is revoked by id alone; a missing row ends it.
RevokeById(p) ==
  /\ Runs(p, "revokeById")
  /\ Sets(p, IF Present(req[p].on) THEN After([req[p] EXCEPT !.revoked = {req[p].on}])
             ELSE Idle)

\* The predicate of the bulk revocations: the expiry is no part of it.
\* The same with expired tokens passed over.
Unrevoked_Unexpired == {t \in Tokens : Usable(t)}
Unrevoked == {t \in Tokens : tok[t].st = "live"}

\* The sessions whose rows the transaction of p has ended.
SessionsEnded(p) == {s \in Sessions : <<s, "exclusive">> \in req[p].held}

\* The rows each bulk statement's snapshot matches: committed rows only.
\* Expired tokens are live to revokeAllForUserAndClient, revokeAllForClient
\* and the family revocations, and not to revokeAllForUser.
Seen(p) ==
  LET s == Stmt(p)
      first == LinkedTo({req[p].on})
  IN CASE s = "seeSessions"     -> session \ {req[p].on}
       [] s = "seeCodes"        -> {c \in Codes : code[c].st = "fresh"}
       [] s = "seeEndedCodes"   -> {c \in Codes : /\ code[c].st = "fresh"
                                                  /\ code[c].session \in SessionsEnded(p)}
       [] s = "seeUnexpired"    -> {t \in Unrevoked : ~tok[t].expired}
       [] s = "seeUnrevoked"    -> Unrevoked
       [] s = "seeFamily"       -> {t \in Unrevoked : tok[t].family = req[p].family}
       [] s = "seeCodeFamily"   -> {t \in Unrevoked : \E f \in first : tok[t].family = tok[f].family}
       [] s = "seeExpiredCodes" -> {c \in Codes : Stored(c) /\ code[c].expired}
       [] s = "seeDeadFamilies" ->
            {t \in Tokens : /\ Present(t)
                            /\ \A u \in Tokens : Present(u) /\ tok[u].family = tok[t].family
                                                   => tok[u].expired}

Snapshots == {"seeSessions", "seeEndedCodes", "seeCodes", "seeUnexpired", "seeUnrevoked",
              "seeFamily", "seeCodeFamily", "seeExpiredCodes", "seeDeadFamilies"}

\* The family of a replayed code, read under the lock for the denylist.
FindFamily(p) ==
  /\ Runs(p, "findFamily")
  /\ \E f \in IF LinkedTo({req[p].on}) = {} THEN {None}
              ELSE {tok[t].family : t \in LinkedTo({req[p].on})} :
       Sets(p, After([req[p] EXCEPT !.family = f]))

Snapshot(p) ==
  /\ Busy(p) /\ Stmt(p) \in Snapshots
  /\ Sets(p, After([req[p] EXCEPT !.seen = Seen(p)]))

\* The second half: the rows seen, unlocked by now, that still match.
EndSeen(p) ==
  /\ Runs(p, "endSeen")
  /\ Sets(p, After([req[p] EXCEPT !.seen = {}, !.held = @ \cup
                      {<<s, "exclusive">> : s \in req[p].seen \cap session}]))

VoidSeen(p) ==
  /\ Runs(p, "voidSeen") \/ Runs(p, "spendEnded")
  /\ Sets(p, After([req[p] EXCEPT !.seen = {},
                      !.spent = @ \cup {c \in req[p].seen : code[c].st = "fresh"}]))

RevokeSeen(p) ==
  /\ Runs(p, "revokeSeen")
  /\ Sets(p, After([req[p] EXCEPT !.seen = {},
                      !.revoked = @ \cup {t \in req[p].seen : tok[t].st = "live"}]))

DeleteSeen(p) ==
  /\ Runs(p, "deleteSeen")
  /\ Sets(p, After([req[p] EXCEPT !.seen = {},
                      !.dropped = {x \in req[p].seen :
                                     IF x \in Tokens THEN Present(x) ELSE Stored(x)}]))

\* The records an access token is filed under: the code whose redemption
\* issued it and the refresh family it belongs to.
\* The same with rotations left unrecorded.
recordKeys_RedemptionOnly(p, t) ==
  IF req[p].op \in {"redeem", "redeemBare"} THEN {req[p].on} ELSE {}
recordKeys(p, t) ==
  CASE req[p].op = "redeem"     -> {req[p].on, t}
    [] req[p].op = "redeemBare" -> {req[p].on}
    [] req[p].op = "rotate"     -> {req[p].family}
    [] req[p].op = "login"      -> {}

OriginOf(p, t) ==
  CASE req[p].op \in {"redeem", "redeemBare"} -> req[p].on
    [] req[p].op = "rotate" -> tok[req[p].on].origin
    [] req[p].op = "login"  -> t

\* The access token issued beside the row t, signed but not yet handed out.
Signed(p, t) == [st |-> "signed", keys |-> recordKeys(p, t),
                 origin |-> OriginOf(p, t), denied |-> FALSE]

\* One family per code: the unique index refuses a second first token.
LinkTaken(p) == req[p].op = "redeem" /\ LinkedTo({req[p].on}) # {}

\* Insert the refresh token, then sign the access token and record
\* it against the grant, before the commit.  Refused by the unique index, the
\* transaction rolls back and the request ends.  Sign issues no refresh
\* token.
Insert(p) ==
  /\ Runs(p, "insert")
  /\ IF LinkTaken(p)
       THEN Sets(p, Idle)
       ELSE \E t \in Unused :
              /\ req' = [req EXCEPT ![p] = After([@ EXCEPT !.new = t])]
              /\ access' = [access EXCEPT ![t] = Signed(p, t)]
              /\ UNCHANGED <<session, code, tok, begun, ended, replayed>>

Sign(p) ==
  /\ Runs(p, "sign")
  /\ \E t \in Unused :
       /\ req' = [req EXCEPT ![p] = After([@ EXCEPT !.new = t])]
       /\ access' = [access EXCEPT ![t] = Signed(p, t)]
  /\ UNCHANGED <<session, code, tok, begun, ended, replayed>>

\* The row a transaction inserts under the id t.
Inserted(p, t) ==
  [st |-> "live", expired |-> FALSE, origin |-> OriginOf(p, t),
   family |-> IF req[p].op = "rotate" THEN req[p].family ELSE t,
   link |-> IF req[p].op = "redeem" THEN req[p].on ELSE None]

\* Which rows the transaction of p writes, and how, once it commits.
Written(p, t) ==
  IF t \in req[p].revoked THEN [tok[t] EXCEPT !.st = "revoked"]
  ELSE IF t \in req[p].dropped THEN [tok[t] EXCEPT !.st = "gone"]
  ELSE IF t \in LinkedTo(req[p].dropped) THEN [tok[t] EXCEPT !.link = None]
  ELSE IF t = req[p].new /\ req[p].op # "redeemBare" THEN Inserted(p, t)
  ELSE tok[t]

\* Everything is written at once, every lock released.  The operation is over
\* after its last statement, and only then has it kept its promise.
Commit(p) ==
  /\ At(p, "commit")
  /\ session' = {s \in session : <<s, "exclusive">> \notin req[p].held}
  /\ code' = [c \in Codes |->
                IF c = req[p].new THEN [st |-> "fresh", session |-> req[p].on, expired |-> FALSE]
                ELSE IF c \in req[p].spent THEN [code[c] EXCEPT !.st = "used"]
                ELSE IF c \in req[p].dropped THEN [code[c] EXCEPT !.st = "gone"]
                ELSE code[c]]
  /\ tok' = [t \in Tokens |-> Written(p, t)]
  /\ access' = [t \in Tokens |-> IF t = req[p].new THEN [access[t] EXCEPT !.st = "issued"]
                                 ELSE access[t]]
  /\ LET r == After([req[p] EXCEPT !.spent = {}, !.revoked = {}, !.dropped = {},
                                   !.new = None, !.held = {}])
     IN /\ req' = [req EXCEPT ![p] = r]
        /\ ended' = IF r = Idle THEN ended \cup req[p].scope ELSE ended
  /\ UNCHANGED <<begun, replayed>>

\* revokeGrantAccessTokens, after the commit: every access token filed under
\* the replayed code (and the family found through it) or under the family.
ReplayKeys(p) ==
  ({req[p].family} \cup (IF req[p].op = "replayCode" THEN {req[p].on} ELSE {})) \ {None}

revokeGrantAccessTokens(p) ==
  /\ At(p, "deny")
  /\ access' = [t \in Tokens |->
                  IF access[t].keys \cap ReplayKeys(p) # {}
                    THEN [access[t] EXCEPT !.denied = TRUE] ELSE access[t]]
  /\ req' = [req EXCEPT ![p] = Idle]
  /\ ended' = ended \cup req[p].scope
  /\ replayed' = replayed \cup req[p].scope
  /\ UNCHANGED <<session, code, tok, begun>>

\* A statement fails, the node dies or Postgres breaks a deadlock: the open
\* transaction rolls back and the request is lost.
Fails(p) ==
  /\ "failure" \in load.kinds
  /\ Busy(p)
  /\ Sets(p, Idle)

\* Time runs out for a stored row.
Expire(x) ==
  /\ x \in load.expiring
  /\ \/ /\ x \in Codes /\ Stored(x) /\ ~code[x].expired
        /\ code' = [code EXCEPT ![x].expired = TRUE]
        /\ UNCHANGED tok
     \/ /\ x \in Tokens /\ Present(x) /\ ~tok[x].expired
        /\ tok' = [tok EXCEPT ![x].expired = TRUE]
        /\ UNCHANGED code
  /\ UNCHANGED <<session, access, req, begun, ended, replayed>>
----------------------------------------------------------------------------
Init ==
  /\ load \in Loads
  /\ session = Sessions
  /\ code = [c \in Codes |-> NoCode]
  /\ tok = [t \in Tokens |-> NoToken]
  /\ access = [t \in Tokens |-> NoAccess]
  /\ req = [p \in Requests |-> Idle]
  /\ begun = 0
  /\ ended = {}
  /\ replayed = {}

Step(p) ==
  \/ \E c \in Codes : \/ handleAuthorizationCode(p, c)
                      \/ \E s \in Sessions : mintAuthorizationCode(p, s, c)
  \/ \E s \in Sessions : changePassword(p, s)
  \/ \E t \in Tokens : handleRefreshToken(p, t) \/ tryRevokeRefreshToken(p, t)
  \/ Arrive(p)
  \/ LockTokens(p) \/ ShareSession(p) \/ FindFamily(p) \/ Snapshot(p)
  \/ SpendCode(p) \/ SpendToken(p) \/ RevokeById(p)
  \/ EndSeen(p) \/ VoidSeen(p) \/ RevokeSeen(p) \/ DeleteSeen(p)
  \/ Insert(p) \/ Sign(p) \/ Commit(p) \/ revokeGrantAccessTokens(p)
  \/ Fails(p)

Next ==
  /\ \/ \E p \in Requests : Step(p)
     \/ \E x \in Codes \cup Tokens : Expire(x)
  /\ UNCHANGED load

Spec == Init /\ [][Next]_vars
----------------------------------------------------------------------------
(***************************************************************************)
(* Properties.                                                             *)
(***************************************************************************)
Origins == Codes \cup Tokens

CodeType == [st : {"none", "fresh", "used", "gone"}, session : Sessions \cup {None},
             expired : BOOLEAN]
TokenType == [st : {"none", "live", "revoked", "gone"}, family : Tokens \cup {None},
              link : Codes \cup {None}, origin : Origins \cup {None}, expired : BOOLEAN]
AccessType == [st : {"none", "signed", "issued"}, keys : SUBSET Origins,
               origin : Origins \cup {None}, denied : BOOLEAN]
RequestType ==
  [op : Ops \cup {"idle"}, step : Nat, on : Sessions \cup Origins \cup {None},
   family : Tokens \cup {None}, seen : SUBSET (Sessions \cup Origins),
   spent : SUBSET Codes, revoked : SUBSET Tokens, dropped : SUBSET Origins,
   new : Origins \cup {None}, scope : SUBSET (Sessions \cup Origins),
   held : SUBSET (({"user", "client"} \cup Sessions) \X {"shared", "exclusive"})]

\* Every row and request holds values its columns and fields can hold, and
\* no request is past the end of its operation (the code's types).
TypeOK ==
  /\ load \in Loads
  /\ session \subseteq Sessions
  /\ code \in [Codes -> CodeType] /\ tok \in [Tokens -> TokenType]
  /\ access \in [Tokens -> AccessType] /\ req \in [Requests -> RequestType]
  /\ \A p \in Requests : Busy(p) => req[p].step \in 1..Len(Script[req[p].op])
  /\ begun \in 0..load.begins
  /\ ended \subseteq Sessions \cup Origins
  /\ replayed \subseteq Origins

\* No purge of expired rows runs. A replay whose code row is deleted under it
\* (the delete clears authorization_code_id), or whose first token row is,
\* finds no family to end.
RowsStay == load.kinds \cap {"purgeCodes", "purgeTokens"} = {}

\* What a logout, password change, reset, consent or client revocation, an
\* /oauth/revoke or a detected replay ended stays ended: whatever redemption
\* or rotation was in flight, no token of those grants is usable afterwards.
\* For a logout this holds for every grant of the sessions it ended, also for
\* a code that was being minted while it ran.
GrantsStayEnded ==
  RowsStay =>
    \A t \in Tokens : Usable(t) =>
      /\ tok[t].origin \notin ended
      /\ \A c \in Codes : c = tok[t].origin => code[c].session \notin ended

\* A grant never has two tokens that can be rotated: concurrent refreshes of
\* one token, or redemptions of one code, leave one child (revokeIfActive,
\* markUsed, the unique index on authorization_code_id).
OneLiveToken ==
  \A t, u \in Tokens :
    tok[t].st = "live" /\ tok[u].st = "live" /\ tok[t].origin = tok[u].origin => t = u

\* A code buys one access token, however many redemptions of it race.
RedeemedOnce ==
  \A t, u \in Tokens : \A c \in access[t].keys \cap access[u].keys \cap Codes :
    access[t].st = "issued" /\ access[u].st = "issued" => t = u

\* Once a replay has been answered, every access token its grant issued is on
\* the denylist: those of rotations that raced the replay included, because
\* each is recorded before its transaction commits. The one exception is the
\* first token of a sign-in without a code, which POST /auth/login does not
\* record.
ReplayDeniesAccess ==
  RowsStay =>
    \A t \in Tokens :
      access[t].st = "issued" /\ access[t].origin \in replayed \ {t} => access[t].denied

\* An unredeemed code belongs to a live session: ending a session spends its
\* codes in the same transaction (finishEnded), and a code being minted beside
\* it, or whose redemption rolls back, is not left over (the lock a mint
\* takes on its session's row, the wait for a code a redemption holds).
CodesEndWithSession ==
  \A c \in Codes : code[c].st = "fresh" => code[c].session \in session

\* What the tables hold is of its type, and no unredeemed code of an ended
\* session is in them (finishEnded).
CodesKept == TypeOK /\ CodesEndWithSession

\* A reset that holds the user and the tokens it revoked and waits for codes.
ResetWaitsForCodes(p) == At(p, "voidSeen") /\ req[p].op = "reset"

\* The transactions never wait for each other in a circle: all lock sessions
\* before codes, codes before the user, the user before the client and these
\* before tokens (lockUserTokens: "Both sides take it before any row lock, so
\* they cannot deadlock").  The exception is a reset, which takes the user and
\* tokens before codes: it is in every circle there is.
NoLockCycle ==
  \A S \in (SUBSET Requests) \ {{}} :
    (\A p \in S : Busy(p) /\ Blockers(p) \cap S # {}) => \E p \in S : ResetWaitsForCodes(p)
============================================================================
