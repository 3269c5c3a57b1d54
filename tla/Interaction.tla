---------------------------- MODULE Interaction ----------------------------
(***************************************************************************)
(* The server-side state of a browser ceremony: an interaction record in   *)
(* Redis, its turn key and its member of the expiry index, the answers,    *)
(* cancels and user switches of one browser's tabs, and the expiry sweep   *)
(* (interaction.ts, interaction-record.ts, interaction-expiry.ts).         *)
(*                                                                         *)
(* Each Redis command or MULTI, each database write and each call of the   *)
(* session service is one step; between two of them any other process runs *)
(* and the clock may move.  A command may be carried out, fail, or be      *)
(* carried out while its reply is lost.  What the engine decides on an     *)
(* answer is a free choice among the decisions the code can settle.        *)
(***************************************************************************)
EXTENDS Integers, Sequences, FiniteSets

CONSTANTS
  Ids,          \* interactions, numbered in the order they are created
  Sids,         \* browser sessions, numbered in the order they are created
  Users,        \* the accounts
  Procs,        \* requests and sweep runs that may be under way together
  None,         \* no value
  Unanswered,   \* INTERACTION_UNANSWERED_TTL_MS
  Lifetime,     \* INTERACTION_TTL
  Grace,        \* INTERACTION_SWEEP_GRACE_MS
  Jobs          \* the workloads, and their bounds: see Init

Decisions == {"step", "authenticated", "finished", "registered", "signed_in"}

requests == {"answer", "cancel", "switch"}

\* A session row, and the account and session a record carries.
SessionType == [user : Users, live : BOOLEAN]
CarriedType == [user : Users, sid : Sids]
JarType == [secrets : SUBSET Nat, sid : Sids \cup {None}]

\* An interaction record.
RecordType ==
  [rev : Nat, binding : Nat, user : Users \cup {None}, sid : Sids \cup {None},
   carried : CarriedType \cup {None}, chooser : BOOLEAN, named : Users \cup {None},
   created : Nat, expires : Nat]

\* An entry of the expiry index, as a sweep lists it.
EntryType == [id : Ids, at : Nat]

JobType ==
  [do : SUBSET (requests \cup {"start", "continue", "signout", "sweep"}),
   decide : SUBSET Decisions,
   faults : SUBSET {"fail", "lost", "throw", "session", "stale", "signer", "audit",
                    "response", "invalid", "crash"},
   size : Nat, until : Nat, ids : Nat, asks : Nat, carry : BOOLEAN]

ASSUME InteractionAssumption ==
  /\ IsFiniteSet(Ids) /\ Ids = 1..Cardinality(Ids)
  /\ IsFiniteSet(Sids) /\ Sids = 1..Cardinality(Sids) /\ Sids # {}
  /\ Users # {} /\ Jobs \subseteq JobType
  /\ Unanswered \in Nat /\ Lifetime \in Nat /\ Grace \in Nat
  /\ 0 < Unanswered /\ Unanswered < Lifetime
  /\ None \notin Nat \cup Users \cup Decisions
  /\ None \notin RecordType \cup SessionType \cup CarriedType \cup EntryType

VARIABLES
  job,       \* the workload of this behaviour
  now,       \* the clock the nodes and Redis read
  rec,       \* the interaction records
  turn,      \* the turn keys: the revision that may be answered next
  index,     \* the expiry index: the deadline each member is listed by
  sess,      \* the session rows: [user, live]
  jar,       \* the browser's flow secrets and session cookie
  pr,        \* the processes
  reports,   \* how the events say each interaction ended
  acted,     \* how many next states have been written for an interaction
  marks,     \* what is remembered of the past: see the actions
  minted,    \* interactions, sessions, flow secrets and requests made so far
  faults     \* faults left

vars == <<job, now, rec, turn, index, sess, jar, pr, reports, acted, marks, minted, faults>>

redis == <<rec, turn, index>>

----------------------------------------------------------------------------
(* The record, its deadlines and its Redis commands *)

interactionDeadline(r) ==
  IF r.rev > 0 \/ r.expires < r.created + Unanswered
    THEN r.expires ELSE r.created + Unanswered

redisDeadline(r) == interactionDeadline(r) + Grace

Expired(r) == interactionDeadline(r) <= now

\* transaction.userId and .sid, the carried session, whether the step is the
\* account chooser, and the account the sign-in so far names.
Record(secret, proved, carried, chooser, expires) ==
  [rev |-> 0, binding |-> secret, user |-> proved.user, sid |-> proved.sid,
   carried |-> carried, chooser |-> chooser, named |-> None,
   created |-> now, expires |-> expires]

insertInteraction(i, r) ==
  /\ rec' = [rec EXCEPT ![i] = r]
  /\ turn' = [turn EXCEPT ![i] = 0]
  /\ index' = [index EXCEPT ![i] = interactionDeadline(r)]

\* SET XX, SET NX and ZADD XX in one MULTI; the turn written beside a record
\* that was gone is deleted again.
writeInteractionState(i, r) ==
  IF rec[i] = None THEN UNCHANGED redis
  ELSE /\ rec' = [rec EXCEPT ![i] = r]
       /\ turn' = [turn EXCEPT ![i] = IF @ = None THEN r.rev ELSE @]
       /\ index' = [index EXCEPT ![i] = IF @ = None THEN @ ELSE interactionDeadline(r)]

\* mutant: the turn is read, not taken
PeekTurn(i) == UNCHANGED turn

takeInteractionTurn(i) == turn' = [turn EXCEPT ![i] = None]

\* mutant: SET XX in place of SET NX
ReturnHeld(i, revision) ==
  turn' = [turn EXCEPT ![i] = IF @ = None THEN @ ELSE revision]

returnInteractionTurn(i, revision) ==
  turn' = [turn EXCEPT ![i] = IF @ = None THEN revision ELSE @]

\* mutant: whether the record was there, never asked
OwnsAlways(i) == TRUE

\* The caller's ZREM removed the member: it owns the end of the interaction.
ownsEnd(i) == index[i] # None

deleteInteraction(i) ==
  /\ rec' = [rec EXCEPT ![i] = None]
  /\ turn' = [turn EXCEPT ![i] = None]
  /\ index' = [index EXCEPT ![i] = None]

nextFlowSecrets(held, removed, added) == (held \ {removed}) \cup added

----------------------------------------------------------------------------
(* Processes and faults *)

Idle == [kind |-> "none", pc |-> "idle"]

\* A workload: the requests and other events of the behaviour (do), what the
\* engine decides, the faults that may happen and how many, the bounds on time,
\* interactions, requests and revisions, and whether the browser is signed in.
Init ==
  /\ job \in Jobs
  /\ now = 0
  /\ rec = [i \in Ids |-> None] /\ turn = rec /\ index = rec
  /\ sess = [s \in Sids |-> IF job.carry /\ s = 1
                              THEN [user |-> CHOOSE u \in Users : TRUE, live |-> TRUE]
                              ELSE None]
  /\ jar = [secrets |-> {}, sid |-> IF job.carry THEN 1 ELSE None]
  /\ pr = [p \in Procs |-> Idle]
  /\ reports = [i \in Ids |-> <<>>]
  /\ acted = [i \in Ids |-> 0]
  /\ marks = {}
  /\ minted = [ids |-> 0, sids |-> IF job.carry THEN 1 ELSE 0, secrets |-> 0,
                asks |-> 0]
  /\ faults = job.size

At(p, kinds, pc) == pr[p].pc = pc /\ pr[p].kind \in kinds

Goes(p, pc) == pr' = [pr EXCEPT ![p].pc = pc]

Ends(p) == pr' = [pr EXCEPT ![p] = Idle]

Does(what) == what \in job.do

Fault(kind) == kind \in job.faults /\ faults > 0 /\ faults' = faults - 1

\* A step that may fail: it is carried out, it fails, or it is carried out and
\* its reply is lost.
Outcome(how) == IF how = "ok" THEN UNCHANGED faults ELSE Fault(how)

Redis == {"ok", "fail", "lost"}

Marked(marked) == marks' = marks \cup marked

When(condition, mark) == IF condition THEN {mark} ELSE {}

Report(i, how) == reports' = [reports EXCEPT ![i] = Append(@, how)]

\* Whether the session's row is live, for its user.
LiveFor(sid, user) == sess[sid] # None /\ sess[sid].live /\ sess[sid].user = user

\* sessionService.get answers the session.  An ended one it answers from its
\* cache when the tombstone was lost, for at most the cache time
\* (SessionService!StaleAtMostCacheTime): the fault "stale".
Served(sid, user) ==
  /\ sess[sid] # None /\ sess[sid].user = user
  /\ IF sess[sid].live THEN UNCHANGED faults ELSE Fault("stale")

EndSession(sid) == sess' = [sess EXCEPT ![sid].live = FALSE]

Nobody == [user |-> None, sid |-> None]

----------------------------------------------------------------------------
(* Starting an interaction, and a request that names one *)

\* Room for one more interaction, beside those a switch under way will start.
Room == minted.ids + Cardinality({p \in Procs : pr[p].kind = "switch"}) < job.ids

\* The flow cookie of a reply that starts an interaction has the new secret
\* beside those held; when the insert fails, or its reply is lost, the cookies
\* are as the caller left them.
createInteraction(how, cookies, held, removed, proved, carried, chooser, expires) ==
  LET i == minted.ids + 1
      secret == minted.secrets + 1
  IN  /\ i \in Ids
      /\ IF how = "fail" THEN UNCHANGED <<redis, minted>>
         ELSE /\ insertInteraction(i, Record(secret, proved, carried, chooser, expires))
              /\ minted' = [minted EXCEPT !.ids = i, !.secrets = secret]
      /\ jar' = IF how = "ok"
                  THEN [cookies EXCEPT !.secrets = nextFlowSecrets(held, removed, {secret})]
                  ELSE cookies

\* A browser that is signed in carries its session in, and a consent or an
\* account chooser may be the first step.
startInteraction ==
  /\ Does("start") /\ Room
  /\ \E signedIn, chooser, consent \in BOOLEAN :
       LET carried == IF signedIn THEN [user |-> sess[jar.sid].user, sid |-> jar.sid] ELSE None
       IN  /\ IF signedIn THEN jar.sid # None /\ Served(jar.sid, sess[jar.sid].user)
              ELSE (jar.sid # None => ~sess[jar.sid].live) /\ UNCHANGED faults
           /\ chooser \/ consent => signedIn
           /\ ~(chooser /\ consent)
           /\ createInteraction("ok", jar, jar.secrets, None,
                                IF consent THEN carried ELSE Nobody,
                                carried, chooser, now + Lifetime)
  /\ UNCHANGED <<job, now, sess, pr, reports, acted, marks>>

\* locateAnswerable: the record is there, not expired, and a secret of the
\* browser's cookie binds it.  A request this refuses changes nothing.
Locate(p, kind, i) ==
  /\ Does(kind) /\ pr[p] = Idle /\ minted.asks < job.asks
  /\ rec[i] # None /\ ~Expired(rec[i]) /\ rec[i].binding \in jar.secrets
  /\ kind = "switch" => Room
  /\ pr' = [pr EXCEPT ![p] =
       [kind |-> kind, pc |-> "take", id |-> i, jar |-> jar, bound |-> rec[i], taken |-> None,
        turn |-> None, decision |-> None, who |-> None, sid |-> None, session |-> None,
        secret |-> None, done |-> FALSE, todo |-> {}, clear |-> FALSE, unread |-> FALSE, late |-> FALSE,
        stale |-> FALSE]]
  /\ minted' = [minted EXCEPT !.asks = @ + 1]
  /\ UNCHANGED <<job, now, redis, sess, jar, reports, acted, marks, faults>>

\* takeBound: the turn is burned first.
takeTurn(p) ==
  LET i == pr[p].id
      s == pr[p].bound.sid
  IN  /\ At(p, requests, "take")
      /\ \E how \in Redis :
           /\ Outcome(how)
           /\ IF how = "fail" THEN UNCHANGED turn ELSE takeInteractionTurn(i)
           /\ IF how = "lost" /\ turn[i] # None THEN Marked({<<"turn", i>>}) ELSE UNCHANGED marks
           /\ IF how = "ok" /\ turn[i] # None
                THEN pr' = [pr EXCEPT ![p].pc = "reread", ![p].turn = turn[i],
                                      ![p].late = s # None /\ ~sess[s].live]
                ELSE Ends(p)
      /\ UNCHANGED <<job, now, rec, index, sess, jar, reports, acted, minted>>

\* takeBound: then the record is read again and compared with the one the
\* request was checked against.
takeBound(p) ==
  LET i == pr[p].id
      r == rec[i]
      same == /\ pr[p].turn = pr[p].bound.rev
              /\ r.rev = pr[p].bound.rev
              /\ r.binding = pr[p].bound.binding
      next == [answer |-> "decide", cancel |-> "delete", switch |-> "shown"]
  IN  /\ At(p, requests, "reread")
      /\ \E how \in {"ok", "fail"} :
           /\ Outcome(how)
           /\ IF how = "fail" THEN Marked({<<"turn", i>>}) ELSE UNCHANGED marks
           /\ CASE how = "fail" \/ r = None -> Ends(p)
                [] how = "ok" /\ r # None /\ Expired(r) -> Ends(p)
                [] how = "ok" /\ r # None /\ ~Expired(r) /\ same ->
                     pr' = [pr EXCEPT ![p].taken = r, ![p].pc = next[pr[p].kind]]
                [] OTHER -> pr' = [pr EXCEPT ![p] = IF pr[p].turn = r.rev
                                                      THEN [@ EXCEPT !.pc = "return"] ELSE Idle]
      /\ UNCHANGED <<job, now, redis, sess, jar, reports, acted, minted>>

\* takeBound: a turn taken for a later state is given back.
returnTurn(p) ==
  LET i == pr[p].id
  IN  /\ At(p, requests, "return")
      /\ \E how \in Redis :
           /\ Outcome(how)
           /\ IF how = "fail" THEN UNCHANGED turn /\ Marked({<<"turn", i>>})
                              ELSE returnInteractionTurn(i, pr[p].turn) /\ UNCHANGED marks
      /\ Ends(p)
      /\ UNCHANGED <<job, now, rec, index, sess, jar, reports, acted, minted>>

----------------------------------------------------------------------------
(* answerInteraction once the turn is taken: decide, then write *)

\* Whose account a decision is about, where that is told apart.
About(d, r) ==
  IF d \in {"authenticated", "signed_in"} \/ (d = "step" /\ r.carried # None)
    THEN Users ELSE {None}

\* The engine's decision, and who it is about.  An engine that throws, a
\* decision for a second subject and a registration after a sign-in leave the
\* interaction as it was; so does one that expired while the engine worked.
decide(p) ==
  LET r == pr[p].taken
      next == [step |-> "write", finished |-> "check", registered |-> "delete",
               authenticated |-> "create", signed_in |-> "create"]
  IN  /\ At(p, {"answer"}, "decide")
      /\ \/ /\ Fault("throw")
            /\ Goes(p, "cleanup") /\ UNCHANGED minted
         \/ /\ UNCHANGED faults
            /\ \E d \in job.decide : \E u \in About(d, r) :
                 LET signs == d \in {"authenticated", "signed_in"}
                     legal == /\ ~Expired(r)
                              /\ signs => r.user \in {None, u}
                              /\ d = "registered" => r.user = None
                 IN  /\ signs => minted.sids < Cardinality(Sids)
                     /\ pr' = [pr EXCEPT ![p].pc = IF legal THEN next[d] ELSE "cleanup",
                                         ![p].decision = d, ![p].who = u,
                                         ![p].sid = IF signs THEN minted.sids + 1 ELSE None]
                     /\ minted' = IF signs THEN [minted EXCEPT !.sids = @ + 1] ELSE minted
      /\ UNCHANGED <<job, now, redis, sess, jar, reports, acted, marks>>

\* mutant: the session is not looked up
FinishUnchecked(p) ==
  /\ At(p, {"answer"}, "check") /\ Goes(p, "delete")
  /\ UNCHANGED <<job, now, redis, sess, jar, reports, acted, marks, minted, faults>>

\* A finish needs the session the sign-in started to be live still, as the
\* session service answers; when it cannot read the row there is none.
signInSessionIsLive(p) ==
  LET r == pr[p].taken
  IN  /\ At(p, {"answer"}, "check")
      /\ \/ Fault("session") /\ Goes(p, "cleanup")
         \/ r.sid = None /\ Goes(p, "delete") /\ UNCHANGED faults
         \/ /\ r.sid # None /\ Served(r.sid, r.user)
            /\ pr' = [pr EXCEPT ![p].pc = "delete", ![p].stale = ~sess[r.sid].live]
         \/ /\ r.sid # None /\ ~LiveFor(r.sid, r.user)
            /\ Goes(p, "cleanup") /\ UNCHANGED faults
      /\ UNCHANGED <<job, now, redis, sess, jar, reports, acted, marks, minted>>

\* The helper's call of the session service: the row is stored, live.
storeSession(s, user) == sess' = [sess EXCEPT ![s] = [user |-> user, live |-> TRUE]]

\* A new session for every sign-in, and its cookie signed before anything is
\* written.  When the helper throws, the request knows of no session: there is
\* none, or its row is stored and the reply or the write of its side record
\* failed.
createBrowserSession(p) ==
  LET s == pr[p].sid
      next == IF pr[p].decision = "signed_in" THEN "delete" ELSE "write"
      created == storeSession(s, pr[p].who)
  IN  /\ At(p, {"answer"}, "create")
      /\ \/ Fault("session") /\ Goes(p, "cleanup") /\ UNCHANGED <<sess, marks>>
         \/ Fault("session") /\ Goes(p, "cleanup") /\ created /\ Marked({<<"unsettled", s>>})
         \/ /\ Fault("signer") /\ created /\ UNCHANGED marks
            /\ pr' = [pr EXCEPT ![p].pc = "cleanup", ![p].session = s]
         \/ /\ UNCHANGED <<faults, marks>> /\ created
            /\ pr' = [pr EXCEPT ![p].pc = next, ![p].session = s]
      /\ UNCHANGED <<job, now, redis, jar, reports, acted, minted>>

\* The next state: the step moves on, or the transaction is the user's and is
\* bound to a new flow secret.
NextState(r, p, secret) ==
  IF pr[p].decision = "step"
    THEN [r EXCEPT !.rev = @ + 1, !.chooser = FALSE,
                   !.named = IF r.carried = None THEN None ELSE pr[p].who]
    ELSE [r EXCEPT !.rev = @ + 1, !.chooser = FALSE, !.named = None, !.binding = secret,
                   !.user = pr[p].who, !.sid = pr[p].session]

writeState(p) ==
  LET i == pr[p].id
      r == pr[p].taken
      secret == minted.secrets + 1
      there == rec[i] # None
      signs == pr[p].decision = "authenticated"
  IN  /\ At(p, {"answer"}, "write")
      /\ minted' = IF signs THEN [minted EXCEPT !.secrets = secret] ELSE minted
      /\ \E how \in Redis :
           /\ Outcome(how)
           /\ IF how = "fail" THEN UNCHANGED <<redis, acted>>
              ELSE /\ writeInteractionState(i, NextState(r, p, secret))
                   /\ acted' = IF there THEN [acted EXCEPT ![i] = @ + 1] ELSE acted
           /\ pr' = [pr EXCEPT ![p].pc = IF how = "ok" /\ there THEN "report" ELSE "cleanup",
                               ![p].done = how = "ok", ![p].secret = secret]
           /\ IF how = "ok" /\ there /\ signs
                THEN Marked({<<"shown", pr[p].session>>}
                              \cup {<<"replaced", s>> : s \in {r.sid} \ {None}})
                ELSE UNCHANGED marks
      /\ UNCHANGED <<job, now, sess, jar, reports>>

\* deleteInteraction, for an answer that ends the interaction, a cancel and a
\* switch: who takes the member out of the index ends it.
deleteTaken(p) ==
  LET i == pr[p].id
      owned == ownsEnd(i)
      signs == pr[p].decision = "signed_in"
  IN  /\ At(p, requests, "delete")
      /\ \E how \in Redis :
           /\ Outcome(how)
           /\ IF how = "fail" THEN UNCHANGED redis ELSE deleteInteraction(i)
           /\ pr' = [pr EXCEPT ![p].pc = IF how = "ok" /\ owned THEN "report" ELSE "cleanup",
                               ![p].done = how = "ok"]
           /\ CASE how = "lost" /\ owned -> Marked({<<"report", i>>})
                [] how = "ok" /\ owned /\ signs ->
                     Marked({<<"shown", pr[p].session>>}
                              \cup {<<"replaced", s>> : s \in {pr[p].taken.sid} \ {None}})
                [] OTHER -> UNCHANGED marks
      /\ UNCHANGED <<job, now, sess, jar, reports, acted, minted>>

\* The cookies of the reply, set before the event is written.
Cookies(p) ==
  LET removed == pr[p].bound.binding
      held == pr[p].jar.secrets
      d == pr[p].decision
      kept == nextFlowSecrets(held, removed, IF d = "authenticated" THEN {pr[p].secret} ELSE {})
  IN  CASE pr[p].kind = "answer" /\ d = "step" -> jar
        [] pr[p].kind = "switch" -> [jar EXCEPT !.sid = IF pr[p].clear THEN None ELSE @]
        [] OTHER -> [secrets |-> kept,
                     sid |-> IF pr[p].session # None THEN pr[p].session ELSE jar.sid]

Outcomes == [step |-> "next_step", authenticated |-> "authenticated", finished |-> "finished",
             registered |-> "finished", signed_in |-> "finished"]

\* The audit event.  An answer whose event cannot be written, or was written
\* with the reply lost, fails with its cookies set and what comes after left
\* out.
report(p) ==
  LET i == pr[p].id
      how == IF pr[p].kind = "answer" THEN Outcomes[pr[p].decision] ELSE "cancelled"
      ends == how \in {"finished", "cancelled"}
      replaces == pr[p].session # None /\ pr[p].taken.sid # None
  IN  /\ At(p, requests, "report")
      /\ \/ /\ Fault("audit")
            /\ jar' = Cookies(p) /\ Ends(p)
            /\ Marked(When(ends, <<"report", i>>)
                        \cup When(replaces, <<"skipped", pr[p].taken.sid>>))
            /\ UNCHANGED reports \/ (ends /\ Report(i, how))
         \/ /\ UNCHANGED <<faults, jar, marks>>
            /\ IF ends THEN Report(i, how) ELSE UNCHANGED reports
            /\ Goes(p, IF replaces THEN "replaced" ELSE "reply")
      /\ UNCHANGED <<job, now, redis, sess, acted, minted>>

\* A session an earlier sign-in of the interaction started ends, best effort.
endReplacedSession(p) ==
  LET s == pr[p].taken.sid
  IN  /\ At(p, {"answer"}, "replaced")
      /\ \/ Fault("session") /\ Marked({<<"end", s>>}) /\ UNCHANGED sess
         \/ UNCHANGED <<faults, marks>> /\ EndSession(s)
      /\ Goes(p, "reply")
      /\ UNCHANGED <<job, now, redis, jar, reports, acted, minted>>

\* The reply: the request of a finished interaction goes back to its caller,
\* which completes it or goes on in a next interaction; a switch starts its new
\* one; a reply may be lost on its way to the browser.
reply(p) ==
  LET r == pr[p].taken
      finished == pr[p].kind = "answer" /\ Outcomes[pr[p].decision] = "finished"
      proved == IF pr[p].decision = "finished" THEN [user |-> r.user, sid |-> r.sid]
                                               ELSE [user |-> pr[p].who, sid |-> pr[p].session]
  IN  /\ At(p, requests, "reply")
      /\ \/ /\ pr[p].kind # "switch"
            /\ \/ jar' = Cookies(p) /\ UNCHANGED faults
               \/ Fault("response") /\ UNCHANGED jar
            /\ IF finished THEN Marked({<<"completed", pr[p].id>>}) ELSE UNCHANGED marks
            /\ UNCHANGED <<redis, minted>>
         \/ /\ UNCHANGED marks
            /\ \E how \in Redis :
                 /\ Outcome(how)
                 /\ \/ /\ finished /\ Does("continue") /\ Room
                       /\ createInteraction(how, Cookies(p), Cookies(p).secrets, None, proved, None,
                                            FALSE, r.expires)
                    \/ /\ pr[p].kind = "switch"
                       /\ createInteraction(how, Cookies(p), pr[p].jar.secrets,
                                            pr[p].bound.binding, Nobody, None, FALSE, r.expires)
      /\ Ends(p)
      /\ UNCHANGED <<job, now, sess, reports, acted>>

----------------------------------------------------------------------------
(* The clean-up of a request that failed with the turn *)

\* Only while the interaction is live and Redis still holds the state the turn
\* was taken for.
giveTurnBack(p) ==
  LET i == pr[p].id
      r == pr[p].taken
  IN  /\ At(p, requests, "cleanup")
      /\ IF pr[p].done \/ Expired(r)
           THEN Goes(p, "unused") /\ UNCHANGED <<faults, marks>>
           ELSE \/ Fault("fail") /\ Marked({<<"turn", i>>}) /\ Goes(p, "unused")
                \/ /\ UNCHANGED <<faults, marks>>
                   /\ Goes(p, IF rec[i] = None \/ rec[i].rev # r.rev THEN "unused" ELSE "giveback")
      /\ UNCHANGED <<job, now, redis, sess, jar, reports, acted, minted>>

giveBack(p) ==
  LET i == pr[p].id
  IN  /\ At(p, requests, "giveback")
      /\ \E how \in Redis :
           /\ Outcome(how)
           /\ IF how = "fail" THEN UNCHANGED turn /\ Marked({<<"turn", i>>})
                              ELSE returnInteractionTurn(i, pr[p].taken.rev) /\ UNCHANGED marks
      /\ Goes(p, "unused")
      /\ UNCHANGED <<job, now, rec, index, sess, jar, reports, acted, minted>>

\* mutant: the session of a failed answer stays
KeepUnused(p) ==
  /\ At(p, requests, "unused") /\ Ends(p)
  /\ UNCHANGED <<job, now, redis, sess, jar, reports, acted, marks, minted, faults>>

\* The session of an answer that was not written ends, best effort.
endUnusedSession(p) ==
  LET s == pr[p].session
  IN  /\ At(p, requests, "unused")
      /\ IF s = None THEN UNCHANGED <<faults, marks, sess>>
         ELSE \/ Fault("session") /\ Marked({<<"end", s>>}) /\ UNCHANGED sess
              \/ UNCHANGED <<faults, marks>> /\ EndSession(s)
      /\ Ends(p)
      /\ UNCHANGED <<job, now, redis, jar, reports, acted, minted>>

----------------------------------------------------------------------------
(* The user switch: the sessions of the account the screen shows end first *)

\* The account the screen shows, and its sessions the record holds.
shownUser(r) ==
  IF r.user # None THEN r.user ELSE IF r.carried = None THEN None ELSE r.named

switchedSids(r) ==
  {s \in {r.sid} \ {None} : r.user # None}
    \cup (IF r.carried # None /\ r.carried.user = shownUser(r) THEN {r.carried.sid} ELSE {})

switchedUserOf(p) ==
  LET r == pr[p].taken
      shows == ~r.chooser /\ shownUser(r) # None /\ switchedSids(r) # {}
  IN  /\ At(p, {"switch"}, "shown")
      /\ \/ Fault("fail") /\ Goes(p, "cleanup")
         \/ /\ UNCHANGED faults
            /\ IF shows THEN pr' = [pr EXCEPT ![p].pc = "ending", ![p].who = shownUser(r),
                                             ![p].todo = switchedSids(r)]
                        ELSE Goes(p, "delete")
      /\ UNCHANGED <<job, now, redis, sess, jar, reports, acted, marks, minted>>

\* mutant: the session the cookie names is not asked about
EndListedSessions(p) ==
  /\ At(p, {"switch"}, "ending")
  /\ \/ /\ \E s \in pr[p].todo : EndSession(s) /\ pr' = [pr EXCEPT ![p].todo = @ \ {s}]
     \/ pr[p].todo = {} /\ Goes(p, "delete") /\ UNCHANGED sess
  /\ UNCHANGED <<job, now, redis, jar, reports, acted, marks, minted, faults>>

\* Each of them ends, then the one the cookie names if it is a later session
\* of the same account; a failure gives the turn back.
endSwitchedSessions(p) ==
  /\ At(p, {"switch"}, "ending")
  /\ \/ Fault("session") /\ Goes(p, "cleanup") /\ UNCHANGED sess
     \/ /\ UNCHANGED faults
        /\ \E s \in pr[p].todo :
             EndSession(s) /\ pr' = [pr EXCEPT ![p].todo = @ \ {s}]
     \/ /\ UNCHANGED <<faults, sess>> /\ pr[p].todo = {}
        /\ Goes(p, IF pr[p].clear THEN "delete" ELSE "cookie")
  /\ UNCHANGED <<job, now, redis, jar, reports, acted, marks, minted>>

\* The cookie's session: one that just ended, a later one of the account as the
\* session service answers, or another.  Without the signer the cookie cannot
\* be read, and a session service that cannot read the row answers that there
\* is no session (readThrough, touch): it stays, and the switch goes on.
switchCookieSessionId(p) ==
  LET named == pr[p].jar.sid
      mine == named \in switchedSids(pr[p].taken)
  IN  /\ At(p, {"switch"}, "cookie")
      /\ \/ /\ named # None /\ (Fault("signer") \/ (~mine /\ Fault("session")))
            /\ pr' = [pr EXCEPT ![p].pc = "delete", ![p].unread = TRUE]
         \/ /\ named = None \/ mine
            /\ pr' = [pr EXCEPT ![p].pc = "delete", ![p].clear = mine]
            /\ UNCHANGED faults
         \/ /\ named # None /\ ~mine /\ Served(named, pr[p].who)
            /\ pr' = [pr EXCEPT ![p].pc = "ending", ![p].clear = TRUE, ![p].todo = {named}]
         \/ /\ named # None /\ ~mine /\ ~LiveFor(named, pr[p].who)
            /\ Goes(p, "delete") /\ UNCHANGED faults
      /\ UNCHANGED <<job, now, redis, sess, jar, reports, acted, marks, minted>>

----------------------------------------------------------------------------
(* The expiry sweep *)

expiredInteractionEntries(p) ==
  LET due == {i \in Ids : index[i] # None /\ index[i] <= now}
  IN  /\ Does("sweep") /\ pr[p] = Idle /\ due # {}
      /\ pr' = [pr EXCEPT ![p] = [kind |-> "sweep", pc |-> "claim", session |-> None, taken |-> None,
                                  entry |-> None, todo |-> {[id |-> i, at |-> index[i]] : i \in due}]]
      /\ UNCHANGED <<job, now, redis, sess, jar, reports, acted, marks, minted, faults>>

\* ZREM, DEL and GETDEL in one MULTI: who removes the member reports it.
claimExpiredInteraction(p) ==
  /\ At(p, {"sweep"}, "claim")
  /\ \E e \in pr[p].todo, how \in Redis :
       LET owned == ownsEnd(e.id)
           early == rec[e.id] # None /\ ~Expired(rec[e.id])
           kept == [pr[p] EXCEPT !.todo = @ \ {e}]
       IN  /\ Outcome(how)
           /\ IF how = "fail" THEN UNCHANGED redis ELSE deleteInteraction(e.id)
           /\ CASE how # "ok" -> Ends(p)
                [] how = "ok" /\ owned ->
                     pr' = [pr EXCEPT ![p] = [kept EXCEPT !.pc = "emit", !.entry = e,
                                                          !.taken = rec[e.id]]]
                [] OTHER -> pr' = [pr EXCEPT ![p] = IF kept.todo = {} THEN Idle ELSE kept]
           /\ Marked(When(how = "lost" /\ owned, <<"report", e.id>>)
                       \cup When(how # "fail" /\ owned /\ early, <<"early", e.id>>))
  /\ UNCHANGED <<job, now, sess, jar, reports, acted, minted>>

\* The event; one the contract refuses is dropped, one that cannot be written,
\* or was written with the reply lost, is listed again.
emitExpired(p) ==
  LET i == pr[p].entry.id
      goes == IF pr[p].todo = {} THEN Ends(p) ELSE Goes(p, "claim")
  IN  /\ At(p, {"sweep"}, "emit")
      /\ \/ UNCHANGED <<faults, marks>> /\ Report(i, "expired") /\ goes
         \/ Fault("invalid") /\ Marked({<<"report", i>>}) /\ UNCHANGED reports /\ goes
         \/ /\ Fault("audit") /\ Goes(p, "relist")
            /\ \/ UNCHANGED <<reports, marks>>
               \/ Report(i, "expired") /\ Marked({<<"unheard", i>>})
      /\ UNCHANGED <<job, now, redis, sess, jar, acted, minted>>

\* mutant: an expiry whose event failed is not listed again
RelistNothing(p) ==
  /\ At(p, {"sweep"}, "relist") /\ Ends(p)
  /\ UNCHANGED <<job, now, redis, sess, jar, reports, acted, marks, minted, faults>>

relistExpiredInteraction(p) ==
  LET e == pr[p].entry
  IN  /\ At(p, {"sweep"}, "relist")
      /\ \E how \in Redis :
           /\ Outcome(how)
           /\ IF how = "fail" THEN UNCHANGED <<rec, index>> /\ Marked({<<"report", e.id>>})
              ELSE /\ index' = [index EXCEPT ![e.id] = e.at]
                   /\ rec' = [rec EXCEPT ![e.id] = IF @ = None THEN pr[p].taken ELSE @]
                   /\ UNCHANGED marks
      /\ Ends(p)
      /\ UNCHANGED <<job, now, turn, sess, jar, reports, acted, minted>>

----------------------------------------------------------------------------
(* What happens beside the requests *)

\* The person signs out elsewhere, or an administrator ends the session.
SignOutElsewhere(s) ==
  /\ Does("signout") /\ sess[s] # None /\ sess[s].live
  /\ EndSession(s)
  /\ UNCHANGED <<job, now, redis, jar, pr, reports, acted, marks, minted, faults>>

\* A node dies with a request or a sweep under way.
Crash(p) ==
  LET q == pr[p]
      i == IF q.kind # "sweep" THEN q.id ELSE IF q.entry = None THEN None ELSE q.entry.id
      holds == q.kind # "sweep" /\ q.pc \notin {"take", "report", "replaced", "reply", "unused"}
      mute == q.pc \in {"emit", "relist"} \/ (q.pc = "report" /\ rec[i] = None)
      left == {q.session} \cup (IF q.pc \in {"report", "replaced"} THEN {q.taken.sid} ELSE {})
  IN  /\ q # Idle /\ Fault("crash")
      /\ Marked(When(holds, <<"turn", i>>) \cup When(mute, <<"report", i>>)
                  \cup {<<"end", s>> : s \in left \ {None}})
      /\ Ends(p)
      /\ UNCHANGED <<job, now, redis, sess, jar, reports, acted, minted>>

\* Redis drops a record and its turn a grace after its deadline.
Tick ==
  LET kept == {i \in Ids : rec[i] # None /\ redisDeadline(rec[i]) > now + 1}
  IN  /\ now < job.until
      /\ now' = now + 1
      /\ rec' = [i \in Ids |-> IF i \in kept THEN rec[i] ELSE None]
      /\ turn' = [i \in Ids |-> IF i \in kept \/ rec[i] = None THEN turn[i] ELSE None]
      /\ UNCHANGED <<job, index, sess, jar, pr, reports, acted, marks, minted, faults>>

Step(p) ==
  \/ takeTurn(p) \/ takeBound(p) \/ returnTurn(p)
  \/ decide(p) \/ signInSessionIsLive(p) \/ createBrowserSession(p)
  \/ writeState(p) \/ deleteTaken(p) \/ report(p) \/ endReplacedSession(p) \/ reply(p)
  \/ giveTurnBack(p) \/ giveBack(p) \/ endUnusedSession(p)
  \/ switchedUserOf(p) \/ endSwitchedSessions(p) \/ switchCookieSessionId(p)
  \/ claimExpiredInteraction(p) \/ emitExpired(p) \/ relistExpiredInteraction(p)

Next ==
  \/ startInteraction
  \/ \E p \in Procs :
       \/ \E i \in Ids, kind \in requests : Locate(p, kind, i)
       \/ expiredInteractionEntries(p)
       \/ Step(p)
       \/ Crash(p)
  \/ \E s \in Sids : SignOutElsewhere(s)
  \/ Tick

Spec ==
  /\ Init /\ [][Next]_vars
  /\ WF_vars(Tick)
  /\ \A p \in Procs : WF_vars(Step(p)) /\ WF_vars(expiredInteractionEntries(p))

----------------------------------------------------------------------------
(* Properties *)

InFlight(i) == {p \in Procs : pr[p].kind \in requests /\ pr[p].id = i}

RequestSteps ==
  {"take", "reread", "return", "decide", "check", "create", "write", "delete", "shown",
   "ending", "cookie", "report", "replaced", "reply", "cleanup", "giveback", "unused"}

RequestType ==
  [kind : requests, pc : RequestSteps, id : Ids, jar : JarType, bound : RecordType,
   taken : RecordType \cup {None},
   turn : Nat \cup {None}, decision : Decisions \cup {None}, who : Users \cup {None},
   sid : Sids \cup {None}, session : Sids \cup {None}, secret : Nat \cup {None},
   done : BOOLEAN, todo : SUBSET Sids, clear : BOOLEAN, unread : BOOLEAN, late : BOOLEAN,
   stale : BOOLEAN]

SweepType ==
  [kind : {"sweep"}, pc : {"claim", "emit", "relist"}, session : {None},
   taken : RecordType \cup {None}, entry : EntryType \cup {None}, todo : SUBSET EntryType]

ProcessType == {Idle} \cup RequestType \cup SweepType

\* The shape of the state. Interactions, sessions and flow secrets are numbered
\* as they are made.
TypeOK ==
  /\ job \in Jobs /\ now \in Nat /\ faults \in Nat
  /\ rec \in [Ids -> RecordType \cup {None}]
  /\ turn \in [Ids -> Nat \cup {None}] /\ index \in [Ids -> Nat \cup {None}]
  /\ sess \in [Sids -> SessionType \cup {None}] /\ jar \in JarType
  /\ pr \in [Procs -> ProcessType]
  /\ reports \in [Ids -> Seq({"finished", "cancelled", "expired"})]
  /\ acted \in [Ids -> Nat]
  /\ minted \in [ids : Nat, sids : Nat, secrets : Nat, asks : Nat]
  /\ \A i \in Ids : rec[i] # None => i <= minted.ids /\ rec[i].binding <= minted.secrets
  /\ \A s \in Sids : sess[s] # None => s <= minted.sids

\* An interaction ends in one way: among concurrent answers, cancels, switches
\* and sweeps, with replies lost on the way, it is reported finished, cancelled
\* or expired at most once, and its request goes back to the caller only when
\* it was reported finished (deleteInteraction, claimExpiredInteraction).  The
\* exception is an expiry whose event was written with the reply lost: it is
\* listed again, and the next report of it comes after that one (emitExpired).
OneOutcome ==
  \A i \in Ids :
    LET n == Len(reports[i])
    IN  /\ n > 1 => <<"unheard", i>> \in marks
        /\ \A k \in 1..(n - 1) : reports[i][k] = "expired"
        /\ <<"completed", i>> \in marks => n > 0 /\ reports[i][n] = "finished"

\* Each revision is answered once: whatever turns were taken, returned and
\* given back, the revision counts exactly the states that were written, so no
\* answer overwrote another's (takeInteractionTurn, writeInteractionState).
AnsweredOnce ==
  \A i \in Ids : rec[i] # None => rec[i].rev = acted[i]

\* A live interaction nobody is answering can be answered: its turn is there.
\* The exceptions are those the code cannot undo: a node that died with the
\* turn, a Redis failure inside takeBound or inside the clean-up itself, and a
\* claim of the sweep that the first answer overtook (giveTurnBack, takeBound).
LiveIsAnswerable ==
  \A i \in Ids :
    (/\ rec[i] # None /\ ~Expired(rec[i]) /\ InFlight(i) = {}
     /\ {<<"turn", i>>, <<"early", i>>} \cap marks = {})
      => turn[i] = rec[i].rev

\* No session is left live that no browser was given: it belongs to a request
\* under way, its cookie went out, its end failed, or the helper that stored its
\* row threw before the request learned of it (settleAnswer, endUnusedSession).
SessionsGivenOrEnded ==
  \A s \in Sids :
    (sess[s] # None /\ sess[s].live /\ ~(job.carry /\ s = 1)) =>
      \/ {<<"shown", s>>, <<"end", s>>, <<"unsettled", s>>} \cap marks # {}
      \/ \E p \in Procs : pr[p].kind \in requests /\ pr[p].session = s

Replacing(s) ==
  \E p \in Procs : /\ pr[p].kind = "answer" /\ pr[p].pc \in {"report", "replaced"}
                   /\ pr[p].taken.sid = s

\* A later sign-in of the same interaction ends the session of the earlier one:
\* once its answer is settled the replaced session is not live, unless its end
\* failed or the answer's event could not be written (endReplacedSession).
ReplacedSessionOver ==
  \A s \in Sids :
    (<<"replaced", s>> \in marks /\ sess[s].live) =>
      Replacing(s) \/ {<<"end", s>>, <<"skipped", s>>} \cap marks # {}

\* interaction.ts 1364: the session a later authentication replaced "ends",
\* unless ending it failed; the event's failure is no excuse.
ReplacedSessionEnds ==
  \A s \in Sids :
    (<<"replaced", s>> \in marks /\ sess[s].live) => Replacing(s) \/ <<"end", s>> \in marks

\* A request completes only under a live session: a finish never ends the
\* interaction when the session its sign-in started had ended before the
\* finish took the turn (signInSessionIsLive), unless the session service
\* answered it from a stale cache entry.
NoFinishUnderEndedSession ==
  [][\A p \in Procs :
       (/\ At(p, {"answer"}, "delete") /\ pr[p].decision = "finished"
        /\ pr'[p].pc = "report") => ~pr[p].late \/ pr[p].stale]_vars

\* "Not you?" signs out: when a switch goes on to its new interaction, neither a
\* session of the shown account the record held nor the one the browser's
\* cookie named is live for that account (endSwitchedSessions); the cookie's is
\* excepted when the cookie, or the row of its session, could not be read.
SwitchSignsOut ==
  \A p \in Procs :
    (At(p, {"switch"}, "reply") /\ ~pr[p].taken.chooser /\ switchedSids(pr[p].taken) # {}) =>
      \A s \in (switchedSids(pr[p].taken)
               \cup (IF pr[p].unread THEN {} ELSE {pr[p].jar.sid})) \ {None} :
        ~LiveFor(s, shownUser(pr[p].taken))

\* interaction-record.ts 42: "the first answer the server processes lifts that
\* deadline to the absolute expiry": the sweep never takes an interaction whose
\* deadline has not passed.
LiftedDeadlineHolds ==
  \A i \in Ids : <<"early", i>> \notin marks

\* Every interaction is accounted for in the end: it is reported finished,
\* cancelled or expired, unless the report itself was lost to a fault
\* (createInteractionExpiryJob).
EveryEndReported ==
  \A i \in Ids :
    (rec[i] # None /\ rec[i].expires <= job.until) ~> (reports[i] # <<>> \/ <<"report", i>> \in marks)

\* Sessions are accounted for: each was given to a browser, belongs to a
\* request under way or is over, and a replaced one does not outlive its
\* successor's answer (settleAnswer, endUnusedSession, endReplacedSession).
SessionsKept == TypeOK /\ SessionsGivenOrEnded /\ ReplacedSessionOver
====
