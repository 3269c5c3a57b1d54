---------------------------- MODULE SignInEngine ----------------------------
(***************************************************************************)
(* The sign-in engine: transactions that sign in to, register or reset one *)
(* account, answer by answer.  A round takes the stored transaction and an *)
(* answer, works through the rules, and stores a new transaction with the  *)
(* next offer, completes, or ends it (engine.ts, email-code.ts,            *)
(* factors.ts, amr.ts).  Every read and write of a store is a step of its  *)
(* own: two transactions and the account's other users act in between.     *)
(*                                                                         *)
(* A round a store fails, a limit throttles or no step can continue leaves *)
(* the stored transaction as it was (interaction-engines.ts); one the      *)
(* engine ends is replaced by a new one.  What the person types is right   *)
(* or wrong by free choice, and so is what the breach list says.           *)
(***************************************************************************)
EXTENDS Naturals, FiniteSets

CONSTANTS
  Txns,        \* browsers, each with one transaction at a time
  None,
  Jobs,        \* the workloads: see Init
  MaxWrong,    \* EMAIL_CODE_MAX_WRONG_ANSWERS
  CodeTtl,     \* EMAIL_CODE_TTL_MS
  ResendAfter, \* EMAIL_CODE_RESEND_AFTER_MS
  BindAge,     \* PASSKEY_BINDING_MAX_AUTH_AGE_MS, TOTP_BINDING_MAX_AUTH_AGE_MS
  MaxAge       \* SIGN_IN_TRANSACTION_MAX_AGE_MS

Factors == {"password", "passkey", "totp"}

Account == [exists : BOOLEAN, addr : BOOLEAN, enabled : BOOLEAN, verified : BOOLEAN,
            must : BOOLEAN, confirmed : BOOLEAN, factors : SUBSET Factors, off : SUBSET Factors,
            unused : Nat, set : Nat, epoch : Nat, pw : Nat]

\* An account that is not there has no factor and is not enabled.
Possible(acc) == /\ acc \in Account /\ acc.off \subseteq acc.factors /\ acc.epoch <= 1
                 /\ ~acc.exists => ~acc.enabled /\ acc.factors = {}

CodeType == [at : Nat, wrong : Nat]

ASSUME SignInAssumption ==
  /\ {MaxWrong, CodeTtl, ResendAfter, BindAge, MaxAge} \subseteq Nat
  /\ MaxWrong > 0 /\ CodeTtl > 0
  /\ None \notin Txns \cup {"own", "other"} \cup CodeType
  /\ \A j \in Jobs :
       /\ j.flow \in {"none", "register", "reset"} /\ j.browsers \subseteq Txns
       /\ j.mfa \in BOOLEAN /\ j.breach \in BOOLEAN /\ j.until \in Nat \ {0}
       /\ j.others \subseteq {"disable", "require", "ceiling", "reset"} \cup Factors
       /\ \A acc \in j.accounts : Possible(acc)

VARIABLES
  job,      \* the workload of this behaviour
  now,
  acct,     \* the account: its row, factors, recovery codes and session epoch
  txn,      \* the stored transactions
  round,    \* the rounds under way
  result,   \* how each browser's ceremony completed
  guesses,  \* wrong email codes counted for each transaction
  left      \* events elsewhere and faults left

vars == <<job, now, acct, txn, round, result, guesses, left>>

----------------------------------------------------------------------------
(* The transaction, the account and what one proves of the other *)

\* `proof` only records, for the properties, the session epoch when the first
\* factor was proved.
NewTxn(flow) ==
  [flow |-> flow, created |-> now, ident |-> None, subject |-> FALSE, verified |-> {},
   auth |-> None, code |-> None, breached |-> FALSE, update |-> FALSE, enrol |-> "none",
   setup |-> "none", shown |-> None, upstream |-> FALSE, proof |-> 0]

factorStrength == [password |-> 1, passkey |-> 2, totp |-> 0, upstream |-> 1]

Greatest(S) == IF S = {} THEN 0 ELSE CHOOSE x \in S : \A y \in S : y <= x

\* A disabled factor counts.
strongestBoundFactor(acc) == Greatest({factorStrength[f] : f \in acc.factors})

provenFactorStrength(tx) ==
  Greatest({factorStrength[s] : s \in tx.verified \cap DOMAIN factorStrength})

usable(acc) == acc.factors \ acc.off

holdsTotp(acc) == "totp" \in acc.factors
boundBeyondPassword(acc) == acc.factors \ {"password"} # {}

provedMailbox(tx) == "email_code" \in tx.verified
provedBeyondPassword(tx) == tx.verified \cap {"passkey", "totp"} # {}
tookRecoveryCode(tx) == "recovery_code" \in tx.verified
metBeyondPassword(tx) == provedBeyondPassword(tx) \/ tookRecoveryCode(tx)
codeAlone(tx) ==
  tookRecoveryCode(tx) /\ tx.verified \cap {"upstream", "password", "passkey", "totp"} = {}
enrolledTotp(tx) == "totp_setup" \in tx.verified

\* transactionAmr: a registration and a reset have completed before anyone asks.
hasAmr(tx) == tx.verified \cap {"password", "passkey", "totp"} # {}
provesMfa(tx) == "passkey" \in tx.verified \/ {"password", "totp"} \subseteq tx.verified

addressPending(tx, acc) == ~acc.verified /\ ~provedMailbox(tx)

\* mutant: what the breach list said is forgotten
UpdateIfRequired(tx, acc) ==
  "new_password" \notin tx.verified /\ acc.must /\ "password" \in acc.factors

updateDue(tx, acc) ==
  /\ "new_password" \notin tx.verified
  /\ tx.breached \/ tx.update \/ acc.must
  /\ "password" \in acc.factors

\* The address mail goes to: the identifier, or the provider's.
hasAddress(tx) == tx.ident # None \/ "upstream" \in tx.verified

fresh(tx) == tx.auth # None /\ now - tx.auth <= BindAge

verifyAddressAsk(tx) == IF hasAddress(tx) THEN "code" ELSE "stuck"

emailCodeExpired(held) == now - held.at >= CodeTtl
emailCodeResendDue(held) == now - held.at >= ResendAfter

\* mutant: a new code starts the count again
HeldAnew(previous) == [at |-> now, wrong |-> 0]

heldEmailCode(previous) ==
  [at |-> now, wrong |-> IF previous = None THEN 0 ELSE previous.wrong]

countWrongEmailCode(held) == [held EXCEPT !.wrong = @ + 1]

----------------------------------------------------------------------------
(* What the rules ask for next *)

Candidates(tx, acc) == {f \in {"totp", "password", "passkey"} : f \in usable(acc) \ tx.verified}

\* mutant: nothing but the downgrade rule, and a disabled factor forgotten
NeededUsable(tx, acc) ==
  IF provenFactorStrength(tx) < Greatest({factorStrength[f] : f \in usable(acc)})
    THEN "stronger" ELSE "none"

\* The loop of needed factors.
Needed(tx, acc) ==
  IF /\ provenFactorStrength(tx) < strongestBoundFactor(acc)
     /\ ~tookRecoveryCode(tx) \/ codeAlone(tx)
     /\ tx.enrol # "bound"
    THEN "stronger"
  ELSE IF holdsTotp(acc) /\ "totp" \notin tx.verified /\ ~provesMfa(tx) /\ ~tookRecoveryCode(tx)
    THEN "totp"
  ELSE IF job.mfa /\ ~provesMfa(tx)
    THEN IF ~tookRecoveryCode(tx) /\ Candidates(tx, acc) # {} THEN "second"
         ELSE IF "password" \in tx.verified /\ (tookRecoveryCode(tx) \/ ~holdsTotp(acc))
           THEN "setup" ELSE "stuck"
  ELSE IF /\ tookRecoveryCode(tx) /\ holdsTotp(acc) /\ "totp" \notin usable(acc)
          /\ ~enrolledTotp(tx) /\ ~provesMfa(tx)
    THEN "setup"
  ELSE IF updateDue(tx, acc) /\ boundBeyondPassword(acc) /\ ~metBeyondPassword(tx)
    THEN "beyond"
  ELSE "none"

\* The factors a need is met with, the recovery code aside.
FactorsFor(need, tx, acc) ==
  LET c == Candidates(tx, acc)
  IN  CASE need = "stronger" ->
             {f \in c \ {"totp"} : factorStrength[f] >= strongestBoundFactor(acc)}
        [] need = "totp" -> c \cap {"totp"}
        [] need = "second" -> c
        [] need = "beyond" -> c \ {"password"}
        [] OTHER -> {}

\* recoveryAlternative
RecoveryFor(tx) == IF ~tookRecoveryCode(tx) /\ acct.unused > 0 THEN {"recovery_code"} ELSE {}

FactorAsk(need, tx, acc) ==
  IF need = "stuck" \/ FactorsFor(need, tx, acc) \cup RecoveryFor(tx) = {} THEN "stuck"
  ELSE IF need # "stronger" /\ addressPending(tx, acc) THEN verifyAddressAsk(tx)
  ELSE "factor"

enrolTotpAsk(tx, acc) ==
  IF enrolledTotp(tx) \/ ~(hasAddress(tx) \/ acc.addr) THEN "stuck"
  ELSE IF ~fresh(tx) THEN "stale"
  ELSE IF addressPending(tx, acc) THEN verifyAddressAsk(tx)
  ELSE IF tx.setup # "checked" THEN "setup"
  ELSE IF ~boundBeyondPassword(acc) /\ ~provedMailbox(tx) THEN verifyAddressAsk(tx)
  ELSE "bindTotp"

forcedUpdateAsk(tx, acc) ==
  IF tx.ident = None THEN "stuck"
  ELSE IF boundBeyondPassword(acc)
    THEN IF metBeyondPassword(tx) THEN "password" ELSE "fault"
  ELSE IF provedMailbox(tx) THEN "password" ELSE "code"

passwordOnly(acc) == acc.factors = {"password"}

\* mutant: a passkey is bound on the password alone
EnrolOnPassword(tx, acc) ==
  IF tx.enrol \in {"declined", "bound"} \/ tx.ident = None THEN "none"
  ELSE IF tx.enrol = "held" THEN "bindPasskey"
  ELSE IF fresh(tx) /\ passwordOnly(acc) THEN "enrol" ELSE "none"

enrolPasskeyAsk(tx, acc) ==
  LET requested == job.enrol = "passkey"
  IN  IF tx.enrol \in {"declined", "bound"} \/ (tx.ident = None /\ ~requested) THEN "none"
      ELSE IF tx.enrol = "none"
        THEN IF fresh(tx) /\ (requested \/ (passwordOnly(acc) /\ "password" \in tx.verified))
               THEN "enrol" ELSE "none"
      ELSE IF passwordOnly(acc) /\ ~provedMailbox(tx) THEN verifyAddressAsk(tx)
      ELSE IF ~fresh(tx) THEN "lapse" ELSE "bindPasskey"

\* A registration by passkey owes its account the codes, and nothing else.
registersByPasskey(tx) == tx.flow = "register" /\ tx.ident = None

\* mutant: codes are shown for a factor proved, not for a passkey just bound
ShowForProved(tx, acc) ==
  IF tx.shown # None THEN "codes"
  ELSE IF ~(boundBeyondPassword(acc) /\ provedBeyondPassword(tx)) \/ acct.confirmed
    THEN "none" ELSE "codes"

showRecoveryCodesAsk(tx, acc) ==
  IF tx.shown # None THEN "codes"
  ELSE IF /\ ~registersByPasskey(tx)
          /\ \/ tookRecoveryCode(tx)
             \/ tx.enrol # "bound" /\ ~(boundBeyondPassword(acc) /\ provedBeyondPassword(tx))
    THEN "none"
  ELSE IF acct.confirmed THEN "none" ELSE "codes"

\* The rules after a subject is known, in their order: each is asked once per
\* round, from the account as it was last read.
rebindStage == 0
loopStage == 1
addressStage == 2
updateStage == 3
totpStage == 4
passkeyStage == 5
codesStage == 6
completeStage == 7

RuleAt(k, tx, acc) ==
  CASE k = rebindStage ->
         IF tx.flow # "register" /\ codeAlone(tx) /\ "webauthn_create" \notin tx.verified
           THEN IF fresh(tx) THEN "rebind" ELSE "stale" ELSE "none"
    [] k = loopStage ->
         LET need == Needed(tx, acc)
         IN  IF need = "none" THEN "none"
             ELSE IF need = "setup" THEN enrolTotpAsk(tx, acc)
             ELSE FactorAsk(need, tx, acc)
    [] k = addressStage -> IF addressPending(tx, acc) THEN verifyAddressAsk(tx) ELSE "none"
    [] k = updateStage -> IF updateDue(tx, acc) THEN forcedUpdateAsk(tx, acc) ELSE "none"
    [] k = totpStage ->
         IF /\ job.enrol = "totp" /\ tx.flow # "register" /\ ~holdsTotp(acc)
            /\ ~enrolledTotp(tx) /\ (hasAddress(tx) \/ acc.addr)
           THEN enrolTotpAsk(tx, acc) ELSE "none"
    [] k = passkeyStage ->
         IF tx.flow # "register" THEN enrolPasskeyAsk(tx, acc) ELSE "none"
    [] k = codesStage -> showRecoveryCodesAsk(tx, acc)
    [] k = completeStage -> IF hasAmr(tx) \/ "upstream" \in tx.verified THEN "complete" ELSE "fault"

AskAt(k, tx, acc) ==
  CASE registersByPasskey(tx) ->
         IF k = codesStage THEN showRecoveryCodesAsk(tx, acc)
         ELSE IF k = completeStage THEN "complete" ELSE "none"
    [] OTHER -> RuleAt(k, tx, acc)

----------------------------------------------------------------------------
(* Rounds *)

\* The rules of round r before the k-th ask for nothing.
Reaches(r, k) == \A j \in r.stage..(k - 1) : AskAt(j, r.tx, r.acc) = "none"

Stage(r) == CHOOSE k \in r.stage..completeStage :
              AskAt(k, r.tx, r.acc) # "none" /\ Reaches(r, k)

\* Round t has come to the rule that asks `what`.
Asks(t, what) == /\ round[t] # None /\ round[t].pc = "rules"
                 /\ \E k \in round[t].stage..completeStage :
                      /\ AskAt(k, round[t].tx, round[t].acc) = what
                      /\ Reaches(round[t], k)

At(t, pc) == round[t] # None /\ round[t].pc = pc

\* The round's answer, until a rule reads it.
Answered(t, what) == round[t].ans = what

Offer(t, tx) == /\ txn' = [txn EXCEPT ![t] = tx]
                /\ round' = [round EXCEPT ![t] = None]

ended(t) == Offer(t, None)

\* Refused, throttled or redirected: the stored transaction stays.
Drop(t) == round' = [round EXCEPT ![t] = None] /\ UNCHANGED txn

Go(t, pc, tx) == /\ round' = [round EXCEPT ![t].pc = pc, ![t].tx = tx]
                 /\ UNCHANGED txn

\* The rule took the answer, and the round goes on from there.
Took(t, pc, tx) ==
  LET r == round[t]
  IN  /\ round' = [round EXCEPT ![t] = [r EXCEPT !.pc = pc, !.tx = tx, !.ans = "look",
                      !.stage = IF r.pc = "rules" THEN Stage(r) ELSE @]]
      /\ UNCHANGED txn

Verified(tx, step) == [tx EXCEPT !.verified = @ \cup {step}]

\* round: a transaction past its age ends, whatever was answered.
Begin(t) ==
  /\ t \in job.browsers /\ round[t] = None /\ result[t] = None
  /\ \E ans \in job.answers \cup {"look"}, right \in BOOLEAN :
       LET tx == IF txn[t] = None THEN NewTxn(job.flow) ELSE txn[t]
       IN  /\ right \/ ans \in job.mistaken
           /\ IF now - tx.created > MaxAge THEN ended(t)
              ELSE /\ round' = [round EXCEPT ![t] =
                       [pc |-> IF tx.subject THEN "epoch" ELSE "name", stage |-> 0, tx |-> tx,
                        acc |-> None, ans |-> ans, right |-> right, was |-> acct]]
                   /\ UNCHANGED txn
  /\ guesses' = [guesses EXCEPT ![t] = IF txn[t] = None THEN 0 ELSE @]
  /\ UNCHANGED <<job, now, acct, result, left>>

\* A store that fails ends the round; what was written before stays written.
Fault(t) ==
  /\ round[t] # None /\ left.faults > 0
  /\ left' = [left EXCEPT !.faults = @ - 1]
  /\ Drop(t) /\ UNCHANGED <<job, now, acct, result, guesses>>

calm == UNCHANGED <<job, now, acct, result, guesses, left>>

resetSince(tx) == tx.created <= acct.epoch

epoch(t) ==
  /\ At(t, "epoch") /\ calm
  /\ IF resetSince(round[t].tx) THEN ended(t) ELSE Go(t, "name", round[t].tx)

Routed(tx) ==
  IF tx.flow = "reset" THEN "recover"
  ELSE IF tx.subject THEN "read"
  ELSE IF tx.ident = None THEN IF tx.flow = "register" THEN "registerByPasskey" ELSE "discover"
  ELSE IF tx.flow = "register" THEN "register" ELSE "first"

\* proveUpstream, the identifier the answer brings, and the way from there.
name(t) ==
  LET tx == round[t].tx
  IN  /\ At(t, "name") /\ calm
      /\ \/ /\ Answered(t, "proof")
            /\ IF tx.subject \/ tx.ident # None \/ ~tx.upstream \/ ~acct.enabled THEN Drop(t)
               ELSE Took(t, "read", [Verified(tx, "upstream") EXCEPT
                                       !.subject = TRUE, !.auth = now, !.proof = acct.epoch])
         \/ /\ round[t].ans \in {"own", "other"}
            /\ IF tx.ident = round[t].ans THEN Took(t, Routed(tx), tx)
               ELSE IF tx.ident # None \/ tx.subject THEN ended(t)
               ELSE LET named == [tx EXCEPT !.ident = round[t].ans]
                    IN  Took(t, Routed(named), named)
         \/ round[t].ans \notin {"proof", "own", "other"} /\ Go(t, Routed(tx), tx)

----------------------------------------------------------------------------
(* Verifying one factor *)

\* The account the identifier names, among accounts with an address.
Named(tx) == tx.ident = "own" /\ acct.exists /\ acct.addr

\* prove: the password step and the passkey step read the account they prove.
Proved(tx, step) ==
  [Verified(tx, step) EXCEPT
     !.subject = TRUE, !.auth = now, !.proof = IF tx.subject THEN @ ELSE acct.epoch,
     !.ident = IF @ = None /\ step = "passkey" /\ acct.addr THEN "own" ELSE @,
     !.breached = @ \/ (step = "password" /\ job.breach /\ acct.pw = 0)]

\* A right answer to a factor the account holds and can still use.
Valid(t, step) ==
  /\ round[t].right /\ acct.exists /\ step \in usable(acct)
  /\ step = "password" => Named(round[t].tx)

\* verifyPending: refused alike for a wrong answer and a disabled account, and
\* ended for a passkey of another account than the identifier names.
verifyPending(t, step, then) ==
  LET tx == round[t].tx
  IN  IF ~Valid(t, step) THEN Offer(t, tx)
      ELSE IF ~tx.subject /\ tx.ident # None /\ ~Named(tx) THEN ended(t)
      ELSE IF ~acct.enabled THEN Offer(t, tx)
      ELSE Took(t, then, Proved(tx, step))

redeemPending(t, then) ==
  IF round[t].right /\ acct.unused > 0
    THEN /\ acct' = [acct EXCEPT !.unused = @ - 1]
         /\ Took(t, then, Verified(round[t].tx, "recovery_code"))
    ELSE UNCHANGED acct /\ Offer(t, round[t].tx)

\* The offer of a factor: any of the needed ones, or a recovery code.
verifyAfterFirstFactor(t, offered, then) ==
  LET ans == round[t].ans
  IN  CASE ans \in offered \cap {"password", "passkey", "totp"} ->
             verifyPending(t, ans, then) /\ UNCHANGED acct
        [] ans = "recovery_code" /\ ans \in offered -> redeemPending(t, then)
        [] OTHER -> Offer(t, round[t].tx) /\ UNCHANGED acct

\* No identifier yet: a provider, a passkey that says whose it is, or the
\* recovery code of an account without an address (redeemBeforeFirstFactor).
discover(t) ==
  LET tx == round[t].tx
      ans == round[t].ans
  IN  /\ At(t, "discover") /\ UNCHANGED <<job, now, result, guesses, left>>
      /\ CASE ans = "upstream" ->
                Offer(t, [tx EXCEPT !.upstream = TRUE]) /\ UNCHANGED acct
           [] ans = "passkey" -> verifyPending(t, "passkey", "read") /\ UNCHANGED acct
           [] /\ ans = "recovery_code" /\ round[t].right /\ acct.unused > 0
              /\ ~acct.addr /\ acct.factors = {"passkey"} /\ acct.enabled ->
                /\ acct' = [acct EXCEPT !.unused = @ - 1]
                /\ Took(t, "read", [Verified(tx, "recovery_code") EXCEPT
                                      !.subject = TRUE, !.auth = now, !.proof = acct.epoch])
           [] OTHER -> Offer(t, tx) /\ UNCHANGED acct

\* An identifier and no account yet.  startReset turns the transaction into a
\* reset.
first(t) ==
  LET tx == round[t].tx
      ans == round[t].ans
  IN  /\ At(t, "first") /\ calm
      /\ CASE ans = "reset" /\ tx.flow = "none" ->
                Took(t, "recover", [tx EXCEPT !.flow = "reset", !.upstream = FALSE])
           [] ans \in {"password", "passkey"} -> verifyPending(t, ans, "read")
           [] OTHER -> Offer(t, tx)

----------------------------------------------------------------------------
(* Email codes *)

\* codeRound.  `refuses`: a right code the flow cannot take counts as wrong.
CodeOutcome(t, refuses) ==
  LET held == round[t].tx.code
      ans == round[t].ans
  IN  IF held = None THEN "issue"
      ELSE IF ans = "resend" THEN IF emailCodeResendDue(held) THEN "issue" ELSE "offer"
      ELSE IF ans # "code" \/ emailCodeExpired(held) THEN "offer"
      ELSE IF round[t].right /\ ~refuses THEN "taken"
      ELSE IF held.wrong + 1 >= MaxWrong THEN "burned" ELSE "wrong"

codeRound(t, refuses) ==
  LET tx == round[t].tx
      outcome == CodeOutcome(t, refuses)
  IN  /\ \/ outcome = "issue" /\ Offer(t, [tx EXCEPT !.code = heldEmailCode(tx.code)])
         \/ outcome = "offer" /\ Offer(t, tx)
         \/ outcome = "wrong" /\ Offer(t, [tx EXCEPT !.code = countWrongEmailCode(@)])
         \/ outcome = "burned" /\ ended(t)
      /\ guesses' = [guesses EXCEPT ![t] = IF outcome \in {"wrong", "burned"} THEN @ + 1 ELSE @]
      /\ UNCHANGED <<job, now, acct, result, left>>

codeTaken(tx) == [Verified(tx, "email_code") EXCEPT !.code = None]

\* The rules ask for the account's mailbox: a right code marks the address
\* verified, while the account is enabled.
verifyAddress(t) ==
  /\ Asks(t, "code")
  /\ \/ codeRound(t, FALSE)
     \/ /\ CodeOutcome(t, FALSE) = "taken"
        /\ IF acct.enabled
             THEN /\ acct' = [acct EXCEPT !.verified = TRUE]
                  /\ Took(t, "rules", codeTaken(round[t].tx))
             ELSE ended(t) /\ UNCHANGED acct
        /\ UNCHANGED <<job, now, result, guesses, left>>

----------------------------------------------------------------------------
(* Registration *)

Created(addr, factors) ==
  [acct EXCEPT !.exists = TRUE, !.enabled = TRUE, !.verified = TRUE, !.addr = addr,
               !.factors = factors]

Complete(t, kind, tx) ==
  /\ result' = [result EXCEPT ![t] = [kind |-> kind, tx |-> tx, was |-> round[t].was,
                                      acc |-> acct']]
  /\ Offer(t, None)

\* register: the mailbox first, whoever holds the address.
register(t) ==
  LET refuses == Named(round[t].tx) /\ ~acct.enabled
      tx == round[t].tx
  IN  /\ At(t, "register")
      /\ \/ ~provedMailbox(tx) /\ codeRound(t, refuses)
         \/ /\ ~provedMailbox(tx) /\ CodeOutcome(t, refuses) = "taken"
            /\ Took(t, "candidate", codeTaken(tx)) /\ calm
         \/ provedMailbox(tx) /\ Go(t, "candidate", tx) /\ calm

\* An account that holds the address by now is signed in to instead.
candidate(t) ==
  /\ At(t, "candidate") /\ calm
  /\ Go(t, IF Named(round[t].tx) THEN "first" ELSE "create", round[t].tx)

\* askNewPassword and registrations.create: the address may be taken meanwhile.
create(t) ==
  LET tx == round[t].tx
  IN  /\ At(t, "create") /\ UNCHANGED <<job, now, guesses, left>>
      /\ IF ~Answered(t, "new_password") \/ ~round[t].right
           THEN Offer(t, tx) /\ UNCHANGED <<acct, result>>
         ELSE IF acct.exists THEN ended(t) /\ UNCHANGED <<acct, result>>
         ELSE /\ acct' = Created(TRUE, {"password"})
              /\ Complete(t, "registered", [Verified(tx, "new_password") EXCEPT !.subject = TRUE])

\* The passkey one registration bound is a conflict to the next.
registerByPasskey(t) ==
  LET tx == round[t].tx
  IN  /\ At(t, "registerByPasskey") /\ UNCHANGED <<job, now, result, guesses, left>>
      /\ IF ~Answered(t, "webauthn_create") \/ ~round[t].right
           THEN Offer(t, tx) /\ UNCHANGED acct
         ELSE IF acct.exists THEN ended(t) /\ UNCHANGED acct
         ELSE /\ acct' = Created(FALSE, {"passkey"})
              /\ Took(t, "read", [Verified(tx, "webauthn_create") EXCEPT
                                    !.subject = TRUE, !.proof = acct.epoch])

----------------------------------------------------------------------------
(* Password reset *)

resettable == acct.enabled /\ acct.verified /\ "password" \in acct.factors

\* recover, as far as the mailbox: nobody's address takes a code and refuses it.
recover(t) ==
  LET tx == IF round[t].tx.ident = None THEN round[t].tx
            ELSE Verified(round[t].tx, "password_reset")
      refuses == ~Named(tx) \/ ~resettable
  IN  /\ At(t, "recover")
      /\ \/ tx.ident = None /\ Offer(t, tx) /\ calm
         \/ tx # round[t].tx /\ Go(t, "recover", tx) /\ calm
         \/ tx = round[t].tx /\ tx.ident # None /\ ~tx.subject /\ codeRound(t, refuses)
         \/ /\ ~tx.subject /\ tx.ident # None /\ CodeOutcome(t, refuses) = "taken"
            /\ Took(t, "resetRead", [codeTaken(tx) EXCEPT !.subject = TRUE, !.proof = acct.epoch])
            /\ calm
         \/ tx.subject /\ Go(t, "resetRead", tx) /\ calm

resetNeedsFactor(tx, acc) == boundBeyondPassword(acc) /\ ~metBeyondPassword(tx)

\* readResetAccount, before the factor and again after it.
resetRead(t) ==
  /\ At(t, "resetRead") /\ calm
  /\ IF ~acct.enabled THEN ended(t)
     ELSE /\ round' = [round EXCEPT ![t].acc = acct, ![t].pc =
               IF resetNeedsFactor(round[t].tx, acct) THEN "resetFactor" ELSE "resetPassword"]
          /\ UNCHANGED txn

resetFactor(t) ==
  LET tx == round[t].tx
      offered == (Candidates(tx, round[t].acc) \ {"password"}) \cup RecoveryFor(tx)
  IN  /\ At(t, "resetFactor") /\ UNCHANGED <<job, now, result, guesses, left>>
      /\ IF offered = {} THEN Drop(t) /\ UNCHANGED acct
         ELSE verifyAfterFirstFactor(t, offered, "resetRead")

\* The reset's one write: password, address, required action, session epoch.
resetPassword(t) ==
  LET tx == round[t].tx
  IN  /\ At(t, "resetPassword") /\ UNCHANGED <<job, now, guesses, left>>
      /\ IF ~Answered(t, "new_password") \/ ~round[t].right
           THEN Offer(t, tx) /\ UNCHANGED <<acct, result>>
         ELSE IF ~acct.enabled THEN ended(t) /\ UNCHANGED <<acct, result>>
         ELSE /\ acct' = [acct EXCEPT !.pw = @ + 1, !.must = FALSE, !.verified = TRUE,
                                      !.off = @ \ {"password"}, !.epoch = now]
              /\ Complete(t, "recovered", Verified(tx, "new_password"))

----------------------------------------------------------------------------
(* Rule 8 and what follows *)

\* The account is read afresh; a registration's proved mailbox is marked next.
read(t) ==
  LET tx == [round[t].tx EXCEPT !.update = @ \/ (acct.must /\ "new_password" \notin round[t].tx.verified)]
      marks == tx.flow = "register" /\ tx.ident # None /\ ~acct.verified /\ provedMailbox(tx)
  IN  /\ At(t, "read") /\ calm
      /\ IF ~acct.enabled THEN ended(t)
         ELSE /\ round' = [round EXCEPT ![t].acc = acct,
                  ![t].pc = IF marks THEN "mark" ELSE "rules",
                  ![t].tx = IF registersByPasskey(tx) THEN @ ELSE tx]
              /\ UNCHANGED txn

mark(t) ==
  /\ At(t, "mark") /\ UNCHANGED <<job, now, result, guesses, left>>
  /\ IF ~acct.enabled THEN ended(t) /\ UNCHANGED acct
     ELSE /\ acct' = [acct EXCEPT !.verified = TRUE]
          /\ round' = [round EXCEPT ![t].acc.verified = TRUE, ![t].pc = "rules"]
          /\ UNCHANGED txn

\* After a rebind, a factor or a TOTP set up: the rules go on from the account
\* as it is now.
reread(t) ==
  /\ At(t, "reread") /\ calm
  /\ IF ~acct.enabled THEN ended(t)
     ELSE round' = [round EXCEPT ![t].acc = acct, ![t].pc = "rules"] /\ UNCHANGED txn

\* A write of a rule: made while the account is enabled (and, for a TOTP, its
\* address proved), or the transaction ends.
Writes(t, claimed, changed, pc, tx) ==
  IF acct.enabled /\ claimed THEN acct' = changed /\ Took(t, pc, tx)
                  ELSE ended(t) /\ UNCHANGED acct

\* A rule that waits for one answer: anything else offers the step again.
Waits(t, step, write) ==
  IF Answered(t, step) /\ round[t].right THEN write
  ELSE Offer(t, round[t].tx) /\ UNCHANGED acct

\* rebindPasskey: the lost passkeys are disabled by the same write.
rebindPasskey(t) ==
  /\ Asks(t, "rebind") /\ UNCHANGED <<job, now, result, guesses, left>>
  /\ Waits(t, "webauthn_create",
           Writes(t, TRUE, [acct EXCEPT !.factors = @ \cup {"passkey"}, !.off = @ \ {"passkey"}],
                  "reread", Verified(round[t].tx, "webauthn_create")))

\* The loop of needed factors.
factor(t) ==
  LET r == round[t]
      need == Needed(r.tx, r.acc)
  IN  /\ Asks(t, "factor") /\ UNCHANGED <<job, now, result, guesses, left>>
      /\ verifyAfterFirstFactor(t, FactorsFor(need, r.tx, r.acc) \cup RecoveryFor(r.tx), "reread")

\* enrolTotp: a secret is drawn, its first code checked, and then bound.
setupTotp(t) ==
  LET tx == round[t].tx
  IN  /\ Asks(t, "setup") /\ calm
      /\ IF tx.setup = "none" THEN Offer(t, [tx EXCEPT !.setup = "sealed"])
         ELSE IF Answered(t, "totp_setup") /\ round[t].right
           THEN Took(t, "rules", [tx EXCEPT !.setup = "checked"])
         ELSE Offer(t, tx)

bindTotp(t) ==
  LET tx == [Verified(Verified(round[t].tx, "totp_setup"), "totp") EXCEPT
               !.auth = now, !.setup = "none"]
  IN  /\ Asks(t, "bindTotp") /\ UNCHANGED <<job, now, result, guesses, left>>
      /\ Writes(t, acct.verified, [acct EXCEPT !.factors = @ \cup {"totp"}, !.off = @ \ {"totp"}],
                "reread", tx)

\* forcedUpdate: the mailbox or the factor came before.
forcedUpdate(t) ==
  /\ Asks(t, "password") /\ UNCHANGED <<job, now, result, guesses, left>>
  /\ Waits(t, "new_password",
           Writes(t, TRUE, [acct EXCEPT !.pw = @ + 1, !.must = FALSE, !.off = @ \ {"password"}],
                  "rules", Verified(round[t].tx, "new_password")))

\* enrolPasskey: the passkey made is held until the mailbox is proved.
enrolPasskey(t) ==
  LET tx == round[t].tx
  IN  /\ Asks(t, "enrol") /\ calm
      /\ CASE Answered(t, "webauthn_create") /\ round[t].right ->
                Took(t, "rules", [tx EXCEPT !.enrol = "held"])
           [] Answered(t, "decline") -> Took(t, "rules", [tx EXCEPT !.enrol = "declined"])
           [] OTHER -> Offer(t, tx)

lapse(t) ==
  Asks(t, "lapse") /\ Took(t, "rules", [round[t].tx EXCEPT !.enrol = "declined"]) /\ calm

\* Bound, or the realm holds the credential already and another is asked for.
bindPasskey(t) ==
  LET tx == round[t].tx
  IN  /\ Asks(t, "bindPasskey") /\ UNCHANGED <<job, now, result, guesses, left>>
      /\ \/ Writes(t, TRUE, [acct EXCEPT !.factors = @ \cup {"passkey"}, !.off = @ \ {"passkey"}],
                   "rules", [tx EXCEPT !.enrol = "bound"])
         \/ /\ acct.enabled /\ "passkey" \in acct.factors
            /\ Offer(t, [tx EXCEPT !.enrol = "none"]) /\ UNCHANGED acct

\* showRecoveryCodes: the set shown is confirmed by its own id, a set replaced
\* meanwhile is not, and a set the person confirmed elsewhere stays.
showRecoveryCodes(t) ==
  LET tx == round[t].tx
  IN  /\ Asks(t, "codes") /\ UNCHANGED <<job, now, result, guesses, left>>
      /\ IF tx.shown # None /\ Answered(t, "confirm") /\ tx.shown = acct.set
           THEN /\ acct' = [acct EXCEPT !.confirmed = TRUE]
                /\ Took(t, "rules", [Verified(tx, "recovery_codes") EXCEPT !.shown = None])
         ELSE IF acct.confirmed
           THEN Took(t, "rules", [tx EXCEPT !.shown = None]) /\ UNCHANGED acct
         ELSE /\ acct.set < job.sets
              /\ acct' = [acct EXCEPT !.set = @ + 1, !.unused = 1]
              /\ Offer(t, [tx EXCEPT !.shown = acct.set + 1])

complete(t) ==
  LET tx == round[t].tx
  IN  /\ Asks(t, "complete") /\ UNCHANGED <<job, now, acct, guesses, left>>
      /\ Complete(t, IF registersByPasskey(tx) THEN "registered" ELSE "signed_in", tx)

stale(t) == Asks(t, "stale") /\ ended(t) /\ calm

stuck(t) == Asks(t, "stuck") /\ Drop(t) /\ calm

----------------------------------------------------------------------------
(* The account's other users, and the specification *)

\* An operator, an account page, the failure ladder's ceiling, a reset: once each.
Elsewhere ==
  /\ acct.exists
  /\ \E event \in left.others :
       /\ left' = [left EXCEPT !.others = @ \ {event}]
       /\ acct' = CASE event = "disable" -> [acct EXCEPT !.enabled = FALSE]
                     [] event = "require" -> [acct EXCEPT !.must = TRUE]
                     [] event = "ceiling" -> [acct EXCEPT !.off = acct.factors]
                     [] event = "reset" -> [acct EXCEPT !.epoch = now, !.pw = @ + 1]
                     [] OTHER -> [acct EXCEPT !.factors = @ \cup {event}]
  /\ UNCHANGED <<job, now, txn, round, result, guesses>>

Tick ==
  /\ now < job.until /\ now' = now + 1
  /\ UNCHANGED <<job, acct, txn, round, result, guesses, left>>

Init ==
  /\ job \in Jobs
  /\ now = 1
  /\ acct \in job.accounts
  /\ txn = [t \in Txns |-> None]
  /\ round = [t \in Txns |-> None]
  /\ result = [t \in Txns |-> None]
  /\ guesses = [t \in Txns |-> 0]
  /\ left = [others |-> job.others, faults |-> job.faults]

Step(t) ==
  \/ epoch(t) \/ name(t) \/ discover(t) \/ first(t) \/ verifyAddress(t)
  \/ register(t) \/ candidate(t) \/ create(t) \/ registerByPasskey(t)
  \/ recover(t) \/ resetRead(t) \/ resetFactor(t) \/ resetPassword(t)
  \/ read(t) \/ mark(t) \/ reread(t) \/ rebindPasskey(t) \/ factor(t)
  \/ setupTotp(t) \/ bindTotp(t) \/ forcedUpdate(t) \/ enrolPasskey(t) \/ lapse(t)
  \/ bindPasskey(t) \/ showRecoveryCodes(t) \/ complete(t) \/ stale(t) \/ stuck(t)

Next == \/ \E t \in Txns : Begin(t) \/ Step(t) \/ Fault(t)
        \/ Elsewhere \/ Tick

Spec == Init /\ [][Next]_vars

----------------------------------------------------------------------------
(* Properties *)

Steps == {"password", "passkey", "totp", "upstream", "email_code", "recovery_code", "new_password",
          "password_reset", "webauthn_create", "totp_setup", "recovery_codes"}

TxnType(tx) ==
  /\ tx.flow \in {"none", "register", "reset"}
  /\ tx.verified \subseteq Steps
  /\ tx.code = None \/ tx.code.wrong \in 0..(MaxWrong - 1)
  /\ tx.subject => tx.ident # None \/ tx.verified \cap
                     {"upstream", "passkey", "webauthn_create", "recovery_code"} # {}

\* The variables keep their types; a held email code is short of its last wrong
\* answer, and a subject without an identifier was proved by a step that needs
\* none (the check that opens `round`).
TypeOK ==
  /\ job \in Jobs /\ now \in 1..job.until /\ acct.epoch \in 0..now
  /\ acct \in Account /\ acct.off \subseteq acct.factors
  /\ \A t \in Txns : /\ txn[t] # None => TxnType(txn[t])
                     /\ round[t] # None => TxnType(round[t].tx)

Signed(t) == result[t] # None /\ result[t].kind = "signed_in"

\* Whoever signs in had a standing account, if any, when the last round began, and no
\* reset of its password fell between the proof of the first factor and that
\* round: the session epoch of `rules` ends the transaction.
StandingAtFinalRound ==
  \A t \in Txns : Signed(t) =>
    (result[t].was.exists => result[t].was.enabled) /\ result[t].was.epoch <= result[t].tx.proof

\* Whoever signs in proved what the account held when the last round began,
\* whichever factors were bound or disabled while the transaction ran: its
\* strongest factor, its TOTP, and `mfa` where the policy requires it; only a
\* recovery code beside another factor, or the passkey just enrolled, stands in.
SignInStrength ==
  \A t \in Txns : Signed(t) =>
    LET tx == result[t].tx
        was == result[t].was
    IN  /\ \/ provenFactorStrength(tx) >= strongestBoundFactor(was)
           \/ tookRecoveryCode(tx) /\ ~codeAlone(tx)
           \/ tx.enrol = "bound"
        /\ holdsTotp(was) => "totp" \in tx.verified \/ provesMfa(tx) \/ tookRecoveryCode(tx)
        /\ job.mfa => provesMfa(tx)

\* A password the breach list knows is replaced before anyone signs in with the
\* account, and so is one an operator told to replace before the last round
\* began, unless it was replaced elsewhere since.
ForcedUpdateKept ==
  \A t \in Txns : Signed(t) =>
    LET tx == result[t].tx
        was == result[t].was
    IN  tx.breached \/ (was.must /\ result[t].acc.pw = was.pw /\ "password" \in was.factors)
          => "new_password" \in tx.verified

\* A passkey or TOTP enrolled at a sign-in leaves a confirmed set of recovery
\* codes behind, and so does a registration by passkey, though two transactions
\* replace each other's sets.
EnrolledHasCodes ==
  \A t \in Txns :
    LET tx == result[t].tx
    IN  /\ result[t] # None /\ ~tookRecoveryCode(tx)
        /\ tx.enrol = "bound" \/ enrolledTotp(tx) \/ registersByPasskey(tx)
        => result[t].acc.confirmed

\* A transaction takes at most the allowed number of wrong email codes before it
\* ends, however often a new code is sent and for whatever purpose.
CodeGuessesBounded == \A t \in Txns : guesses[t] <= MaxWrong

\* Whoever resets a password proved a factor beyond it, or a recovery code, if
\* the account held one when the last round began.
ResetProved ==
  \A t \in Txns : result[t] # None /\ result[t].kind = "recovered" =>
    /\ result[t].was.enabled
    /\ boundBeyondPassword(result[t].was) => metBeyondPassword(result[t].tx)

\* The engine's own assertions hold: no forced update before the factor beyond
\* the password, and no completion without a factor.
NoEngineFault == \A t \in Txns : ~Asks(t, "fault")

\* No transaction that proved only the password changes a credential of an
\* account: it proved the mailbox, another factor, a recovery code or a provider.
CredentialChangeProved ==
  [][\A t \in Txns :
       /\ acct.exists /\ round[t] # None /\ round'[t] # round[t]
       /\ <<acct.factors, acct.pw>>' # <<acct.factors, acct.pw>>
       => round[t].tx.verified \cap
            {"email_code", "passkey", "totp", "recovery_code", "upstream"} # {}]_vars

\* A ceremony that completes, as a sign-in or as a reset, proved what the
\* account asked for when its last round began, and no assertion of the engine
\* fails on the way (`round`, `recover`).
CompletionProved ==
  TypeOK /\ StandingAtFinalRound /\ SignInStrength /\ ResetProved /\ NoEngineFault
====
