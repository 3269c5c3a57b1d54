------------------------ MODULE SignInEngine_proofs ------------------------
(***************************************************************************)
(* Whoever signs in proved what the account held when the last round       *)
(* began, for any set of browsers, any workload and any number of events   *)
(* elsewhere.  The invariant says what a transaction has proved of the     *)
(* account as it is now, and what the rules a round has passed leave known *)
(* of the account as it was read; the account only grows meanwhile.  What  *)
(* is said of one transaction or one round takes the account as an         *)
(* argument, so that one lemma can speak of it before and after a step.    *)
(***************************************************************************)
EXTENDS SignInEngine, TLAPS

FirstSteps == {"password", "passkey", "totp", "upstream"}
BeyondSteps == {"email_code", "passkey", "totp", "recovery_code", "upstream"}

Transaction ==
  [flow : {"none", "register", "reset"}, created : Nat, ident : {None, "own", "other"},
   subject : BOOLEAN, verified : SUBSET Steps, auth : Nat \cup {None},
   code : CodeType \cup {None}, breached : BOOLEAN, update : BOOLEAN,
   enrol : {"none", "held", "declined", "bound"}, setup : {"none", "sealed", "checked"},
   shown : Nat \cup {None}, upstream : BOOLEAN, proof : Nat]

Places == {"epoch", "name", "discover", "first", "register", "candidate", "create",
           "registerByPasskey", "recover", "resetRead", "resetFactor", "resetPassword",
           "read", "mark", "reread", "rules"}

\* What happens to an account: it is not removed or enabled again, no factor is
\* unbound, a required update goes only with the password it is about.
Grows(a, b) ==
  /\ a.exists => b.exists
  /\ a.exists /\ b.enabled => a.enabled
  /\ a.factors \subseteq b.factors
  /\ a.epoch <= b.epoch
  /\ a.pw <= b.pw
  /\ a.must /\ b.pw = a.pw => b.must
  /\ a.confirmed => b.confirmed

AccountOK(a, n) == /\ a \in Account /\ a.off \subseteq a.factors /\ a.epoch <= n
                   /\ ~a.exists => ~a.enabled /\ a.factors = {}

FirstProved(tx) == tx.verified \cap FirstSteps # {}
Beyond(tx) == tx.verified \cap BeyondSteps # {}

\* The count of wrong codes: the held code carries it, from one code to the next.
Counted(tx, g) ==
  /\ tx.code # None => tx.code.wrong = g /\ g < MaxWrong
  /\ tx.code = None /\ ~provedMailbox(tx) => g = 0

\* A transaction without a subject has proved nothing of an account, and only a
\* sign-in goes to a provider.
Unproved(tx) ==
  /\ ~tx.subject => /\ tx.verified \subseteq {"email_code", "password_reset"}
                    /\ tx.flow # "register" => ~provedMailbox(tx)
                    /\ tx.enrol = "none" /\ ~tx.breached
  /\ tx.upstream => tx.flow = "none"

\* A subject was proved: by a step that needs no identifier or with one, by a
\* first factor or the code of a lost passkey, and by the mailbox in a reset.
Subject(tx, a) ==
  tx.subject =>
    /\ a.exists
    /\ tx.ident # None \/ tx.verified \cap
         {"upstream", "passkey", "webauthn_create", "recovery_code"} # {}
    /\ tx.flow # "reset" /\ ~registersByPasskey(tx) =>
         FirstProved(tx) \/ (tookRecoveryCode(tx) /\ "passkey" \in a.factors)
    /\ tx.flow = "reset" => provedMailbox(tx)

\* The epoch the first factor was proved under is the account's, or an earlier
\* one than the transaction: then the next round ends it.
Epochs(tx, a) ==
  tx.subject => tx.proof <= a.epoch /\ (tx.proof < a.epoch => tx.created <= a.epoch)

\* What was proved is on the account.
OnAccount(tx, a) ==
  /\ tx.breached \/ "password" \in tx.verified => "password" \in a.factors
  /\ enrolledTotp(tx) => "totp" \in tx.verified /\ "totp" \in a.factors

\* Enrolments come after a first factor, and bind after one beyond the password.
Enrolments(tx) ==
  /\ tx.enrol # "none" => FirstProved(tx)
  /\ tx.enrol = "bound" => Beyond(tx)
  /\ tx.flow = "reset" => tx.enrol = "none" /\ ~enrolledTotp(tx)

TxnOK(tx, a, n, g) ==
  /\ tx \in Transaction /\ tx.created <= n /\ Counted(tx, g)
  /\ Unproved(tx) /\ Subject(tx, a) /\ Epochs(tx, a) /\ OnAccount(tx, a) /\ Enrolments(tx)

\* SignInStrength, of one transaction and the account it was asked about.
LoopMet(tx, was, mfa) ==
  /\ \/ provenFactorStrength(tx) >= strongestBoundFactor(was)
     \/ tookRecoveryCode(tx) /\ ~codeAlone(tx)
     \/ tx.enrol = "bound"
  /\ holdsTotp(was) => "totp" \in tx.verified \/ provesMfa(tx) \/ tookRecoveryCode(tx)
  /\ mfa => provesMfa(tx)

UpdateMet(tx, was) ==
  "new_password" \in tx.verified \/ (~tx.breached /\ (tx.update => "password" \notin was.factors))

\* A forced update finds the factor beyond the password proved.
UpdateSafe(tx, acc) ==
  updateDue(tx, acc) /\ boundBeyondPassword(acc) => metBeyondPassword(tx)

\* What the rules before the k-th have established.
Passed(tx, acc, was, mfa, k) ==
  ~registersByPasskey(tx) =>
    /\ k > loopStage => /\ LoopMet(tx, was, mfa) /\ FirstProved(tx)
                        /\ Beyond(tx) \/ acc.factors \subseteq {"password"}
    /\ k \in {addressStage, updateStage} => UpdateSafe(tx, acc)
    /\ k > updateStage => UpdateMet(tx, was)

\* The account as the round read it.
ReadAccount(r) ==
  /\ r.acc \in Account /\ r.was.factors \subseteq r.acc.factors
  /\ Subject(r.tx, r.acc) /\ OnAccount(r.tx, r.acc)

\* A required update is remembered, whatever happens to it elsewhere.
Remembered(r, a) ==
  ~registersByPasskey(r.tx) /\ r.was.must /\ a.pw = r.was.pw =>
    r.tx.update \/ "new_password" \in r.tx.verified

AfterRead(r, a) ==
  /\ r.tx.subject /\ r.tx.flow # "reset" /\ (r.was.exists => r.was.enabled)
  /\ Remembered(r, a)

NoSubject(r) == ~r.tx.subject /\ r.tx.flow # "reset"
Registers(r) == NoSubject(r) /\ r.tx.flow = "register" /\ r.tx.ident # None
InReset(r) == /\ r.tx.flow = "reset" /\ r.tx.subject
              /\ r.ans = "new_password" => r.was.exists

AtPlace(r, a, mfa) ==
  /\ r.pc = "epoch" => r.tx.subject /\ r.was.exists
  /\ r.pc = "name" => (r.tx.subject => r.was.exists)
  /\ r.pc = "discover" => NoSubject(r) /\ r.tx.ident = None /\ r.tx.flow # "register"
  /\ r.pc = "first" => NoSubject(r) /\ r.tx.ident # None
  /\ r.pc = "register" => Registers(r)
  /\ r.pc \in {"candidate", "create"} => Registers(r) /\ provedMailbox(r.tx)
  /\ r.pc = "registerByPasskey" => NoSubject(r) /\ registersByPasskey(r.tx)
  /\ r.pc = "recover" => r.tx.flow = "reset" /\ (r.tx.subject => r.was.exists)
  /\ r.pc \in {"resetRead", "resetFactor"} => InReset(r)
  /\ r.pc = "resetPassword" =>
       /\ InReset(r) /\ (r.was.exists => r.was.enabled)
       /\ boundBeyondPassword(r.was) => metBeyondPassword(r.tx)
  /\ r.pc = "read" => r.tx.subject /\ r.tx.flow # "reset"
  /\ r.pc = "mark" => AfterRead(r, a) /\ ReadAccount(r)
  /\ r.pc = "reread" =>
       /\ AfterRead(r, a) /\ ~registersByPasskey(r.tx)
       /\ r.stage \in {rebindStage, loopStage} \/ (r.stage = totpStage /\ enrolledTotp(r.tx))
       /\ Passed(r.tx, r.was, r.was, mfa, r.stage)
  /\ r.pc = "rules" =>
       AfterRead(r, a) /\ ReadAccount(r) /\ Passed(r.tx, r.acc, r.was, mfa, r.stage)

RoundShape(r) ==
  /\ r = [pc |-> r.pc, stage |-> r.stage, tx |-> r.tx, acc |-> r.acc, ans |-> r.ans,
          right |-> r.right, was |-> r.was]
  /\ r.pc \in Places /\ r.stage \in rebindStage..codesStage
  /\ r.pc \notin {"rules", "reread"} => r.stage = rebindStage

RoundOK(r, a, n, g, mfa) ==
  /\ RoundShape(r)
  /\ TxnOK(r.tx, a, n, g)
  /\ r.was \in Account /\ (~r.was.exists => r.was.factors = {}) /\ Grows(r.was, a)
  /\ r.pc # "epoch" /\ r.tx.subject => r.was.epoch <= r.tx.proof
  /\ AtPlace(r, a, mfa)

\* A result keeps what it was given with.
ResultOK(r, mfa) ==
  /\ r.kind = "signed_in" =>
       /\ r.was.exists => r.was.enabled
       /\ r.was.epoch <= r.tx.proof
       /\ LoopMet(r.tx, r.was, mfa)
       /\ r.tx.breached \/ (r.was.must /\ r.acc.pw = r.was.pw /\ "password" \in r.was.factors)
            => "new_password" \in r.tx.verified
  /\ r.kind = "recovered" =>
       r.was.enabled /\ (boundBeyondPassword(r.was) => metBeyondPassword(r.tx))
  /\ /\ ~tookRecoveryCode(r.tx)
     /\ r.tx.enrol = "bound" \/ enrolledTotp(r.tx) \/ registersByPasskey(r.tx)
     => r.acc.confirmed

\* What is kept for each browser.
BrowserOK(x, r, g, res, a, n, mfa) ==
  /\ g \in 0..MaxWrong
  /\ x # None => TxnOK(x, a, n, g)
  /\ r # None => RoundOK(r, a, n, g, mfa)
  /\ res # None => ResultOK(res, mfa)

\* The inductive invariant, in parts.
Setting == job \in Jobs /\ now \in 1..job.until /\ left.others \subseteq job.others
Functions == /\ txn = [t \in Txns |-> txn[t]] /\ round = [t \in Txns |-> round[t]]
             /\ result = [t \in Txns |-> result[t]] /\ guesses = [t \in Txns |-> guesses[t]]
Standing == AccountOK(acct, now)
EachBrowser == \A t \in Txns :
              BrowserOK(txn[t], round[t], guesses[t], result[t], acct, now, job.mfa)

IInv == Setting /\ Functions /\ Standing /\ EachBrowser

----------------------------------------------------------------------------
(* Strengths *)

\* What Greatest returns of a set of strengths.
LEMMA GreatestOf ==
  ASSUME NEW S, S \subseteq {0, 1, 2}
  PROVE  /\ Greatest(S) \in {0, 1, 2}
         /\ \A x \in S : x <= Greatest(S)
         /\ Greatest(S) = 0 \/ Greatest(S) \in S
<1>1. CASE S = {}
  BY <1>1 DEF Greatest
<1>2. CASE S # {}
  <2>1. \E x \in S : \A y \in S : y <= x
    <3>1. CASE 2 \in S
      BY <3>1
    <3>2. CASE 2 \notin S /\ 1 \in S
      BY <3>2
    <3>3. CASE 2 \notin S /\ 1 \notin S
      <4>1. S = {0}
        BY <3>3, <1>2
      <4>2. QED
        BY <4>1
    <3>4. QED
      BY <3>1, <3>2, <3>3
  <2>2. /\ Greatest(S) \in S
        /\ \A y \in S : y <= Greatest(S)
    BY <2>1, <1>2, Zenon DEF Greatest
  <2>3. QED
    BY <2>2
<1>3. QED
  BY <1>1, <1>2

\* The strength each factor gives.
LEMMA Strengths ==
  /\ factorStrength["password"] = 1 /\ factorStrength["passkey"] = 2
  /\ factorStrength["totp"] = 0 /\ factorStrength["upstream"] = 1
  /\ DOMAIN factorStrength = FirstSteps
  BY DEF factorStrength, FirstSteps

\* The strongest factor an account holds: a passkey, or else its password.
LEMMA StrongestIs ==
  ASSUME NEW acc, acc.factors \subseteq Factors
  PROVE  /\ strongestBoundFactor(acc) \in {0, 1, 2}
         /\ "passkey" \in acc.factors <=> strongestBoundFactor(acc) = 2
         /\ "password" \in acc.factors => strongestBoundFactor(acc) >= 1
         /\ strongestBoundFactor(acc) = 1 => "password" \in acc.factors
<1> DEFINE S == {factorStrength[f] : f \in acc.factors}
<1>1. S \subseteq {0, 1, 2}
  BY Strengths DEF Factors
<1>2. strongestBoundFactor(acc) = Greatest(S)
  BY DEF strongestBoundFactor
<1>3. "passkey" \in acc.factors => 2 \in S
  BY Strengths
<1>4. "password" \in acc.factors => 1 \in S
  BY Strengths
<1>5. 2 \in S => "passkey" \in acc.factors
  BY Strengths DEF Factors
<1>6. 1 \in S => "password" \in acc.factors
  BY Strengths DEF Factors
<1> HIDE DEF S
<1>7. /\ Greatest(S) \in {0, 1, 2}
      /\ \A x \in S : x <= Greatest(S)
      /\ Greatest(S) = 0 \/ Greatest(S) \in S
  BY <1>1, GreatestOf
<1>8. QED
  BY <1>2, <1>3, <1>4, <1>5, <1>6, <1>7

\* The strongest factor a transaction proved.
LEMMA ProvenIs ==
  ASSUME NEW tx
  PROVE  /\ provenFactorStrength(tx) \in {0, 1, 2}
         /\ "passkey" \in tx.verified <=> provenFactorStrength(tx) = 2
         /\ "password" \in tx.verified => provenFactorStrength(tx) >= 1
         /\ "upstream" \in tx.verified => provenFactorStrength(tx) >= 1
         /\ provenFactorStrength(tx) = 1 => "password" \in tx.verified \/ "upstream" \in tx.verified
<1> DEFINE V == tx.verified \cap DOMAIN factorStrength
           S == {factorStrength[f] : f \in V}
<1>1. V = tx.verified \cap FirstSteps
  BY Strengths
<1>2. S \subseteq {0, 1, 2}
  BY <1>1, Strengths DEF FirstSteps
<1>3. provenFactorStrength(tx) = Greatest(S)
  BY DEF provenFactorStrength
<1>4. "passkey" \in tx.verified => 2 \in S
  BY <1>1, Strengths DEF FirstSteps
<1>5. "password" \in tx.verified \/ "upstream" \in tx.verified => 1 \in S
  BY <1>1, Strengths DEF FirstSteps
<1>6. 2 \in S => "passkey" \in tx.verified
  BY <1>1, Strengths DEF FirstSteps
<1>7. 1 \in S => "password" \in tx.verified \/ "upstream" \in tx.verified
  BY <1>1, Strengths DEF FirstSteps
<1> HIDE DEF S
<1>8. /\ Greatest(S) \in {0, 1, 2}
      /\ \A x \in S : x <= Greatest(S)
      /\ Greatest(S) = 0 \/ Greatest(S) \in S
  BY <1>2, GreatestOf
<1>9. QED
  BY <1>3, <1>4, <1>5, <1>6, <1>7, <1>8

----------------------------------------------------------------------------
(* An account grows, and what was said of it stays true *)

\* Nothing happens: the account has grown.
LEMMA GrowsSelf ==
  ASSUME NEW a \in Account
  PROVE  Grows(a, a)
  BY DEF Grows, Account

\* An account that has grown twice has grown.
LEMMA GrowsOn ==
  ASSUME NEW a \in Account, NEW b \in Account, NEW c \in Account, Grows(a, b), Grows(b, c)
  PROVE  Grows(a, c)
  BY DEF Grows, Account

\* What a step may do to the account: it grows, and a reset stamps it with the time.
Moves(a, b, n) == Grows(a, b) /\ (b.epoch = a.epoch \/ n <= b.epoch)

\* What was said of a transaction stays true when the account grows.
LEMMA TxnOKGrows ==
  ASSUME NEW a \in Account, NEW b \in Account, NEW n \in Nat, NEW m \in Nat, n <= m,
         Moves(a, b, n), NEW tx, NEW g, TxnOK(tx, a, n, g)
  PROVE  TxnOK(tx, b, m, g)
<1>1. tx \in Transaction /\ tx.created <= n /\ tx.created \in Nat /\ tx.proof \in Nat
  BY DEF TxnOK, Transaction
<1>2. Subject(tx, b)
  BY DEF TxnOK, Subject, Moves, Grows
<1>3. Epochs(tx, b)
  BY <1>1 DEF TxnOK, Epochs, Moves, Grows, Account
<1>4. OnAccount(tx, b)
  BY DEF TxnOK, OnAccount, Moves, Grows
<1>5. QED
  BY <1>1, <1>2, <1>3, <1>4 DEF TxnOK

\* What was said of a round stays true when the account grows.
LEMMA RoundOKGrows ==
  ASSUME NEW a \in Account, NEW b \in Account, NEW n \in Nat, NEW m \in Nat, n <= m,
         Moves(a, b, n), NEW r, NEW g, NEW mfa, RoundOK(r, a, n, g, mfa)
  PROVE  RoundOK(r, b, m, g, mfa)
<1>1. TxnOK(r.tx, b, m, g)
  BY TxnOKGrows DEF RoundOK
<1>2. Grows(r.was, b)
  BY GrowsOn DEF RoundOK, Moves
<1>3. Remembered(r, a) => Remembered(r, b)
  <2>1. Grows(r.was, a) /\ Grows(a, b) /\ r.was \in Account
    BY DEF RoundOK, Moves
  <2>2. b.pw = r.was.pw => a.pw = r.was.pw
    BY <2>1 DEF Grows, Account
  <2>3. QED
    BY <2>2 DEF Remembered
<1>4. AfterRead(r, a) => AfterRead(r, b)
  BY <1>3 DEF AfterRead
<1>5. AtPlace(r, b, mfa)
  BY <1>4 DEF RoundOK, AtPlace
<1>6. QED
  BY <1>1, <1>2, <1>5 DEF RoundOK

----------------------------------------------------------------------------
(* One browser's step *)

\* What a step may do to the account, and what it leaves true of it.
AccountStep == Moves(acct, acct', now) /\ AccountOK(acct', now)

\* Browser t's part of the state changes, and nothing of the others'.
Turn(t, x, r, g, res) ==
  /\ job' = job /\ now' = now /\ left'.others \subseteq left.others
  /\ txn' = [txn EXCEPT ![t] = x] /\ round' = [round EXCEPT ![t] = r]
  /\ guesses' = [guesses EXCEPT ![t] = g] /\ result' = [result EXCEPT ![t] = res]

\* The types a step finds.
LEMMA Types ==
  ASSUME IInv
  PROVE  /\ now \in Nat /\ job \in Jobs /\ acct \in Account /\ AccountOK(acct, now)
         /\ job.mfa \in BOOLEAN /\ job.breach \in BOOLEAN
         /\ job.flow \in {"none", "register", "reset"} /\ job.browsers \subseteq Txns
         /\ left.others \subseteq {"disable", "require", "ceiling", "reset"} \cup Factors
         /\ MaxWrong \in Nat \ {0} /\ CodeTtl \in Nat /\ None \notin Txns /\ None \notin CodeType
         /\ None # "own" /\ None # "other"
  BY SignInAssumption DEF IInv, Setting, Standing, AccountOK

\* An account that a step leaves alone has taken a step.
LEMMA AccountStays ==
  ASSUME IInv, UNCHANGED acct
  PROVE  AccountStep
<1>1. Grows(acct, acct)
  BY Types, GrowsSelf
<1>2. QED
  BY <1>1, Types DEF AccountStep, Moves

\* What holds of one browser.
LEMMA OfBrowser ==
  ASSUME IInv, NEW t \in Txns
  PROVE  BrowserOK(txn[t], round[t], guesses[t], result[t], acct, now, job.mfa)
  BY DEF IInv, EachBrowser

\* What holds of the round under way and of its transaction.
LEMMA OfRound ==
  ASSUME IInv, NEW t \in Txns, round[t] # None
  PROVE  /\ RoundOK(round[t], acct, now, guesses[t], job.mfa) /\ RoundShape(round[t])
         /\ TxnOK(round[t].tx, acct, now, guesses[t])
         /\ round[t].tx \in Transaction /\ round[t].was \in Account
         /\ guesses[t] \in 0..MaxWrong
  BY OfBrowser DEF BrowserOK, RoundOK, TxnOK

\* A step of one browser keeps the invariant when it leaves that browser's part
\* of it true of the account as it is then.
LEMMA BrowserStep ==
  ASSUME IInv, NEW t \in Txns, AccountStep, NEW x, NEW r, NEW g, NEW res,
         Turn(t, x, r, g, res), BrowserOK(x, r, g, res, acct', now, job.mfa)
  PROVE  IInv'
<1>1. /\ job' = job /\ now' = now /\ left'.others \subseteq left.others
      /\ txn' = [txn EXCEPT ![t] = x] /\ round' = [round EXCEPT ![t] = r]
      /\ guesses' = [guesses EXCEPT ![t] = g] /\ result' = [result EXCEPT ![t] = res]
  BY DEF Turn
<1>2. Setting'
  BY <1>1 DEF IInv, Setting
<1>3. Functions'
  BY <1>1 DEF IInv, Functions
<1>4. Standing'
  BY <1>1 DEF AccountStep, Standing
<1>5. ASSUME NEW u \in Txns
      PROVE  BrowserOK(txn'[u], round'[u], guesses'[u], result'[u], acct', now, job.mfa)
  <2>1. CASE u = t
    <3>1. txn'[u] = x /\ round'[u] = r /\ guesses'[u] = g /\ result'[u] = res
      BY <1>1, <2>1 DEF IInv, Functions
    <3>2. QED
      BY <3>1
  <2>2. CASE u # t
    <3>1. /\ txn'[u] = txn[u] /\ round'[u] = round[u]
          /\ guesses'[u] = guesses[u] /\ result'[u] = result[u]
      BY <1>1, <2>2 DEF IInv, Functions
    <3>2. BrowserOK(txn[u], round[u], guesses[u], result[u], acct, now, job.mfa)
      BY OfBrowser
    <3>3. acct \in Account /\ acct' \in Account /\ now \in Nat /\ now <= now
      BY Types DEF AccountStep, AccountOK
    <3>4. txn[u] # None => TxnOK(txn[u], acct', now, guesses[u])
      BY <3>2, <3>3, TxnOKGrows DEF BrowserOK, AccountStep
    <3>5. round[u] # None => RoundOK(round[u], acct', now, guesses[u], job.mfa)
      BY <3>2, <3>3, RoundOKGrows DEF BrowserOK, AccountStep
    <3>6. QED
      BY <3>1, <3>2, <3>4, <3>5 DEF BrowserOK
  <2>3. QED
    BY <2>1, <2>2
<1>6. EachBrowser'
  BY <1>1, <1>5 DEF EachBrowser
<1>7. QED
  BY <1>2, <1>3, <1>4, <1>6 DEF IInv

\* The round goes on.
LEMMA GoesOn ==
  ASSUME IInv, NEW t \in Txns, UNCHANGED <<job, now, result, guesses, left>>, AccountStep,
         NEW r, UNCHANGED txn, round' = [round EXCEPT ![t] = r],
         RoundOK(r, acct', now, guesses[t], job.mfa)
  PROVE  IInv'
<1>1. BrowserOK(txn[t], round[t], guesses[t], result[t], acct, now, job.mfa)
  BY OfBrowser
<1>2. acct \in Account /\ acct' \in Account /\ now \in Nat /\ now <= now
  BY Types DEF AccountStep, AccountOK
<1>3. txn[t] # None => TxnOK(txn[t], acct', now, guesses[t])
  BY <1>1, <1>2, TxnOKGrows DEF BrowserOK, AccountStep
<1>4. BrowserOK(txn[t], r, guesses[t], result[t], acct', now, job.mfa)
  BY <1>1, <1>3 DEF BrowserOK
<1>5. Turn(t, txn[t], r, guesses[t], result[t])
  BY DEF IInv, Functions, Turn
<1>6. QED
  BY <1>4, <1>5, BrowserStep

\* The round ends with a transaction stored, or with none.
LEMMA Stores ==
  ASSUME IInv, NEW t \in Txns, UNCHANGED <<job, now, result, guesses, left>>, AccountStep,
         NEW x, Offer(t, x), x # None => TxnOK(x, acct', now, guesses[t])
  PROVE  IInv'
<1>1. BrowserOK(txn[t], round[t], guesses[t], result[t], acct, now, job.mfa)
  BY OfBrowser
<1>2. BrowserOK(x, None, guesses[t], result[t], acct', now, job.mfa)
  BY <1>1 DEF BrowserOK
<1>3. Turn(t, x, None, guesses[t], result[t])
  BY DEF IInv, Functions, Turn, Offer
<1>4. QED
  BY <1>2, <1>3, BrowserStep

\* The round ends with its transaction as it was.
LEMMA StoresSame ==
  ASSUME IInv, NEW t \in Txns, round[t] # None, UNCHANGED <<job, now, acct, result, guesses, left>>,
         Offer(t, round[t].tx)
  PROVE  IInv'
  BY AccountStays, OfRound, Stores

\* The round ends the transaction.
LEMMA Ends ==
  ASSUME IInv, NEW t \in Txns, UNCHANGED <<job, now, acct, result, guesses, left>>, ended(t)
  PROVE  IInv'
  BY AccountStays, Stores DEF ended

\* The round leaves the stored transaction.
LEMMA Drops ==
  ASSUME IInv, NEW t \in Txns, UNCHANGED <<job, now, acct, result, guesses>>,
         left'.others \subseteq left.others, Drop(t)
  PROVE  IInv'
<1>1. BrowserOK(txn[t], round[t], guesses[t], result[t], acct, now, job.mfa)
  BY OfBrowser
<1>2. BrowserOK(txn[t], None, guesses[t], result[t], acct', now, job.mfa)
  BY <1>1 DEF BrowserOK
<1>3. Turn(t, txn[t], None, guesses[t], result[t])
  BY DEF IInv, Functions, Drop, Turn
<1>4. QED
  BY <1>2, <1>3, BrowserStep, AccountStays

----------------------------------------------------------------------------
(* What the rules ask, and what is known once they were passed *)

USE DEF rebindStage, loopStage, addressStage, updateStage, totpStage, passkeyStage, codesStage,
        completeStage

\* Where the answer of enrolTotpAsk comes from.
LEMMA TotpAsks ==
  ASSUME NEW tx, NEW acc
  PROVE  /\ enrolTotpAsk(tx, acc) \in {"stuck", "stale", "code", "setup", "bindTotp"}
         /\ enrolTotpAsk(tx, acc) = "code" => ~provedMailbox(tx)
         /\ enrolTotpAsk(tx, acc) = "bindTotp" => boundBeyondPassword(acc) \/ provedMailbox(tx)
         /\ enrolTotpAsk(tx, acc) = "setup" => tx.setup # "checked"
  BY DEF enrolTotpAsk, verifyAddressAsk, addressPending

\* What the loop of needed factors asks for.
LEMMA LoopAsks ==
  ASSUME NEW tx, NEW acc
  PROVE  LET ask == RuleAt(loopStage, tx, acc)
         IN  /\ ask = "none" <=> Needed(tx, acc) = "none"
             /\ ask \in {"none", "stuck", "stale", "code", "factor", "setup", "bindTotp"}
             /\ ask = "code" => ~provedMailbox(tx)
             /\ ask = "bindTotp" => Needed(tx, acc) = "setup"
             /\ ask = "bindTotp" => boundBeyondPassword(acc) \/ provedMailbox(tx)
<1> DEFINE need == Needed(tx, acc)
           ask == RuleAt(loopStage, tx, acc)
<1>1. ask = IF need = "none" THEN "none"
            ELSE IF need = "setup" THEN enrolTotpAsk(tx, acc) ELSE FactorAsk(need, tx, acc)
  BY DEF RuleAt
<1>2. /\ FactorAsk(need, tx, acc) \in {"stuck", "code", "factor"}
      /\ FactorAsk(need, tx, acc) = "code" => ~provedMailbox(tx)
  BY DEF FactorAsk, verifyAddressAsk, addressPending
<1> HIDE DEF need, ask
<1>3. QED
  BY <1>1, <1>2, TotpAsks DEF need, ask

\* Which rule asks for what, of a transaction that does not register by passkey.
LEMMA RuleAsks ==
  ASSUME NEW tx, NEW acc, NEW k \in rebindStage..completeStage, NEW ask, ask = RuleAt(k, tx, acc)
  PROVE  /\ ask = "rebind" => k = rebindStage /\ codeAlone(tx) /\ tx.flow # "register"
         /\ ask = "factor" => k = loopStage
         /\ ask \in {"setup", "bindTotp"} => k \in {loopStage, totpStage}
         /\ ask = "bindTotp" => boundBeyondPassword(acc) \/ provedMailbox(tx)
         /\ ask = "code" => k \in loopStage..passkeyStage /\ ~provedMailbox(tx)
         /\ ask = "password" => /\ k = updateStage
                                /\ boundBeyondPassword(acc) => metBeyondPassword(tx)
                                /\ provedMailbox(tx) \/ boundBeyondPassword(acc)
         /\ ask \in {"enrol", "lapse", "bindPasskey"} => k = passkeyStage
         /\ ask = "enrol" => tx.enrol = "none"
         /\ ask \in {"lapse", "bindPasskey"} => tx.enrol \notin {"none", "bound", "declined"}
         /\ ask = "bindPasskey" => provedMailbox(tx) \/ ~passwordOnly(acc)
         /\ ask = "codes" => k = codesStage
         /\ ask = "complete" => k = completeStage
         /\ ask = "fault" =>
              \/ /\ k = updateStage /\ updateDue(tx, acc)
                 /\ boundBeyondPassword(acc) /\ ~metBeyondPassword(tx)
              \/ k = completeStage /\ ~hasAmr(tx) /\ "upstream" \notin tx.verified
<1>0. CASE k = rebindStage
  BY <1>0 DEF RuleAt
<1>1. CASE k = loopStage
  BY <1>1, LoopAsks
<1>2. CASE k = addressStage
  BY <1>2 DEF RuleAt, verifyAddressAsk, addressPending
<1>3. CASE k = updateStage
  BY <1>3 DEF RuleAt, forcedUpdateAsk
<1>4. CASE k = totpStage
  BY <1>4, TotpAsks DEF RuleAt
<1>5. CASE k = passkeyStage
  BY <1>5 DEF RuleAt, enrolPasskeyAsk, verifyAddressAsk
<1>6. CASE k = codesStage
  BY <1>6 DEF RuleAt, showRecoveryCodesAsk
<1>7. CASE k = completeStage
  BY <1>7 DEF RuleAt
<1>8. QED
  BY <1>0, <1>1, <1>2, <1>3, <1>4, <1>5, <1>6, <1>7

\* A registration by passkey is asked for its codes and completes.
LEMMA PasskeyAsks ==
  ASSUME NEW tx, NEW acc, NEW k \in rebindStage..completeStage, registersByPasskey(tx)
  PROVE  /\ AskAt(k, tx, acc) \in {"none", "codes", "complete"}
         /\ AskAt(k, tx, acc) = "codes" => k = codesStage
         /\ AskAt(k, tx, acc) = "complete" => k = completeStage
  BY DEF AskAt, showRecoveryCodesAsk

\* Any other transaction is asked by the rules.
LEMMA OthersAsk ==
  ASSUME NEW tx, NEW acc, NEW k, ~registersByPasskey(tx)
  PROVE  AskAt(k, tx, acc) = RuleAt(k, tx, acc)
  BY DEF AskAt

\* The rule that asks is one.
LEMMA StageIs ==
  ASSUME NEW r, r.stage \in rebindStage..codesStage, NEW k \in r.stage..completeStage,
         AskAt(k, r.tx, r.acc) # "none", Reaches(r, k)
  PROVE  Stage(r) = k
<1> DEFINE P(j) == AskAt(j, r.tx, r.acc) # "none" /\ Reaches(r, j)
<1>1. ASSUME NEW j \in r.stage..completeStage, P(j)
      PROVE  j = k
  <2>1. ~(j < k)
    BY <1>1 DEF Reaches
  <2>2. ~(k < j)
    BY <1>1 DEF Reaches
  <2>3. QED
    BY <2>1, <2>2
<1>2. Stage(r) = CHOOSE j \in r.stage..completeStage : P(j)
  BY DEF Stage
<1>3. P(k)
  OBVIOUS
<1> HIDE DEF P
<1>4. QED
  BY <1>1, <1>2, <1>3

\* A loop with nothing to ask found everything proved.
LEMMA LoopNone ==
  ASSUME NEW tx, NEW acc, tx \in Transaction, acc \in Account, Needed(tx, acc) = "none"
  PROVE  LoopMet(tx, acc, job.mfa) /\ UpdateSafe(tx, acc)
<1>1. /\ provenFactorStrength(tx) \in {0, 1, 2} /\ strongestBoundFactor(acc) \in {0, 1, 2}
  BY ProvenIs, StrongestIs DEF Account
<1>2. /\ ~(/\ provenFactorStrength(tx) < strongestBoundFactor(acc)
           /\ ~tookRecoveryCode(tx) \/ codeAlone(tx)
           /\ tx.enrol # "bound")
      /\ holdsTotp(acc) => "totp" \in tx.verified \/ provesMfa(tx) \/ tookRecoveryCode(tx)
      /\ job.mfa => provesMfa(tx)
      /\ ~(updateDue(tx, acc) /\ boundBeyondPassword(acc) /\ ~metBeyondPassword(tx))
  BY DEF Needed
<1>3. QED
  BY <1>1, <1>2 DEF LoopMet, UpdateSafe

\* What was proved of an account was proved of it while it held less.
LEMMA LoopWeaker ==
  ASSUME NEW tx, NEW acc, NEW was, NEW mfa, acc \in Account, was \in Account,
         was.factors \subseteq acc.factors, LoopMet(tx, acc, mfa)
  PROVE  LoopMet(tx, was, mfa)
<1>1. acc.factors \subseteq Factors /\ was.factors \subseteq Factors
  BY DEF Account
<1>2. /\ provenFactorStrength(tx) \in {0, 1, 2} /\ strongestBoundFactor(was) \in {0, 1, 2}
      /\ strongestBoundFactor(acc) \in {0, 1, 2}
  BY <1>1, ProvenIs, StrongestIs
<1>3. strongestBoundFactor(was) <= strongestBoundFactor(acc)
  <2>1. CASE strongestBoundFactor(was) = 2
    BY <1>1, <2>1, StrongestIs
  <2>2. CASE strongestBoundFactor(was) = 1
    <3>1. "password" \in acc.factors
      BY <1>1, <2>2, StrongestIs
    <3>2. strongestBoundFactor(acc) >= 1
      BY <1>1, <3>1, StrongestIs
    <3>3. QED
      BY <2>2, <3>2
  <2>3. CASE strongestBoundFactor(was) = 0
    BY <1>2, <2>3
  <2>4. QED
    BY ONLY <1>2, <2>1, <2>2, <2>3
<1>4. QED
  BY <1>2, <1>3 DEF LoopMet, holdsTotp

\* Whoever met the needs of the account proved a first factor, and one beyond
\* the password unless the account holds none.
LEMMA LoopProves ==
  ASSUME NEW tx, NEW acc, NEW mfa, tx \in Transaction, acc \in Account, LoopMet(tx, acc, mfa),
         Subject(tx, acc), tx.subject, tx.flow # "reset", ~registersByPasskey(tx), Enrolments(tx)
  PROVE  FirstProved(tx) /\ (Beyond(tx) \/ acc.factors \subseteq {"password"})
<1>1. acc.factors \subseteq Factors
  BY DEF Account
<1>2. FirstProved(tx)
  <2>1. SUFFICES ASSUME ~FirstProved(tx) PROVE FALSE
    OBVIOUS
  <2>2. tookRecoveryCode(tx) /\ "passkey" \in acc.factors
    BY <2>1 DEF Subject
  <2>3. tx.verified \cap {"upstream", "password", "passkey", "totp"} = {}
    BY <2>1 DEF FirstProved, FirstSteps
  <2>4. codeAlone(tx) /\ tx.enrol # "bound"
    BY <2>1, <2>2, <2>3 DEF codeAlone, Enrolments
  <2>5. "passkey" \notin tx.verified
    BY <2>3
  <2>6. provenFactorStrength(tx) < strongestBoundFactor(acc)
    BY <1>1, <2>2, <2>5, ProvenIs, StrongestIs
  <2>7. provenFactorStrength(tx) \in {0, 1, 2} /\ strongestBoundFactor(acc) \in {0, 1, 2}
    BY <1>1, ProvenIs, StrongestIs
  <2>8. QED
    BY <2>4, <2>6, <2>7 DEF LoopMet
<1>3. CASE "totp" \in acc.factors
  BY <1>2, <1>3 DEF LoopMet, holdsTotp, provesMfa, tookRecoveryCode, Beyond, BeyondSteps
<1>4. CASE "passkey" \in acc.factors
  <2>1. strongestBoundFactor(acc) = 2 /\ provenFactorStrength(tx) \in {0, 1, 2}
    BY <1>1, <1>4, StrongestIs, ProvenIs
  <2>2. provenFactorStrength(tx) >= strongestBoundFactor(acc) => "passkey" \in tx.verified
    BY <2>1, ProvenIs
  <2>3. QED
    BY <1>2, <2>2 DEF LoopMet, tookRecoveryCode, Beyond, BeyondSteps, Enrolments
<1>5. QED
  BY <1>1, <1>2, <1>3, <1>4 DEF Factors

\* The rules a round has passed by the k-th have established what Passed says.
LEMMA PassedNext ==
  ASSUME NEW r, NEW a, NEW n, NEW g, RoundOK(r, a, n, g, job.mfa), r.pc = "rules",
         NEW k \in r.stage..completeStage, Reaches(r, k)
  PROVE  Passed(r.tx, r.acc, r.was, job.mfa, k)
<1>1. /\ r.stage \in rebindStage..codesStage /\ r.tx.subject /\ r.tx.flow # "reset"
      /\ r.acc \in Account /\ r.was.factors \subseteq r.acc.factors /\ r.was \in Account
      /\ Subject(r.tx, r.acc) /\ OnAccount(r.tx, r.acc) /\ r.tx \in Transaction
      /\ Enrolments(r.tx) /\ Passed(r.tx, r.acc, r.was, job.mfa, r.stage)
  BY DEF RoundOK, RoundShape, AtPlace, AfterRead, ReadAccount, TxnOK
<1>2. SUFFICES ASSUME ~registersByPasskey(r.tx)
               PROVE  Passed(r.tx, r.acc, r.was, job.mfa, k)
  BY DEF Passed
<1>3. ASSUME NEW j \in r.stage..(k - 1)
      PROVE  RuleAt(j, r.tx, r.acc) = "none"
  BY <1>2, OthersAsk DEF Reaches
<1>4. ASSUME r.stage <= loopStage, k > loopStage
      PROVE  LoopMet(r.tx, r.acc, job.mfa) /\ UpdateSafe(r.tx, r.acc)
  <2>1. loopStage \in r.stage..(k - 1)
    BY <1>1, <1>4
  <2>2. Needed(r.tx, r.acc) = "none"
    BY <1>3, <2>1, LoopAsks
  <2>3. QED
    BY <1>1, <2>2, LoopNone
<1>5. ASSUME k > loopStage
      PROVE  /\ LoopMet(r.tx, r.was, job.mfa) /\ FirstProved(r.tx)
             /\ Beyond(r.tx) \/ r.acc.factors \subseteq {"password"}
  <2>1. CASE r.stage > loopStage
    BY <1>1, <1>2, <2>1 DEF Passed
  <2>2. CASE r.stage <= loopStage
    <3>1. LoopMet(r.tx, r.acc, job.mfa)
      BY <1>4, <1>5, <2>2
    <3>2. LoopMet(r.tx, r.was, job.mfa)
      BY <1>1, <3>1, LoopWeaker
    <3>3. QED
      BY <1>1, <1>2, <3>1, <3>2, LoopProves
  <2>3. QED
    BY <1>1, <2>1, <2>2
<1>6. ASSUME k \in {addressStage, updateStage}
      PROVE  UpdateSafe(r.tx, r.acc)
  <2>1. CASE r.stage > loopStage
    BY <1>1, <1>2, <1>6, <2>1 DEF Passed
  <2>2. CASE r.stage <= loopStage
    BY <1>4, <1>6, <2>2
  <2>3. QED
    BY <1>1, <2>1, <2>2
<1>7. ASSUME k > updateStage
      PROVE  UpdateMet(r.tx, r.was)
  <2>1. CASE r.stage > updateStage
    BY <1>1, <1>2, <2>1 DEF Passed
  <2>2. CASE r.stage <= updateStage
    <3>1. updateStage \in r.stage..(k - 1)
      BY <1>1, <1>7, <2>2
    <3>2. RuleAt(updateStage, r.tx, r.acc) = "none"
      BY <1>3, <3>1
    <3>3. ~updateDue(r.tx, r.acc)
      BY <3>2 DEF RuleAt, forcedUpdateAsk
    <3>4. QED
      BY <1>1, <3>3 DEF updateDue, UpdateMet, OnAccount
  <2>3. QED
    BY <1>1, <2>1, <2>2
<1>8. QED
  BY <1>5, <1>6, <1>7 DEF Passed

\* A round at its rules, and the rule that asks.
LEMMA Asked ==
  ASSUME IInv, NEW t \in Txns, NEW what, what # "none", Asks(t, what), NEW r, r = round[t]
  PROVE  /\ r # None /\ r.pc = "rules" /\ RoundOK(r, acct, now, guesses[t], job.mfa)
         /\ Stage(r) \in r.stage..completeStage /\ AskAt(Stage(r), r.tx, r.acc) = what
         /\ r.stage \in rebindStage..codesStage
         /\ Passed(r.tx, r.acc, r.was, job.mfa, Stage(r))
<1>1. r # None /\ r.pc = "rules" /\ RoundOK(r, acct, now, guesses[t], job.mfa)
  BY OfRound DEF Asks
<1>2. r.stage \in rebindStage..codesStage
  BY <1>1 DEF RoundOK, RoundShape
<1>3. PICK k \in r.stage..completeStage : AskAt(k, r.tx, r.acc) = what /\ Reaches(r, k)
  BY DEF Asks
<1>4. Stage(r) = k
  BY <1>2, <1>3, StageIs
<1>5. QED
  BY <1>1, <1>2, <1>3, <1>4, PassedNext

\* What the rules say of a transaction that is asked for anything but its codes.
LEMMA AskedOthers ==
  ASSUME IInv, NEW t \in Txns, NEW what, Asks(t, what), NEW r, r = round[t],
         what \notin {"none", "codes", "complete"}
  PROVE  /\ ~registersByPasskey(r.tx) /\ RuleAt(Stage(r), r.tx, r.acc) = what
         /\ Stage(r) \in rebindStage..completeStage
<1>1. /\ Stage(r) \in rebindStage..completeStage /\ AskAt(Stage(r), r.tx, r.acc) = what
  BY Asked
<1>2. ~registersByPasskey(r.tx)
  BY <1>1, PasskeyAsks
<1>3. QED
  BY <1>1, <1>2, OthersAsk

\* No assertion of the engine fails: a forced update finds the factor beyond the
\* password proved, and whoever completes proved a first factor.
LEMMA NoFault == IInv => NoEngineFault
<1>1. SUFFICES ASSUME IInv, NEW t \in Txns, Asks(t, "fault") PROVE FALSE
  BY DEF NoEngineFault
<1>2. PICK r : r = round[t]
  OBVIOUS
<1>3. /\ ~registersByPasskey(r.tx) /\ RuleAt(Stage(r), r.tx, r.acc) = "fault"
      /\ Stage(r) \in rebindStage..completeStage
  BY <1>1, <1>2, AskedOthers
<1>4. Passed(r.tx, r.acc, r.was, job.mfa, Stage(r))
  BY <1>1, <1>2, Asked
<1>5. CASE Stage(r) = updateStage
  BY <1>3, <1>4, <1>5, RuleAsks DEF Passed, UpdateSafe
<1>6. CASE Stage(r) = completeStage
  <2>1. FirstProved(r.tx)
    BY <1>3, <1>4, <1>6 DEF Passed
  <2>2. hasAmr(r.tx) \/ "upstream" \in r.tx.verified
    BY <2>1 DEF FirstProved, FirstSteps, hasAmr
  <2>3. QED
    BY <1>3, <1>6, <2>2, RuleAsks
<1>7. QED
  BY <1>3, <1>5, <1>6, RuleAsks

----------------------------------------------------------------------------
(* How a round and its transaction change *)

\* Round r further on.
Further(r, pc, stage, tx, acc, ans) ==
  [pc |-> pc, stage |-> stage, tx |-> tx, acc |-> acc, ans |-> ans,
   right |-> r.right, was |-> r.was]

\* The round r that Took goes on with.
After(r, pc, tx) ==
  Further(r, pc, IF r.pc = "rules" THEN Stage(r) ELSE r.stage, tx, r.acc, "look")

\* Two fields of a round replaced, as Go does.
LEMMA GoSets ==
  ASSUME NEW r, RoundShape(r), NEW pc, NEW tx
  PROVE  [r EXCEPT !.pc = pc, !.tx = tx] = Further(r, pc, r.stage, tx, r.acc, r.ans)
<1>1. PICK p, s, x, c, n, g, w : /\ p = r.pc /\ s = r.stage /\ x = r.tx /\ c = r.acc
                                 /\ n = r.ans /\ g = r.right /\ w = r.was
  OBVIOUS
<1>2. r = [pc |-> p, stage |-> s, tx |-> x, acc |-> c, ans |-> n, right |-> g, was |-> w]
  BY <1>1, Zenon DEF RoundShape
<1>3. PICK r1 : r1 = [r EXCEPT !.pc = pc]
  OBVIOUS
<1>4. r1 = [pc |-> pc, stage |-> s, tx |-> x, acc |-> c, ans |-> n, right |-> g, was |-> w]
  BY ONLY <1>2, <1>3
<1>5. [r1 EXCEPT !.tx = tx]
        = [pc |-> pc, stage |-> s, tx |-> tx, acc |-> c, ans |-> n, right |-> g, was |-> w]
  BY ONLY <1>4
<1>6. [r EXCEPT !.pc = pc, !.tx = tx] = [r1 EXCEPT !.tx = tx]
  BY <1>3, Zenon
<1>7. QED
  BY <1>1, <1>5, <1>6, Zenon DEF Further

\* The round goes on with the transaction, its answer taken.
LEMMA TookIs ==
  ASSUME IInv, NEW t \in Txns, round[t] # None, NEW pc, NEW tx, Took(t, pc, tx), NEW r, r = round[t]
  PROVE  UNCHANGED txn /\ round' = [round EXCEPT ![t] = After(r, pc, tx)]
<1>1. RoundShape(r)
  BY OfRound
<1>2. PICK k : k = IF r.pc = "rules" THEN Stage(r) ELSE r.stage
  OBVIOUS
<1>3. /\ txn' = txn
      /\ round' = [round EXCEPT ![t] = [r EXCEPT !.pc = pc, !.tx = tx, !.ans = "look", !.stage = k]]
  BY <1>2 DEF Took
<1>4. PICK q : q = Further(r, pc, r.stage, tx, r.acc, r.ans)
  OBVIOUS
<1>5. PICK s, c, n, g, w : s = r.stage /\ c = r.acc /\ n = r.ans /\ g = r.right /\ w = r.was
  OBVIOUS
<1>6. q = [pc |-> pc, stage |-> s, tx |-> tx, acc |-> c, ans |-> n, right |-> g, was |-> w]
  BY <1>4, <1>5, Zenon DEF Further
<1>7. PICK q1 : q1 = [q EXCEPT !.ans = "look"]
  OBVIOUS
<1>8. q1 = [pc |-> pc, stage |-> s, tx |-> tx, acc |-> c, ans |-> "look", right |-> g, was |-> w]
  BY ONLY <1>6, <1>7
<1>9. [q1 EXCEPT !.stage = k]
        = [pc |-> pc, stage |-> k, tx |-> tx, acc |-> c, ans |-> "look", right |-> g, was |-> w]
  BY ONLY <1>8
<1>10. [r EXCEPT !.pc = pc, !.tx = tx] = q
  BY <1>1, <1>4, GoSets
<1>11. [r EXCEPT !.pc = pc, !.tx = tx, !.ans = "look", !.stage = k] = [q1 EXCEPT !.stage = k]
  BY <1>7, <1>10, Zenon
<1>12. [q1 EXCEPT !.stage = k] = After(r, pc, tx)
  BY <1>2, <1>5, <1>9, Zenon DEF After, Further
<1>13. QED
  BY <1>3, <1>11, <1>12, Zenon

\* The round goes on elsewhere, its answer still to be read.
LEMMA GoIs ==
  ASSUME IInv, NEW t \in Txns, round[t] # None, NEW pc, NEW tx, Go(t, pc, tx), NEW r, r = round[t]
  PROVE  /\ UNCHANGED txn
         /\ round' = [round EXCEPT ![t] = Further(r, pc, r.stage, tx, r.acc, r.ans)]
<1>1. RoundShape(r)
  BY OfRound
<1>2. round[t] = r /\ round' = [round EXCEPT ![t] = [r EXCEPT !.pc = pc, !.tx = tx]]
  BY DEF Go, IInv, Functions
<1>3. [r EXCEPT !.pc = pc, !.tx = tx] = Further(r, pc, r.stage, tx, r.acc, r.ans)
  BY <1>1, GoSets
<1>4. QED
  BY <1>2, <1>3 DEF Go

\* A round further on is as the invariant says, when its transaction and its
\* place are.
LEMMA FurtherOK ==
  ASSUME IInv, NEW t \in Txns, round[t] # None, NEW r, r = round[t], AccountStep,
         NEW pc \in Places, NEW s \in rebindStage..codesStage, NEW tx, NEW acc, NEW ans,
         pc \notin {"rules", "reread"} => s = rebindStage,
         TxnOK(tx, acct', now, guesses[t]),
         pc # "epoch" /\ tx.subject => r.was.epoch <= tx.proof,
         AtPlace(Further(r, pc, s, tx, acc, ans), acct', job.mfa)
  PROVE  RoundOK(Further(r, pc, s, tx, acc, ans), acct', now, guesses[t], job.mfa)
<1> DEFINE f == Further(r, pc, s, tx, acc, ans)
<1>1. /\ f.pc = pc /\ f.stage = s /\ f.tx = tx /\ f.acc = acc /\ f.ans = ans
      /\ f.right = r.right /\ f.was = r.was
  BY DEF Further
<1>2. RoundShape(f)
  BY DEF Further, RoundShape
<1>3. r.was \in Account /\ (~r.was.exists => r.was.factors = {}) /\ Grows(r.was, acct)
  BY OfRound DEF RoundOK
<1>4. Grows(r.was, acct')
  <2>1. acct \in Account /\ acct' \in Account /\ Grows(acct, acct')
    BY Types DEF AccountStep, Moves, AccountOK
  <2>2. QED
    BY <1>3, <2>1, GrowsOn
<1> HIDE DEF f
<1>5. QED
  BY <1>1, <1>2, <1>3, <1>4 DEF RoundOK, f

\* A transaction that a rule added to: nothing of the account was proved by it.
Adds(tx, tx2) ==
  /\ tx2.flow = tx.flow /\ tx2.created = tx.created /\ tx2.ident = tx.ident
  /\ tx2.subject = tx.subject /\ tx2.breached = tx.breached /\ tx2.update = tx.update
  /\ tx2.proof = tx.proof /\ tx2.upstream = tx.upstream
  /\ tx.verified \subseteq tx2.verified
  /\ tx2.verified \subseteq tx.verified \cup
       {"email_code", "password_reset", "new_password", "recovery_codes"}

\* What was proved of an account stays proved.
LEMMA LoopMetAdds ==
  ASSUME NEW tx, NEW tx2, tx.verified \subseteq tx2.verified, NEW was, NEW mfa,
         tx.enrol = "bound" => tx2.enrol = "bound", LoopMet(tx, was, mfa),
         was \in Account
  PROVE  LoopMet(tx2, was, mfa)
<1>1. /\ provenFactorStrength(tx) \in {0, 1, 2} /\ provenFactorStrength(tx2) \in {0, 1, 2}
      /\ strongestBoundFactor(was) \in {0, 1, 2}
  BY ProvenIs, StrongestIs DEF Account
<1>2. provenFactorStrength(tx) <= provenFactorStrength(tx2)
  <2>1. CASE provenFactorStrength(tx) = 2
    BY <2>1, ProvenIs
  <2>2. CASE provenFactorStrength(tx) = 1
    <3>1. "password" \in tx2.verified \/ "upstream" \in tx2.verified
      BY <2>2, ProvenIs
    <3>2. provenFactorStrength(tx2) >= 1
      BY <3>1, ProvenIs
    <3>3. QED
      BY ONLY <1>1, <2>2, <3>2
  <2>3. QED
    BY ONLY <1>1, <2>1, <2>2
<1>3. provenFactorStrength(tx) >= strongestBoundFactor(was)
        => provenFactorStrength(tx2) >= strongestBoundFactor(was)
  BY ONLY <1>1, <1>2
<1>4. provesMfa(tx) => provesMfa(tx2)
  BY DEF provesMfa
<1>5. tookRecoveryCode(tx) => tookRecoveryCode(tx2)
  BY DEF tookRecoveryCode
<1>6. tookRecoveryCode(tx) /\ ~codeAlone(tx) => ~codeAlone(tx2)
  BY DEF tookRecoveryCode, codeAlone
<1>7. QED
  BY <1>3, <1>4, <1>5, <1>6 DEF LoopMet

LEMMA PassedAdds ==
  ASSUME NEW tx, NEW tx2, Adds(tx, tx2), tx.enrol = "bound" => tx2.enrol = "bound",
         NEW acc, NEW was, was \in Account, NEW mfa, NEW k, Passed(tx, acc, was, mfa, k)
  PROVE  Passed(tx2, acc, was, mfa, k)
<1>1. SUFFICES ASSUME ~registersByPasskey(tx2) PROVE Passed(tx2, acc, was, mfa, k)
  BY DEF Passed
<1>2. ~registersByPasskey(tx)
  BY <1>1 DEF registersByPasskey, Adds
<1>3. LoopMet(tx, was, mfa) => LoopMet(tx2, was, mfa)
  BY LoopMetAdds DEF Adds
<1>4. UpdateSafe(tx, acc) => UpdateSafe(tx2, acc)
  BY DEF UpdateSafe, Adds, updateDue, metBeyondPassword, provedBeyondPassword, tookRecoveryCode
<1>5. UpdateMet(tx, was) => UpdateMet(tx2, was)
  BY DEF UpdateMet, Adds
<1>6. (FirstProved(tx) => FirstProved(tx2)) /\ (Beyond(tx) => Beyond(tx2))
  BY DEF FirstProved, Beyond, Adds
<1>7. QED
  BY <1>2, <1>3, <1>4, <1>5, <1>6 DEF Passed

\* What was said of a transaction and an account, of one that was added to.
LEMMA SubjectAdds ==
  ASSUME NEW tx, NEW tx2, Adds(tx, tx2), NEW a
  PROVE  /\ Subject(tx, a) => Subject(tx2, a)
         /\ OnAccount(tx, a) => OnAccount(tx2, a)
         /\ Epochs(tx, a) => Epochs(tx2, a)
<1>1. Subject(tx, a) => Subject(tx2, a)
  BY DEF Adds, Subject, registersByPasskey, FirstProved, tookRecoveryCode, provedMailbox
<1>2. OnAccount(tx, a) => OnAccount(tx2, a)
  BY DEF Adds, OnAccount, enrolledTotp
<1>3. Epochs(tx, a) => Epochs(tx2, a)
  BY DEF Adds, Epochs
<1>4. QED
  BY <1>1, <1>2, <1>3

LEMMA TxnAdds ==
  ASSUME NEW tx, NEW tx2 \in Transaction, Adds(tx, tx2), NEW a, NEW n, NEW g, NEW h,
         TxnOK(tx, a, n, g), Counted(tx2, h), Enrolments(tx2),
         tx.subject \/ (tx2.enrol = tx.enrol /\ tx2.verified \subseteq tx.verified
                          \cup (IF tx.flow = "register" THEN {"email_code"} ELSE {"password_reset"}))
  PROVE  TxnOK(tx2, a, n, h)
<1>1. Subject(tx2, a) /\ Epochs(tx2, a) /\ OnAccount(tx2, a)
  BY SubjectAdds DEF TxnOK
<1>2. Unproved(tx2)
  BY DEF TxnOK, Unproved, Adds, provedMailbox
<1>3. tx2.created <= n
  BY DEF TxnOK, Adds
<1>4. QED
  BY <1>1, <1>2, <1>3 DEF TxnOK

\* A rule added to its transaction, and the rules go on.
LEMMA RulesOn ==
  ASSUME IInv, NEW t \in Txns, NEW what, what \notin {"none", "complete"}, Asks(t, what),
         NEW r, r = round[t], AccountStep, UNCHANGED <<job, now, result, guesses, left>>,
         NEW tx2 \in Transaction, Took(t, "rules", tx2), Adds(r.tx, tx2),
         r.tx.enrol = "bound" => tx2.enrol = "bound",
         Counted(tx2, guesses[t]), Enrolments(tx2)
  PROVE  IInv'
<1>1. /\ r # None /\ r.pc = "rules" /\ RoundOK(r, acct, now, guesses[t], job.mfa)
      /\ Stage(r) \in rebindStage..codesStage
      /\ Passed(r.tx, r.acc, r.was, job.mfa, Stage(r))
  <2>1. /\ Stage(r) \in rebindStage..completeStage /\ AskAt(Stage(r), r.tx, r.acc) = what
    BY Asked
  <2>2. AskAt(completeStage, r.tx, r.acc) \in {"complete", "fault"}
    BY DEF AskAt, RuleAt
  <2>3. what # "fault"
    BY NoFault DEF NoEngineFault
  <2>4. Stage(r) # completeStage
    BY <2>1, <2>2, <2>3
  <2>5. QED
    BY <2>1, <2>4, Asked
<1>2. acct \in Account /\ acct' \in Account /\ now \in Nat /\ now <= now /\ Moves(acct, acct', now)
  BY Types DEF AccountStep, AccountOK
<1>3. RoundOK(r, acct', now, guesses[t], job.mfa)
  BY <1>1, <1>2, RoundOKGrows
<1>4. /\ TxnOK(r.tx, acct', now, guesses[t]) /\ r.was \in Account /\ AfterRead(r, acct')
      /\ ReadAccount(r) /\ r.was.epoch <= r.tx.proof
  BY <1>1, <1>3 DEF RoundOK, AtPlace, AfterRead
<1>5. TxnOK(tx2, acct', now, guesses[t])
  BY <1>4, TxnAdds DEF AfterRead
<1> DEFINE f == Further(r, "rules", Stage(r), tx2, r.acc, "look")
<1>6. /\ f.pc = "rules" /\ f.stage = Stage(r) /\ f.tx = tx2 /\ f.acc = r.acc /\ f.was = r.was
  BY DEF Further
<1>7. After(r, "rules", tx2) = f
  BY <1>1 DEF After
<1> HIDE DEF f
<1>8. AfterRead(f, acct')
  BY <1>4, <1>6 DEF AfterRead, Remembered, Adds, registersByPasskey
<1>9. ReadAccount(f)
  BY <1>4, <1>6, SubjectAdds DEF ReadAccount
<1>10. Passed(f.tx, f.acc, f.was, job.mfa, f.stage)
  BY <1>1, <1>4, <1>6, PassedAdds
<1>11. AtPlace(f, acct', job.mfa)
  BY <1>6, <1>8, <1>9, <1>10 DEF AtPlace
<1>12. RoundOK(f, acct', now, guesses[t], job.mfa)
  <2>1. "rules" \in Places /\ tx2.proof = r.tx.proof
    BY DEF Places, Adds
  <2>2. QED
    BY <1>1, <1>4, <1>5, <1>11, <2>1, FurtherOK DEF f
<1>13. UNCHANGED txn /\ round' = [round EXCEPT ![t] = f]
  BY <1>1, <1>7, TookIs
<1>14. QED
  BY <1>12, <1>13, GoesOn

----------------------------------------------------------------------------
(* What the actions write *)

\* The address is marked verified.
LEMMA MarksVerified ==
  ASSUME IInv, acct' = [acct EXCEPT !.verified = TRUE]
  PROVE  AccountStep /\ acct'.pw = acct.pw /\ acct'.factors = acct.factors
<1>1. acct \in Account /\ AccountOK(acct, now)
  BY Types
<1>2. acct' \in Account
  BY <1>1 DEF Account
<1>3. /\ acct'.exists = acct.exists /\ acct'.enabled = acct.enabled /\ acct'.off = acct.off
      /\ acct'.factors = acct.factors /\ acct'.epoch = acct.epoch /\ acct'.pw = acct.pw
      /\ acct'.must = acct.must /\ acct'.confirmed = acct.confirmed
  BY <1>1 DEF Account
<1>4. QED
  BY <1>1, <1>2, <1>3 DEF AccountStep, Moves, Grows, AccountOK, Account

\* A recovery code is redeemed.
LEMMA Redeems ==
  ASSUME IInv, acct.unused > 0, acct' = [acct EXCEPT !.unused = @ - 1]
  PROVE  AccountStep /\ acct'.pw = acct.pw /\ acct'.factors = acct.factors
<1>1. acct \in Account /\ AccountOK(acct, now)
  BY Types
<1>2. acct' \in Account
  BY <1>1 DEF Account
<1>3. /\ acct'.exists = acct.exists /\ acct'.enabled = acct.enabled /\ acct'.off = acct.off
      /\ acct'.factors = acct.factors /\ acct'.epoch = acct.epoch /\ acct'.pw = acct.pw
      /\ acct'.must = acct.must /\ acct'.confirmed = acct.confirmed
  BY <1>1 DEF Account
<1>4. QED
  BY <1>1, <1>2, <1>3 DEF AccountStep, Moves, Grows, AccountOK, Account

\* A factor is bound to an account that is enabled.
LEMMA Binds ==
  ASSUME IInv, acct.enabled, NEW f \in Factors,
         acct' = [acct EXCEPT !.factors = @ \cup {f}, !.off = @ \ {f}]
  PROVE  AccountStep /\ acct'.factors = acct.factors \cup {f}
<1>1. acct \in Account /\ AccountOK(acct, now)
  BY Types
<1>2. acct' \in Account
  BY <1>1 DEF Account
<1>3. /\ acct'.exists = acct.exists /\ acct'.enabled = acct.enabled /\ acct'.off = acct.off \ {f}
      /\ acct'.factors = acct.factors \cup {f} /\ acct'.epoch = acct.epoch /\ acct'.pw = acct.pw
      /\ acct'.must = acct.must /\ acct'.confirmed = acct.confirmed
  BY <1>1 DEF Account
<1>4. acct.exists
  BY <1>1 DEF AccountOK
<1>5. QED
  BY <1>1, <1>2, <1>3, <1>4 DEF AccountStep, Moves, Grows, AccountOK, Account

\* The password is replaced, and with it goes the requirement.
LEMMA Replaces ==
  ASSUME IInv, acct' = [acct EXCEPT !.pw = @ + 1, !.must = FALSE, !.off = @ \ {"password"}]
  PROVE  AccountStep
<1>1. acct \in Account /\ AccountOK(acct, now)
  BY Types
<1>0. acct.pw + 1 \in Nat /\ acct.off \ {"password"} \in SUBSET Factors
  BY <1>1 DEF Account
<1>2. acct' \in Account
  BY <1>0, <1>1, ZenonT(60) DEF Account
<1>3. /\ acct'.exists = acct.exists /\ acct'.enabled = acct.enabled
      /\ acct'.off = acct.off \ {"password"}
      /\ acct'.factors = acct.factors /\ acct'.epoch = acct.epoch /\ acct'.pw = acct.pw + 1
      /\ acct'.confirmed = acct.confirmed
  BY <1>1 DEF Account
<1>4. QED
  BY <1>1, <1>2, <1>3 DEF AccountStep, Moves, Grows, AccountOK, Account

\* A reset replaces the password and ends the sessions up to now.
LEMMA Resets ==
  ASSUME IInv, acct' = [acct EXCEPT !.pw = @ + 1, !.must = FALSE, !.verified = TRUE,
                                    !.off = @ \ {"password"}, !.epoch = now]
  PROVE  AccountStep
<1>1. acct \in Account /\ AccountOK(acct, now) /\ now \in Nat
  BY Types
<1>0. acct.pw + 1 \in Nat /\ acct.off \ {"password"} \in SUBSET Factors
  BY <1>1 DEF Account
<1>2. acct' \in Account
  BY <1>0, <1>1, ZenonT(60) DEF Account
<1>3. /\ acct'.exists = acct.exists /\ acct'.enabled = acct.enabled
      /\ acct'.off = acct.off \ {"password"}
      /\ acct'.factors = acct.factors /\ acct'.epoch = now /\ acct'.pw = acct.pw + 1
      /\ acct'.confirmed = acct.confirmed
  BY <1>1 DEF Account
<1>4. QED
  BY <1>1, <1>2, <1>3 DEF AccountStep, Moves, Grows, AccountOK, Account

\* An account is created where there was none.
LEMMA Creates ==
  ASSUME IInv, ~acct.exists, NEW addr \in BOOLEAN, NEW fs \in SUBSET Factors,
         acct' = Created(addr, fs)
  PROVE  AccountStep /\ acct'.exists /\ acct'.epoch = acct.epoch
<1>1. acct \in Account /\ AccountOK(acct, now) /\ acct' = [acct EXCEPT !.exists = TRUE,
        !.enabled = TRUE, !.verified = TRUE, !.addr = addr, !.factors = fs]
  BY Types DEF Created
<1>2. acct' \in Account
  BY <1>1 DEF Account
<1>3. /\ acct'.exists = TRUE /\ acct'.off = acct.off
      /\ acct'.factors = fs /\ acct'.epoch = acct.epoch /\ acct'.pw = acct.pw
      /\ acct'.must = acct.must /\ acct'.confirmed = acct.confirmed
  BY <1>1 DEF Account
<1>4. acct.factors = {} /\ acct.off = {}
  BY <1>1 DEF AccountOK
<1>5. QED
  BY <1>1, <1>2, <1>3, <1>4 DEF AccountStep, Moves, Grows, AccountOK, Account

\* The recovery codes shown are confirmed.
LEMMA Confirms ==
  ASSUME IInv, acct' = [acct EXCEPT !.confirmed = TRUE]
  PROVE  AccountStep /\ acct'.pw = acct.pw /\ acct'.factors = acct.factors
<1>1. acct \in Account /\ AccountOK(acct, now)
  BY Types
<1>2. acct' \in Account
  BY <1>1 DEF Account
<1>3. /\ acct'.exists = acct.exists /\ acct'.enabled = acct.enabled /\ acct'.off = acct.off
      /\ acct'.factors = acct.factors /\ acct'.epoch = acct.epoch /\ acct'.pw = acct.pw
      /\ acct'.must = acct.must /\ acct'.confirmed = TRUE
  BY <1>1 DEF Account
<1>4. QED
  BY <1>1, <1>2, <1>3 DEF AccountStep, Moves, Grows, AccountOK, Account

\* A new set of recovery codes replaces the last.
LEMMA ReplacesCodes ==
  ASSUME IInv, acct' = [acct EXCEPT !.set = @ + 1, !.unused = 1]
  PROVE  AccountStep /\ acct'.pw = acct.pw /\ acct'.factors = acct.factors
<1>1. acct \in Account /\ AccountOK(acct, now)
  BY Types
<1>0. acct.set + 1 \in Nat /\ 1 \in Nat
  BY <1>1 DEF Account
<1>2. acct' \in Account
  BY <1>0, <1>1, ZenonT(60) DEF Account
<1>3. /\ acct'.exists = acct.exists /\ acct'.enabled = acct.enabled /\ acct'.off = acct.off
      /\ acct'.factors = acct.factors /\ acct'.epoch = acct.epoch /\ acct'.pw = acct.pw
      /\ acct'.must = acct.must /\ acct'.confirmed = acct.confirmed
  BY <1>1 DEF Account
<1>4. QED
  BY <1>1, <1>2, <1>3 DEF AccountStep, Moves, Grows, AccountOK, Account

\* A transaction with one more step verified.
LEMMA VerifiedIs ==
  ASSUME NEW tx \in Transaction, NEW step \in Steps, NEW tx2, tx2 = Verified(tx, step)
  PROVE  /\ tx2 \in Transaction /\ tx2.verified = tx.verified \cup {step}
         /\ tx2.flow = tx.flow /\ tx2.created = tx.created /\ tx2.ident = tx.ident
         /\ tx2.subject = tx.subject /\ tx2.breached = tx.breached /\ tx2.update = tx.update
         /\ tx2.proof = tx.proof /\ tx2.upstream = tx.upstream /\ tx2.code = tx.code
         /\ tx2.enrol = tx.enrol
<1>1. tx2 = [tx EXCEPT !.verified = tx.verified \cup {step}]
  BY DEF Verified
<1>2. tx.verified \cup {step} \in SUBSET Steps
  BY DEF Transaction
<1>3. QED
  BY <1>1, <1>2 DEF Transaction

\* A transaction to which a rule added a step that proves nothing of the account.
LEMMA VerifiedAdds ==
  ASSUME NEW tx \in Transaction, NEW step \in {"new_password", "recovery_codes", "password_reset"},
         NEW g, Counted(tx, g), Enrolments(tx), NEW tx2, tx2 = Verified(tx, step)
  PROVE  /\ tx2 \in Transaction /\ Adds(tx, tx2) /\ tx2.enrol = tx.enrol /\ tx2.code = tx.code
         /\ tx2.verified = tx.verified \cup {step} /\ Counted(tx2, g) /\ Enrolments(tx2)
<1>1. step \in Steps
  BY DEF Steps
<1>2. /\ tx2 \in Transaction /\ tx2.verified = tx.verified \cup {step}
      /\ tx2.flow = tx.flow /\ tx2.created = tx.created /\ tx2.ident = tx.ident
      /\ tx2.subject = tx.subject /\ tx2.breached = tx.breached /\ tx2.update = tx.update
      /\ tx2.proof = tx.proof /\ tx2.upstream = tx.upstream /\ tx2.code = tx.code
      /\ tx2.enrol = tx.enrol
  BY <1>1, VerifiedIs
<1>3. Adds(tx, tx2)
  BY <1>2 DEF Adds
<1>4. Counted(tx2, g) /\ Enrolments(tx2)
  BY <1>2 DEF Counted, provedMailbox, Enrolments, FirstProved, Beyond, enrolledTotp
<1>5. QED
  BY <1>2, <1>3, <1>4

\* A transaction whose email code was taken.
LEMMA CodeTakenIs ==
  ASSUME NEW tx \in Transaction, NEW tx2, tx2 = codeTaken(tx)
  PROVE  /\ tx2 \in Transaction /\ tx2.verified = tx.verified \cup {"email_code"}
         /\ Adds(tx, tx2) /\ tx2.enrol = tx.enrol /\ provedMailbox(tx2)
         /\ \A g : Counted(tx2, g)
<1>1. tx2 = [tx EXCEPT !.verified = @ \cup {"email_code"}, !.code = None]
  BY DEF codeTaken, Verified, Transaction
<1>2. tx.verified \cup {"email_code"} \in SUBSET Steps
  BY DEF Steps, Transaction
<1>7. tx2 \in Transaction
  BY <1>1, <1>2, ZenonT(60) DEF Transaction
<1>3. /\ tx2.verified = tx.verified \cup {"email_code"}
      /\ tx2.flow = tx.flow /\ tx2.created = tx.created /\ tx2.ident = tx.ident
      /\ tx2.subject = tx.subject /\ tx2.breached = tx.breached /\ tx2.update = tx.update
      /\ tx2.proof = tx.proof /\ tx2.upstream = tx.upstream /\ tx2.code = None
      /\ tx2.enrol = tx.enrol
  BY <1>1 DEF Transaction
<1>4. provedMailbox(tx2) /\ Adds(tx, tx2)
  BY <1>3 DEF Adds, provedMailbox
<1>5. \A g : Counted(tx2, g)
  BY <1>3, <1>4 DEF Counted
<1>6. QED
  BY <1>3, <1>4, <1>5, <1>7

----------------------------------------------------------------------------
(* Email codes *)

\* A transaction with another code: nothing else changed.
LEMMA CodeIs ==
  ASSUME NEW tx \in Transaction, NEW c \in CodeType, NEW tx2, tx2 = [tx EXCEPT !.code = c]
  PROVE  /\ tx2 \in Transaction /\ Adds(tx, tx2) /\ tx2.enrol = tx.enrol /\ tx2.code = c
         /\ tx2.verified = tx.verified
<1>1. tx2 \in Transaction
  BY DEF Transaction
<1>2. /\ tx2.verified = tx.verified
      /\ tx2.flow = tx.flow /\ tx2.created = tx.created /\ tx2.ident = tx.ident
      /\ tx2.subject = tx.subject /\ tx2.breached = tx.breached /\ tx2.update = tx.update
      /\ tx2.proof = tx.proof /\ tx2.upstream = tx.upstream /\ tx2.code = c
      /\ tx2.enrol = tx.enrol
  BY DEF Transaction
<1>3. QED
  BY <1>1, <1>2 DEF Adds

\* A round over an email code counts what it is told, and the count goes from
\* one code to the next.
LEMMA CodeRoundKeeps ==
  ASSUME IInv, NEW t \in Txns, round[t] # None, NEW refuses, codeRound(t, refuses),
         ~provedMailbox(round[t].tx)
  PROVE  IInv'
<1>1. PICK tx : tx = round[t].tx
  OBVIOUS
<1>2. PICK g : g = guesses[t]
  OBVIOUS
<1>3. PICK o : o = CodeOutcome(t, refuses)
  OBVIOUS
<1>4. /\ TxnOK(tx, acct, now, g) /\ tx \in Transaction /\ g \in 0..MaxWrong /\ g \in Nat
      /\ now \in Nat /\ MaxWrong \in Nat \ {0} /\ None \notin CodeType
  BY <1>1, <1>2, OfRound, Types
<1>5. /\ tx.code # None => tx.code.wrong = g /\ g < MaxWrong /\ tx.code \in CodeType
      /\ tx.code = None => g = 0
  BY <1>1, <1>4 DEF TxnOK, Counted, Transaction
<1>6. AccountStep /\ job' = job /\ now' = now /\ left' = left /\ result' = result /\ acct' = acct
  BY AccountStays DEF codeRound
<1>7. guesses' = [guesses EXCEPT ![t] = IF o \in {"wrong", "burned"} THEN g + 1 ELSE g]
  BY <1>2, <1>3 DEF codeRound
<1>8. /\ o = "wrong" => tx.code # None /\ ~(tx.code.wrong + 1 >= MaxWrong)
      /\ o = "burned" => tx.code # None
  BY <1>1, <1>3 DEF CodeOutcome
<1>9. result[t] # None => ResultOK(result[t], job.mfa)
  BY OfBrowser DEF BrowserOK
<1>10. ASSUME NEW x, NEW h, h \in 0..MaxWrong, Offer(t, x),
              guesses' = [guesses EXCEPT ![t] = h], x # None => TxnOK(x, acct', now, h)
       PROVE  IInv'
  <2>1. Turn(t, x, None, h, result[t])
    BY <1>6, <1>10 DEF IInv, Functions, Turn, Offer
  <2>2. BrowserOK(x, None, h, result[t], acct', now, job.mfa)
    BY <1>9, <1>10 DEF BrowserOK
  <2>3. QED
    BY <1>6, <2>1, <2>2, BrowserStep
<1>11. ASSUME NEW c \in CodeType, NEW h \in 0..MaxWrong, c.wrong = h, h < MaxWrong,
              Offer(t, [tx EXCEPT !.code = c]), guesses' = [guesses EXCEPT ![t] = h]
       PROVE  IInv'
  <2>1. PICK x : x = [tx EXCEPT !.code = c]
    OBVIOUS
  <2>2. /\ x \in Transaction /\ Adds(tx, x) /\ x.enrol = tx.enrol /\ x.code = c
        /\ x.verified = tx.verified
    BY <1>4, <2>1, CodeIs
  <2>3. Counted(x, h)
    BY <1>4, <1>11, <2>2 DEF Counted
  <2>4. Enrolments(x)
    BY <1>4, <2>2 DEF TxnOK, Enrolments, Adds, FirstProved, Beyond, enrolledTotp
  <2>5. TxnOK(x, acct, now, h)
    BY <1>4, <2>2, <2>3, <2>4, TxnAdds
  <2>6. QED
    BY <1>6, <1>10, <1>11, <2>1, <2>5
<1>12. CASE o = "issue" /\ Offer(t, [tx EXCEPT !.code = heldEmailCode(tx.code)])
  <2>1. PICK c : c = heldEmailCode(tx.code)
    OBVIOUS
  <2>2. c \in CodeType /\ c.wrong = g /\ g < MaxWrong
    BY <1>4, <1>5, <2>1 DEF heldEmailCode, CodeType
  <2>3. guesses' = [guesses EXCEPT ![t] = g]
    BY <1>7, <1>12
  <2>4. QED
    BY <1>4, <1>11, <1>12, <2>1, <2>2, <2>3
<1>13. CASE o = "offer" /\ Offer(t, tx)
  <2>1. guesses' = [guesses EXCEPT ![t] = g]
    BY <1>7, <1>13
  <2>2. QED
    BY <1>4, <1>6, <1>10, <1>13, <2>1
<1>14. CASE o = "wrong" /\ Offer(t, [tx EXCEPT !.code = countWrongEmailCode(@)])
  <2>1. PICK c : c = countWrongEmailCode(tx.code)
    OBVIOUS
  <2>2. c \in CodeType /\ c.wrong = g + 1 /\ g + 1 < MaxWrong
    BY <1>4, <1>5, <1>8, <1>14, <2>1 DEF countWrongEmailCode, CodeType
  <2>3. guesses' = [guesses EXCEPT ![t] = g + 1] /\ g + 1 \in 0..MaxWrong
    BY <1>4, <1>7, <1>14, <2>2
  <2>4. Offer(t, [tx EXCEPT !.code = c])
    BY <1>14, <2>1
  <2>5. QED
    BY <1>11, <2>2, <2>3, <2>4
<1>15. CASE o = "burned" /\ ended(t)
  <2>1. g + 1 \in 0..MaxWrong
    BY <1>4, <1>5, <1>8, <1>15
  <2>2. guesses' = [guesses EXCEPT ![t] = g + 1]
    BY <1>7, <1>15
  <2>3. QED
    BY <1>10, <1>15, <2>1, <2>2 DEF ended
<1>16. QED
  BY <1>1, <1>3, <1>12, <1>13, <1>14, <1>15 DEF codeRound

----------------------------------------------------------------------------
(* The rules *)

\* A round at its rules has a transaction with a subject, outside a reset.
LEMMA AtRules ==
  ASSUME IInv, NEW t \in Txns, NEW what, Asks(t, what), NEW r, r = round[t]
  PROVE  /\ r # None /\ r.pc = "rules" /\ RoundOK(r, acct, now, guesses[t], job.mfa)
         /\ r.tx \in Transaction /\ r.tx.subject /\ r.tx.flow # "reset"
         /\ TxnOK(r.tx, acct, now, guesses[t]) /\ Enrolments(r.tx) /\ Counted(r.tx, guesses[t])
         /\ AfterRead(r, acct) /\ ReadAccount(r)
<1>1. r # None /\ r.pc = "rules"
  BY DEF Asks
<1>2. RoundOK(r, acct, now, guesses[t], job.mfa)
  BY <1>1, OfRound
<1>3. QED
  BY <1>1, <1>2 DEF RoundOK, AtPlace, AfterRead, TxnOK

\* The mailbox is proved, or its code asked for again.
LEMMA verifyAddressKeeps ==
  ASSUME IInv, NEW t \in Txns, verifyAddress(t)
  PROVE  IInv'
<1>1. PICK r : r = round[t]
  OBVIOUS
<1>2. /\ r # None /\ r.tx \in Transaction /\ r.tx.subject /\ r.tx.flow # "reset"
      /\ Enrolments(r.tx)
  BY <1>1, AtRules DEF verifyAddress
<1>3. ~provedMailbox(r.tx)
  BY <1>1, AskedOthers, RuleAsks DEF verifyAddress
<1>4. CASE codeRound(t, FALSE)
  BY <1>1, <1>2, <1>3, <1>4, CodeRoundKeeps
<1>5. CASE acct.enabled /\ acct' = [acct EXCEPT !.verified = TRUE]
           /\ Took(t, "rules", codeTaken(r.tx)) /\ UNCHANGED <<job, now, result, guesses, left>>
  <2>1. PICK x : x = codeTaken(r.tx)
    OBVIOUS
  <2>2. /\ x \in Transaction /\ Adds(r.tx, x) /\ x.enrol = r.tx.enrol
        /\ Counted(x, guesses[t]) /\ x.verified = r.tx.verified \cup {"email_code"}
    BY <1>2, <2>1, CodeTakenIs
  <2>3. Enrolments(x)
    BY <1>2, <2>2 DEF Enrolments, Adds, FirstProved, Beyond
  <2>4. AccountStep
    BY <1>5, MarksVerified
  <2>5. Asks(t, "code")
    BY DEF verifyAddress
  <2>6. QED
    BY <1>1, <1>5, <2>1, <2>2, <2>3, <2>4, <2>5, RulesOn
<1>6. CASE ended(t) /\ UNCHANGED acct /\ UNCHANGED <<job, now, result, guesses, left>>
  BY <1>6, Ends
<1>7. QED
  BY <1>1, <1>4, <1>5, <1>6 DEF verifyAddress

\* A TOTP secret is drawn, and its first code checked.
LEMMA setupTotpKeeps ==
  ASSUME IInv, NEW t \in Txns, setupTotp(t)
  PROVE  IInv'
<1>1. PICK r : r = round[t]
  OBVIOUS
<1>2. /\ r # None /\ r.tx \in Transaction /\ r.tx.subject /\ Enrolments(r.tx)
      /\ Counted(r.tx, guesses[t]) /\ TxnOK(r.tx, acct, now, guesses[t]) /\ Asks(t, "setup")
  BY <1>1, AtRules DEF setupTotp
<1>3. UNCHANGED <<job, now, acct, result, guesses, left>> /\ AccountStep
  BY AccountStays DEF setupTotp, calm
<1>4. ASSUME NEW v \in {"sealed", "checked"}, NEW x, x = [r.tx EXCEPT !.setup = v]
      PROVE  /\ x \in Transaction /\ Adds(r.tx, x) /\ x.enrol = r.tx.enrol
             /\ Counted(x, guesses[t]) /\ Enrolments(x) /\ TxnOK(x, acct, now, guesses[t])
  <2>1. x \in Transaction
    BY <1>2, <1>4 DEF Transaction
  <2>2. /\ x.verified = r.tx.verified
        /\ x.flow = r.tx.flow /\ x.created = r.tx.created /\ x.ident = r.tx.ident
        /\ x.subject = r.tx.subject /\ x.breached = r.tx.breached /\ x.update = r.tx.update
        /\ x.proof = r.tx.proof /\ x.upstream = r.tx.upstream /\ x.code = r.tx.code
        /\ x.enrol = r.tx.enrol
    BY <1>2, <1>4 DEF Transaction
  <2>3. Adds(r.tx, x)
    BY <2>2 DEF Adds
  <2>4. Counted(x, guesses[t]) /\ Enrolments(x)
    BY <1>2, <2>2 DEF Counted, provedMailbox, Enrolments, FirstProved, Beyond, enrolledTotp
  <2>5. QED
    BY <1>2, <2>1, <2>2, <2>3, <2>4, TxnAdds
<1>5. CASE Offer(t, [r.tx EXCEPT !.setup = "sealed"])
  BY <1>3, <1>4, <1>5, Stores
<1>6. CASE Took(t, "rules", [r.tx EXCEPT !.setup = "checked"])
  <2>1. PICK x : x = [r.tx EXCEPT !.setup = "checked"]
    OBVIOUS
  <2>2. /\ x \in Transaction /\ Adds(r.tx, x) /\ x.enrol = r.tx.enrol
        /\ Counted(x, guesses[t]) /\ Enrolments(x)
    BY <1>4, <2>1
  <2>3. QED
    BY <1>1, <1>2, <1>3, <1>6, <2>1, <2>2, RulesOn
<1>7. CASE Offer(t, r.tx)
  BY <1>1, <1>2, <1>3, <1>7, StoresSame
<1>8. QED
  BY <1>1, <1>5, <1>6, <1>7 DEF setupTotp

\* A transaction whose passkey enrolment went on.
LEMMA EnrolIs ==
  ASSUME NEW tx \in Transaction, NEW e \in {"none", "held", "declined", "bound"}, NEW g,
         NEW x, x = [tx EXCEPT !.enrol = e], Counted(tx, g)
  PROVE  /\ x \in Transaction /\ Adds(tx, x) /\ x.enrol = e /\ Counted(x, g)
         /\ x.verified = tx.verified /\ x.flow = tx.flow
<1>1. x \in Transaction
  BY DEF Transaction
<1>2. /\ x.verified = tx.verified
      /\ x.flow = tx.flow /\ x.created = tx.created /\ x.ident = tx.ident
      /\ x.subject = tx.subject /\ x.breached = tx.breached /\ x.update = tx.update
      /\ x.proof = tx.proof /\ x.upstream = tx.upstream /\ x.code = tx.code
      /\ x.enrol = e
  BY DEF Transaction
<1>3. QED
  BY <1>1, <1>2 DEF Adds, Counted, provedMailbox

\* A transaction that shows another set of recovery codes.
LEMMA ShownIs ==
  ASSUME NEW tx \in Transaction, NEW s \in Nat \cup {None}, NEW g,
         NEW x, x = [tx EXCEPT !.shown = s], Counted(tx, g), Enrolments(tx)
  PROVE  /\ x \in Transaction /\ Adds(tx, x) /\ x.enrol = tx.enrol /\ Counted(x, g)
         /\ Enrolments(x) /\ x.verified = tx.verified
<1>1. x \in Transaction
  BY DEF Transaction
<1>2. /\ x.verified = tx.verified
      /\ x.flow = tx.flow /\ x.created = tx.created /\ x.ident = tx.ident
      /\ x.subject = tx.subject /\ x.breached = tx.breached /\ x.update = tx.update
      /\ x.proof = tx.proof /\ x.upstream = tx.upstream /\ x.code = tx.code
      /\ x.enrol = tx.enrol
  BY DEF Transaction
<1>3. QED
  BY <1>1, <1>2 DEF Adds, Counted, provedMailbox, Enrolments, FirstProved, Beyond, enrolledTotp

\* Once the loop is passed, a first factor was proved, and one beyond the password
\* unless the account holds nothing but one.
LEMMA PastLoop ==
  ASSUME IInv, NEW t \in Txns, NEW what, Asks(t, what), NEW r, r = round[t],
         what \in {"enrol", "lapse", "bindPasskey"}
  PROVE  FirstProved(r.tx) /\ (what = "bindPasskey" => Beyond(r.tx))
<1>1. /\ ~registersByPasskey(r.tx) /\ RuleAt(Stage(r), r.tx, r.acc) = what
      /\ Stage(r) \in rebindStage..completeStage
  BY AskedOthers
<1>2. Stage(r) = passkeyStage
  BY <1>1, RuleAsks
<1>3. FirstProved(r.tx) /\ (Beyond(r.tx) \/ r.acc.factors \subseteq {"password"})
  <2>1. Passed(r.tx, r.acc, r.was, job.mfa, Stage(r))
    BY Asked
  <2>2. QED
    BY <1>1, <1>2, <2>1 DEF Passed
<1>4. ASSUME what = "bindPasskey"
      PROVE  Beyond(r.tx)
  <2>1. provedMailbox(r.tx) \/ ~passwordOnly(r.acc)
    BY <1>1, <1>4, RuleAsks
  <2>2. "password" \in r.tx.verified => "password" \in r.acc.factors
    BY AtRules DEF ReadAccount, OnAccount
  <2>3. QED
    BY <1>3, <2>1, <2>2 DEF provedMailbox, passwordOnly, Beyond, BeyondSteps, FirstProved, FirstSteps
<1>5. QED
  BY <1>3, <1>4

\* A passkey is made, declined or asked for again.
LEMMA enrolPasskeyKeeps ==
  ASSUME IInv, NEW t \in Txns, enrolPasskey(t)
  PROVE  IInv'
<1>1. PICK r : r = round[t]
  OBVIOUS
<1>2. /\ r # None /\ r.tx \in Transaction /\ r.tx.flow # "reset"
      /\ Counted(r.tx, guesses[t]) /\ Asks(t, "enrol")
  BY <1>1, AtRules DEF enrolPasskey
<1>3. UNCHANGED <<job, now, acct, result, guesses, left>> /\ AccountStep
  BY AccountStays DEF enrolPasskey, calm
<1>4. FirstProved(r.tx) /\ r.tx.enrol = "none"
  <2>1. r.tx.enrol = "none"
    BY <1>1, <1>2, AskedOthers, RuleAsks
  <2>2. QED
    BY <1>1, <1>2, <2>1, PastLoop
<1>5. ASSUME NEW e \in {"held", "declined"}, Took(t, "rules", [r.tx EXCEPT !.enrol = e])
      PROVE  IInv'
  <2>1. PICK x : x = [r.tx EXCEPT !.enrol = e]
    OBVIOUS
  <2>2. /\ x \in Transaction /\ Adds(r.tx, x) /\ x.enrol = e /\ Counted(x, guesses[t])
        /\ x.verified = r.tx.verified /\ x.flow = r.tx.flow
    BY <1>2, <2>1, EnrolIs
  <2>3. Enrolments(x)
    BY <1>2, <1>4, <2>2 DEF Enrolments, FirstProved
  <2>4. QED
    BY <1>1, <1>2, <1>3, <1>4, <1>5, <2>1, <2>2, <2>3, RulesOn
<1>6. CASE Offer(t, r.tx)
  BY <1>1, <1>2, <1>3, <1>6, StoresSame
<1>7. \/ Took(t, "rules", [r.tx EXCEPT !.enrol = "held"])
      \/ Took(t, "rules", [r.tx EXCEPT !.enrol = "declined"])
      \/ Offer(t, r.tx)
  BY <1>1 DEF enrolPasskey, Answered
<1>8. QED
  BY <1>5, <1>6, <1>7

\* A passkey held for too long is not bound.
LEMMA lapseKeeps ==
  ASSUME IInv, NEW t \in Txns, lapse(t)
  PROVE  IInv'
<1>1. PICK r : r = round[t]
  OBVIOUS
<1>2. /\ r # None /\ r.tx \in Transaction /\ r.tx.flow # "reset"
      /\ Counted(r.tx, guesses[t]) /\ Asks(t, "lapse")
  BY <1>1, AtRules DEF lapse
<1>3. UNCHANGED <<job, now, acct, result, guesses, left>> /\ AccountStep
  BY AccountStays DEF lapse, calm
<1>4. FirstProved(r.tx) /\ r.tx.enrol # "bound"
  <2>1. r.tx.enrol # "bound"
    BY <1>1, <1>2, AskedOthers, RuleAsks
  <2>2. QED
    BY <1>1, <1>2, <2>1, PastLoop
<1>5. PICK x : x = [r.tx EXCEPT !.enrol = "declined"]
  OBVIOUS
<1>6. /\ x \in Transaction /\ Adds(r.tx, x) /\ x.enrol = "declined" /\ Counted(x, guesses[t])
      /\ x.verified = r.tx.verified /\ x.flow = r.tx.flow
  BY <1>2, <1>5, EnrolIs
<1>7. Enrolments(x)
  BY <1>2, <1>4, <1>6 DEF Enrolments, FirstProved
<1>8. Took(t, "rules", x)
  BY <1>1, <1>5 DEF lapse
<1>9. QED
  BY <1>1, <1>2, <1>3, <1>4, <1>6, <1>7, <1>8, RulesOn

\* The passkey held is bound, or another is asked for.
LEMMA bindPasskeyKeeps ==
  ASSUME IInv, NEW t \in Txns, bindPasskey(t)
  PROVE  IInv'
<1>1. PICK r : r = round[t]
  OBVIOUS
<1>2. /\ r # None /\ r.tx \in Transaction /\ r.tx.flow # "reset" /\ r.tx.subject
      /\ Counted(r.tx, guesses[t]) /\ Asks(t, "bindPasskey") /\ Enrolments(r.tx)
      /\ TxnOK(r.tx, acct, now, guesses[t])
  BY <1>1, AtRules DEF bindPasskey
<1>3. UNCHANGED <<job, now, result, guesses, left>>
  BY DEF bindPasskey
<1>4. FirstProved(r.tx) /\ Beyond(r.tx)
  BY <1>1, <1>2, PastLoop
<1>5. ASSUME NEW e \in {"none", "bound"}, NEW x, x = [r.tx EXCEPT !.enrol = e]
      PROVE  /\ x \in Transaction /\ Adds(r.tx, x) /\ x.enrol = e /\ Counted(x, guesses[t])
             /\ Enrolments(x)
  <2>1. /\ x \in Transaction /\ Adds(r.tx, x) /\ x.enrol = e /\ Counted(x, guesses[t])
        /\ x.verified = r.tx.verified /\ x.flow = r.tx.flow
    BY <1>2, <1>5, EnrolIs
  <2>2. Enrolments(x)
    BY <1>2, <1>4, <2>1 DEF Enrolments, FirstProved, Beyond
  <2>3. QED
    BY <2>1, <2>2
<1>6. CASE /\ acct.enabled /\ Took(t, "rules", [r.tx EXCEPT !.enrol = "bound"])
           /\ acct' = [acct EXCEPT !.factors = @ \cup {"passkey"}, !.off = @ \ {"passkey"}]
  <2>1. AccountStep
    BY <1>6, Binds DEF Factors
  <2>2. PICK x : x = [r.tx EXCEPT !.enrol = "bound"]
    OBVIOUS
  <2>3. /\ x \in Transaction /\ Adds(r.tx, x) /\ x.enrol = "bound" /\ Counted(x, guesses[t])
        /\ Enrolments(x)
    BY <1>5, <2>2
  <2>4. Took(t, "rules", x)
    BY <1>6, <2>2
  <2>5. QED
    BY <1>1, <1>2, <1>3, <2>1, <2>3, <2>4, RulesOn
<1>7. CASE ended(t) /\ UNCHANGED acct
  BY <1>3, <1>7, Ends
<1>8. CASE Offer(t, [r.tx EXCEPT !.enrol = "none"]) /\ UNCHANGED acct
  <2>1. PICK x : x = [r.tx EXCEPT !.enrol = "none"]
    OBVIOUS
  <2>2. /\ x \in Transaction /\ Adds(r.tx, x) /\ x.enrol = "none" /\ Counted(x, guesses[t])
        /\ Enrolments(x)
    BY <1>5, <2>1
  <2>3. TxnOK(x, acct, now, guesses[t])
    BY <1>2, <2>2, TxnAdds
  <2>4. QED
    BY <1>3, <1>8, <2>1, <2>3, AccountStays, Stores
<1>9. QED
  BY <1>1, <1>6, <1>7, <1>8 DEF bindPasskey, Writes

\* The codes shown are confirmed, were confirmed elsewhere, or a new set is shown.
LEMMA showRecoveryCodesKeeps ==
  ASSUME IInv, NEW t \in Txns, showRecoveryCodes(t)
  PROVE  IInv'
<1>1. PICK r : r = round[t]
  OBVIOUS
<1>2. /\ r # None /\ r.tx \in Transaction /\ r.tx.flow # "reset" /\ r.tx.subject
      /\ Counted(r.tx, guesses[t]) /\ Asks(t, "codes") /\ Enrolments(r.tx)
      /\ TxnOK(r.tx, acct, now, guesses[t])
  BY <1>1, AtRules DEF showRecoveryCodes
<1>3. UNCHANGED <<job, now, result, guesses, left>>
  BY DEF showRecoveryCodes
<1>4. ASSUME AccountStep, NEW y, y \in Transaction, Adds(r.tx, y), y.enrol = r.tx.enrol,
             Counted(y, guesses[t]), Enrolments(y), Took(t, "rules", [y EXCEPT !.shown = None])
      PROVE  IInv'
  <2>1. PICK x : x = [y EXCEPT !.shown = None]
    OBVIOUS
  <2>2. /\ x \in Transaction /\ Adds(y, x) /\ x.enrol = y.enrol /\ Counted(x, guesses[t])
        /\ Enrolments(x) /\ x.verified = y.verified
    BY <1>4, <2>1, ShownIs
  <2>3. Adds(r.tx, x)
    BY <1>4, <2>2 DEF Adds
  <2>4. QED
    BY <1>1, <1>2, <1>3, <1>4, <2>1, <2>2, <2>3, RulesOn
<1>5. CASE /\ acct' = [acct EXCEPT !.confirmed = TRUE]
           /\ Took(t, "rules", [Verified(r.tx, "recovery_codes") EXCEPT !.shown = None])
  <2>1. PICK y : y = Verified(r.tx, "recovery_codes")
    OBVIOUS
  <2>2. /\ y \in Transaction /\ Adds(r.tx, y) /\ y.enrol = r.tx.enrol /\ y.code = r.tx.code
        /\ Counted(y, guesses[t]) /\ Enrolments(y)
    BY <1>2, <2>1, VerifiedAdds
  <2>4. QED
    BY <1>4, <1>5, <2>1, <2>2, Confirms
<1>6. CASE Took(t, "rules", [r.tx EXCEPT !.shown = None]) /\ UNCHANGED acct
  <2>1. Adds(r.tx, r.tx)
    BY DEF Adds
  <2>2. QED
    BY <1>2, <1>4, <1>6, <2>1, AccountStays
<1>7. CASE /\ acct' = [acct EXCEPT !.set = @ + 1, !.unused = 1]
           /\ Offer(t, [r.tx EXCEPT !.shown = acct.set + 1])
  <2>1. PICK s, x : s = acct.set + 1 /\ x = [r.tx EXCEPT !.shown = s]
    OBVIOUS
  <2>2. s \in Nat \cup {None}
    BY <2>1, Types DEF Account
  <2>3. /\ x \in Transaction /\ Adds(r.tx, x) /\ x.enrol = r.tx.enrol /\ Counted(x, guesses[t])
        /\ Enrolments(x)
    BY <1>2, <2>1, <2>2, ShownIs
  <2>4. TxnOK(x, acct, now, guesses[t])
    BY <1>2, <2>3, TxnAdds
  <2>5. AccountStep
    BY <1>7, ReplacesCodes
  <2>6. TxnOK(x, acct', now, guesses[t])
    BY <2>4, <2>5, Types, TxnOKGrows DEF AccountStep, AccountOK
  <2>7. QED
    BY <1>3, <1>7, <2>1, <2>5, <2>6, Stores
<1>8. QED
  BY <1>1, <1>5, <1>6, <1>7 DEF showRecoveryCodes

\* The password is replaced, or asked for again.
LEMMA forcedUpdateKeeps ==
  ASSUME IInv, NEW t \in Txns, forcedUpdate(t)
  PROVE  IInv'
<1>1. PICK r : r = round[t]
  OBVIOUS
<1>2. /\ r # None /\ r.tx \in Transaction /\ r.tx.flow # "reset" /\ r.tx.subject
      /\ Counted(r.tx, guesses[t]) /\ Asks(t, "password") /\ Enrolments(r.tx)
  BY <1>1, AtRules DEF forcedUpdate
<1>3. UNCHANGED <<job, now, result, guesses, left>>
  BY DEF forcedUpdate
<1>4. CASE /\ acct' = [acct EXCEPT !.pw = @ + 1, !.must = FALSE, !.off = @ \ {"password"}]
           /\ Took(t, "rules", Verified(r.tx, "new_password"))
  <2>1. PICK y : y = Verified(r.tx, "new_password")
    OBVIOUS
  <2>2. /\ y \in Transaction /\ Adds(r.tx, y) /\ y.enrol = r.tx.enrol /\ y.code = r.tx.code
        /\ Counted(y, guesses[t]) /\ Enrolments(y)
    BY <1>2, <2>1, VerifiedAdds
  <2>3. AccountStep
    BY <1>4, Replaces
  <2>4. QED
    BY <1>1, <1>2, <1>3, <1>4, <2>1, <2>2, <2>3, RulesOn
<1>5. CASE ended(t) /\ UNCHANGED acct
  BY <1>3, <1>5, Ends
<1>6. CASE Offer(t, r.tx) /\ UNCHANGED acct
  BY <1>1, <1>2, <1>3, <1>6, StoresSame
<1>7. QED
  BY <1>1, <1>4, <1>5, <1>6 DEF forcedUpdate, Waits, Writes

\* A transaction too old for what is asked ends; one that cannot go on is left.
LEMMA staleKeeps ==
  ASSUME IInv, NEW t \in Txns, stale(t) \/ stuck(t)
  PROVE  IInv'
<1>1. UNCHANGED <<job, now, acct, result, guesses, left>>
  BY DEF stale, stuck, calm
<1>2. CASE ended(t)
  BY <1>1, <1>2, Ends
<1>3. CASE Drop(t)
  <2>1. left'.others \subseteq left.others
    BY <1>1
  <2>2. QED
    BY <1>1, <1>3, <2>1, Drops
<1>4. QED
  BY <1>2, <1>3 DEF stale, stuck

\* A store fails.
LEMMA FaultKeeps ==
  ASSUME IInv, NEW t \in Txns, Fault(t)
  PROVE  IInv'
<1>1. left'.others \subseteq left.others
  BY DEF Fault
<1>2. QED
  BY <1>1, Drops DEF Fault

\* A ceremony completes.
LEMMA Completes ==
  ASSUME IInv, NEW t \in Txns, AccountStep, UNCHANGED <<job, now, guesses, left>>,
         NEW kind, NEW tx, Complete(t, kind, tx), NEW r, r = round[t],
         NEW res, res = [kind |-> kind, tx |-> tx, was |-> r.was, acc |-> acct'],
         ResultOK(res, job.mfa)
  PROVE  IInv'
<1>1. guesses[t] \in 0..MaxWrong
  BY OfBrowser DEF BrowserOK
<1>2. BrowserOK(None, None, guesses[t], res, acct', now, job.mfa)
  BY <1>1 DEF BrowserOK
<1>3. Turn(t, None, None, guesses[t], res)
  BY DEF Complete, Offer, IInv, Functions, Turn
<1>4. QED
  BY <1>2, <1>3, BrowserStep

\* The rules have nothing left to ask.
LEMMA completeKeeps ==
  ASSUME IInv, NEW t \in Txns, complete(t)
  PROVE  IInv'
<1>1. PICK r : r = round[t]
  OBVIOUS
<1>2. /\ r # None /\ r.tx \in Transaction /\ r.tx.flow # "reset" /\ r.tx.subject /\ r.pc = "rules"
      /\ Asks(t, "complete") /\ AfterRead(r, acct) /\ ReadAccount(r)
      /\ RoundOK(r, acct, now, guesses[t], job.mfa)
  BY <1>1, AtRules DEF complete
<1>3. r.stage \in rebindStage..codesStage /\ r.was.epoch <= r.tx.proof
  BY <1>2 DEF RoundOK, RoundShape
<1>4. Reaches(r, completeStage)
  <2>1. PICK k \in r.stage..completeStage : AskAt(k, r.tx, r.acc) = "complete" /\ Reaches(r, k)
    BY <1>1, <1>2 DEF Asks
  <2>2. k \in rebindStage..completeStage
    BY <1>3
  <2>3. k = completeStage
    <3>1. CASE registersByPasskey(r.tx)
      BY <2>1, <2>2, <3>1, PasskeyAsks
    <3>2. CASE ~registersByPasskey(r.tx)
      BY <2>1, <2>2, <3>2, OthersAsk, RuleAsks
    <3>3. QED
      BY <3>1, <3>2
  <2>4. QED
    BY <2>1, <2>3
<1>5. /\ ~tookRecoveryCode(r.tx)
      /\ r.tx.enrol = "bound" \/ enrolledTotp(r.tx) \/ registersByPasskey(r.tx)
      => acct.confirmed
  <2>1. AskAt(codesStage, r.tx, r.acc) = "none"
    BY <1>3, <1>4 DEF Reaches
  <2>2. showRecoveryCodesAsk(r.tx, r.acc) = "none"
    BY <2>1 DEF AskAt, RuleAt
  <2>3. enrolledTotp(r.tx) => boundBeyondPassword(r.acc) /\ provedBeyondPassword(r.tx)
    BY <1>2 DEF ReadAccount, OnAccount, boundBeyondPassword, provedBeyondPassword
  <2>4. QED
    BY <2>2, <2>3 DEF showRecoveryCodesAsk
<1>6. Passed(r.tx, r.acc, r.was, job.mfa, completeStage)
  BY <1>2, <1>3, <1>4, PassedNext
<1>7. PICK kind : kind = IF registersByPasskey(r.tx) THEN "registered" ELSE "signed_in"
  OBVIOUS
<1>8. PICK res : res = [kind |-> kind, tx |-> r.tx, was |-> r.was, acc |-> acct']
  OBVIOUS
<1>9. res.kind = kind /\ res.tx = r.tx /\ res.was = r.was /\ res.acc = acct
  BY <1>8 DEF complete
<1>10. ASSUME kind = "signed_in"
       PROVE  /\ r.was.exists => r.was.enabled
              /\ LoopMet(r.tx, r.was, job.mfa)
              /\ r.tx.breached \/ (r.was.must /\ acct.pw = r.was.pw /\ "password" \in r.was.factors)
                   => "new_password" \in r.tx.verified
  <2>1. ~registersByPasskey(r.tx)
    BY <1>7, <1>10
  <2>2. LoopMet(r.tx, r.was, job.mfa) /\ UpdateMet(r.tx, r.was)
    BY <1>6, <2>1 DEF Passed
  <2>3. QED
    BY <1>2, <2>1, <2>2 DEF AfterRead, Remembered, UpdateMet
<1>11. kind # "recovered"
  BY <1>7
<1>12. ResultOK(res, job.mfa)
  BY <1>3, <1>5, <1>9, <1>10, <1>11 DEF ResultOK
<1>13. Complete(t, kind, r.tx) /\ UNCHANGED <<job, now, acct, guesses, left>>
  BY <1>1, <1>7 DEF complete
<1>14. AccountStep
  BY <1>13, AccountStays
<1>15. QED
  BY <1>1, <1>8, <1>12, <1>13, <1>14, Completes

----------------------------------------------------------------------------
(* Factors *)

\* A transaction that proved more of the account: it keeps what it was told.
Proves(tx, tx2) ==
  /\ tx2.subject /\ tx2.flow = tx.flow /\ tx2.update = tx.update
  /\ tx.verified \subseteq tx2.verified
  /\ tx.ident # None => tx2.ident # None

\* A subject's transaction with a recovery code or a passkey made.
LEMMA SubjectVerified ==
  ASSUME NEW tx \in Transaction, NEW a, NEW n, NEW g, TxnOK(tx, a, n, g), tx.subject,
         NEW step \in {"recovery_code", "webauthn_create"}, NEW tx2, tx2 = Verified(tx, step)
  PROVE  /\ TxnOK(tx2, a, n, g) /\ Proves(tx, tx2) /\ tx2.proof = tx.proof
         /\ tx2 \in Transaction
<1>0. tx \in Transaction /\ tx2 = Verified(tx, step)
  OBVIOUS
<1>1. step \in Steps
  BY DEF Steps
<1>2. /\ tx2 \in Transaction /\ tx2.verified = tx.verified \cup {step}
      /\ tx2.flow = tx.flow /\ tx2.created = tx.created /\ tx2.ident = tx.ident
      /\ tx2.subject = tx.subject /\ tx2.breached = tx.breached /\ tx2.update = tx.update
      /\ tx2.proof = tx.proof /\ tx2.upstream = tx.upstream /\ tx2.code = tx.code
      /\ tx2.enrol = tx.enrol
  BY ONLY <1>0, <1>1, VerifiedIs
<1>3. Proves(tx, tx2)
  BY <1>2 DEF Proves
<1>4. Counted(tx2, g) /\ Enrolments(tx2) /\ Unproved(tx2) /\ tx2.created <= n
  BY <1>2 DEF TxnOK, Counted, provedMailbox, Enrolments, FirstProved, Beyond, enrolledTotp, Unproved
<1>5. Subject(tx2, a)
  BY <1>2 DEF TxnOK, Subject, registersByPasskey, FirstProved, tookRecoveryCode, provedMailbox
<1>6. Epochs(tx2, a) /\ OnAccount(tx2, a)
  BY <1>2 DEF TxnOK, Epochs, OnAccount, enrolledTotp
<1>7. QED
  BY <1>2, <1>3, <1>4, <1>5, <1>6 DEF TxnOK

\* A right answer to a factor proves it of the account as it is now.
LEMMA ProvedOK ==
  ASSUME IInv, NEW t \in Txns, NEW tx \in Transaction, tx = round[t].tx, NEW g,
         TxnOK(tx, acct, now, g), NEW step \in {"password", "passkey", "totp"}, Valid(t, step),
         tx.subject \/ (step # "totp" /\ tx.flow # "reset"),
         NEW tx2, tx2 = Proved(tx, step)
  PROVE  /\ tx2 \in Transaction /\ TxnOK(tx2, acct, now, g) /\ Proves(tx, tx2)
         /\ tx2.proof = IF tx.subject THEN tx.proof ELSE acct.epoch
<1>1. PICK v : v = Verified(tx, step)
  OBVIOUS
<1>2. step \in Steps
  BY DEF Steps
<1>3. /\ v \in Transaction /\ v.verified = tx.verified \cup {step}
      /\ v.flow = tx.flow /\ v.created = tx.created /\ v.ident = tx.ident
      /\ v.subject = tx.subject /\ v.breached = tx.breached /\ v.update = tx.update
      /\ v.proof = tx.proof /\ v.upstream = tx.upstream /\ v.code = tx.code
      /\ v.enrol = tx.enrol
  BY <1>1, <1>2, VerifiedIs
<1>4. PICK p, i, b : /\ p = IF tx.subject THEN tx.proof ELSE acct.epoch
                     /\ i = IF tx.ident = None /\ step = "passkey" /\ acct.addr THEN "own" ELSE tx.ident
                     /\ b = (tx.breached \/ (step = "password" /\ job.breach /\ acct.pw = 0))
  OBVIOUS
<1>5. p \in Nat /\ i \in {None, "own", "other"} /\ b \in BOOLEAN /\ now \in Nat \cup {None}
  BY <1>4, Types DEF Transaction, Account
<1>6. tx2 = [v EXCEPT !.subject = TRUE, !.auth = now, !.proof = p, !.ident = i, !.breached = b]
  BY <1>1, <1>3, <1>4 DEF Proved, Transaction
<1>7. tx2 \in Transaction
  <2>1. PICK w : w = [v EXCEPT !.subject = TRUE, !.auth = now, !.proof = p]
    OBVIOUS
  <2>2. w \in Transaction
    BY <1>3, <1>5, <2>1, Zenon DEF Transaction
  <2>3. tx2 = [w EXCEPT !.ident = i, !.breached = b]
    BY <1>6, <2>1, Zenon
  <2>4. QED
    BY <1>5, <2>2, <2>3, Zenon DEF Transaction
<1>8. /\ tx2.verified = tx.verified \cup {step}
      /\ tx2.flow = tx.flow /\ tx2.created = tx.created /\ tx2.ident = i
      /\ tx2.subject = TRUE /\ tx2.breached = b /\ tx2.update = tx.update
      /\ tx2.proof = p /\ tx2.upstream = tx.upstream /\ tx2.code = tx.code
      /\ tx2.enrol = tx.enrol
  BY <1>3, <1>6 DEF Transaction
<1>9. acct.exists /\ step \in acct.factors /\ (step = "password" => tx.ident = "own")
  BY DEF Valid, usable, Named
<1>10. Proves(tx, tx2)
  BY <1>4, <1>8, Types DEF Proves
<1>11. Counted(tx2, g) /\ Enrolments(tx2) /\ Unproved(tx2) /\ tx2.created <= now
  BY <1>8 DEF TxnOK, Counted, provedMailbox, Enrolments, FirstProved, Beyond, enrolledTotp, Unproved
<1>12. Subject(tx2, acct)
  <2>1. tx2.ident # None \/ tx2.verified \cap
          {"upstream", "passkey", "webauthn_create", "recovery_code"} # {}
    BY <1>4, <1>8, <1>9, Types DEF TxnOK, Subject
  <2>2. FirstProved(tx2)
    BY <1>8 DEF FirstProved, FirstSteps
  <2>3. tx2.flow = "reset" => provedMailbox(tx2)
    BY <1>8 DEF TxnOK, Subject, provedMailbox
  <2>4. QED
    BY <1>9, <2>1, <2>2, <2>3 DEF Subject
<1>13. Epochs(tx2, acct)
  BY <1>4, <1>8, Types DEF TxnOK, Epochs, Account
<1>14. OnAccount(tx2, acct)
  BY <1>4, <1>8, <1>9 DEF TxnOK, OnAccount, enrolledTotp
<1>15. QED
  BY <1>4, <1>7, <1>8, <1>10, <1>11, <1>12, <1>13, <1>14 DEF TxnOK

\* The rules go on, after a rebind, a factor or a TOTP set up, from the account
\* read again.
LEMMA RereadOn ==
  ASSUME IInv, NEW t \in Txns, NEW what, what # "none", what # "codes", what # "complete",
         Asks(t, what), NEW r, r = round[t], AccountStep,
         UNCHANGED <<job, now, result, guesses, left>>,
         NEW tx2 \in Transaction, Took(t, "reread", tx2), TxnOK(tx2, acct', now, guesses[t]),
         Proves(r.tx, tx2), tx2.proof = r.tx.proof,
         \/ Stage(r) \in {rebindStage, loopStage}
         \/ /\ Stage(r) = totpStage /\ enrolledTotp(tx2)
            /\ Passed(tx2, r.was, r.was, job.mfa, totpStage)
  PROVE  IInv'
<1>1. /\ r # None /\ r.pc = "rules" /\ RoundOK(r, acct, now, guesses[t], job.mfa)
      /\ r.tx.subject /\ r.tx.flow # "reset" /\ AfterRead(r, acct)
  BY AtRules
<1>2. acct \in Account /\ acct' \in Account /\ now \in Nat /\ now <= now /\ Moves(acct, acct', now)
  BY Types DEF AccountStep, AccountOK
<1>3. RoundOK(r, acct', now, guesses[t], job.mfa)
  BY <1>1, <1>2, RoundOKGrows
<1>4. AfterRead(r, acct') /\ r.was.epoch <= r.tx.proof
  BY <1>1, <1>3 DEF RoundOK, AtPlace
<1>5. ~registersByPasskey(r.tx)
  BY AskedOthers
<1> DEFINE f == Further(r, "reread", Stage(r), tx2, r.acc, "look")
<1>6. /\ f.pc = "reread" /\ f.stage = Stage(r) /\ f.tx = tx2 /\ f.acc = r.acc /\ f.was = r.was
  BY DEF Further
<1>7. After(r, "reread", tx2) = f
  BY <1>1 DEF After
<1> HIDE DEF f
<1>8. AfterRead(f, acct') /\ ~registersByPasskey(f.tx)
  BY <1>1, <1>4, <1>5, <1>6 DEF AfterRead, Remembered, Proves, registersByPasskey
<1>9. Passed(f.tx, f.was, f.was, job.mfa, f.stage)
  BY <1>6 DEF Passed
<1>10. AtPlace(f, acct', job.mfa)
  BY <1>6, <1>8, <1>9 DEF AtPlace
<1>11. RoundOK(f, acct', now, guesses[t], job.mfa)
  <2>1. "reread" \in Places /\ Stage(r) \in rebindStage..codesStage
    BY DEF Places
  <2>2. QED
    BY <1>1, <1>4, <1>10, <2>1, FurtherOK DEF f
<1>12. UNCHANGED txn /\ round' = [round EXCEPT ![t] = f]
  BY <1>1, <1>7, TookIs
<1>13. QED
  BY <1>11, <1>12, GoesOn

\* A new passkey replaces the lost one.
LEMMA rebindPasskeyKeeps ==
  ASSUME IInv, NEW t \in Txns, rebindPasskey(t)
  PROVE  IInv'
<1>1. PICK r : r = round[t]
  OBVIOUS
<1>2. /\ r # None /\ r.tx \in Transaction /\ r.tx.subject
      /\ Asks(t, "rebind") /\ TxnOK(r.tx, acct, now, guesses[t])
  BY <1>1, AtRules DEF rebindPasskey
<1>3. UNCHANGED <<job, now, result, guesses, left>>
  BY DEF rebindPasskey
<1>4. CASE /\ acct.enabled /\ Took(t, "reread", Verified(r.tx, "webauthn_create"))
           /\ acct' = [acct EXCEPT !.factors = @ \cup {"passkey"}, !.off = @ \ {"passkey"}]
  <2>1. AccountStep
    BY <1>4, Binds DEF Factors
  <2>2. PICK x : x = Verified(r.tx, "webauthn_create")
    OBVIOUS
  <2>3. TxnOK(r.tx, acct', now, guesses[t])
    BY <1>2, <2>1, Types, TxnOKGrows DEF AccountStep, AccountOK
  <2>4. /\ TxnOK(x, acct', now, guesses[t]) /\ Proves(r.tx, x) /\ x.proof = r.tx.proof
        /\ x \in Transaction
    BY <1>2, <2>2, <2>3, SubjectVerified
  <2>5. Stage(r) = rebindStage
    BY <1>1, <1>2, AskedOthers, RuleAsks
  <2>6. Took(t, "reread", x)
    BY <1>4, <2>2
  <2>7. QED
    BY <1>1, <1>2, <1>3, <2>1, <2>4, <2>5, <2>6, RereadOn
<1>5. CASE ended(t) /\ UNCHANGED acct
  BY <1>3, <1>5, Ends
<1>6. CASE Offer(t, r.tx) /\ UNCHANGED acct
  BY <1>1, <1>2, <1>3, <1>6, StoresSame
<1>7. QED
  BY <1>1, <1>4, <1>5, <1>6 DEF rebindPasskey, Waits, Writes

\* A factor or a recovery code is answered, right or wrong: what remains is that
\* the round may go on with a transaction that proved more.
LEMMA VerifyAfter ==
  ASSUME IInv, NEW t \in Txns, round[t] # None, NEW r, r = round[t], r.tx.subject,
         UNCHANGED <<job, now, result, guesses, left>>,
         NEW offered, NEW pc, verifyAfterFirstFactor(t, offered, pc),
         ASSUME NEW tx2 \in Transaction, AccountStep, Took(t, pc, tx2),
                TxnOK(tx2, acct', now, guesses[t]), Proves(r.tx, tx2), tx2.proof = r.tx.proof
         PROVE  IInv'
  PROVE  IInv'
<1>1. r.tx \in Transaction /\ TxnOK(r.tx, acct, now, guesses[t])
  BY OfRound
<1>2. CASE Offer(t, r.tx) /\ UNCHANGED acct
  BY <1>2, StoresSame
<1>3. CASE ended(t) /\ UNCHANGED acct
  BY <1>3, Ends
<1>4. ASSUME NEW step \in {"password", "passkey", "totp"}, Valid(t, step),
             Took(t, pc, Proved(r.tx, step)), UNCHANGED acct
      PROVE  IInv'
  <2>1. PICK x : x = Proved(r.tx, step)
    OBVIOUS
  <2>2. /\ x \in Transaction /\ TxnOK(x, acct, now, guesses[t]) /\ Proves(r.tx, x)
        /\ x.proof = r.tx.proof
    BY <1>1, <1>4, <2>1, ProvedOK
  <2>3. TxnOK(x, acct', now, guesses[t]) /\ AccountStep
    BY <1>4, <2>2, AccountStays
  <2>4. QED
    BY <1>4, <2>1, <2>2, <2>3
<1>5. CASE /\ acct.unused > 0 /\ acct' = [acct EXCEPT !.unused = @ - 1]
           /\ Took(t, pc, Verified(r.tx, "recovery_code"))
  <2>1. AccountStep
    BY <1>5, Redeems
  <2>2. PICK x : x = Verified(r.tx, "recovery_code")
    OBVIOUS
  <2>3. TxnOK(r.tx, acct', now, guesses[t])
    BY <1>1, <2>1, Types, TxnOKGrows DEF AccountStep, AccountOK
  <2>4. /\ TxnOK(x, acct', now, guesses[t]) /\ Proves(r.tx, x) /\ x.proof = r.tx.proof
        /\ x \in Transaction
    BY <1>1, <2>2, <2>3, SubjectVerified
  <2>5. QED
    BY <1>5, <2>1, <2>2, <2>4
<1>6. ASSUME NEW step \in {"password", "passkey", "totp"}, verifyPending(t, step, pc), UNCHANGED acct
      PROVE  IInv'
  BY <1>2, <1>3, <1>4, <1>6 DEF verifyPending
<1>7. ASSUME redeemPending(t, pc)
      PROVE  IInv'
  BY <1>2, <1>5, <1>7 DEF redeemPending
<1>8. \/ /\ r.ans \in offered \cap {"password", "passkey", "totp"}
         /\ verifyPending(t, r.ans, pc) /\ UNCHANGED acct
      \/ redeemPending(t, pc)
      \/ Offer(t, r.tx) /\ UNCHANGED acct
  BY DEF verifyAfterFirstFactor
<1>9. QED
  BY <1>2, <1>6, <1>7, <1>8

\* The loop's factor is answered.
LEMMA factorKeeps ==
  ASSUME IInv, NEW t \in Txns, factor(t)
  PROVE  IInv'
<1>1. PICK r : r = round[t]
  OBVIOUS
<1>2. r # None /\ r.tx.subject /\ Asks(t, "factor") /\ UNCHANGED <<job, now, result, guesses, left>>
  BY <1>1, AtRules DEF factor
<1>3. Stage(r) = loopStage
  BY <1>1, <1>2, AskedOthers, RuleAsks
<1>4. PICK offered : verifyAfterFirstFactor(t, offered, "reread")
  BY DEF factor
<1>5. ASSUME NEW tx2 \in Transaction, AccountStep, Took(t, "reread", tx2),
             TxnOK(tx2, acct', now, guesses[t]), Proves(r.tx, tx2), tx2.proof = r.tx.proof
      PROVE  IInv'
  BY <1>1, <1>2, <1>3, <1>5, RereadOn
<1>6. QED
  BY <1>1, <1>2, <1>4, <1>5, VerifyAfter

\* A TOTP is bound: at the loop, or once the loop was passed.
LEMMA bindTotpKeeps ==
  ASSUME IInv, NEW t \in Txns, bindTotp(t)
  PROVE  IInv'
<1>1. PICK r : r = round[t]
  OBVIOUS
<1>2. /\ r # None /\ r.tx \in Transaction /\ r.tx.subject /\ r.tx.flow # "reset" /\ r.was \in Account
      /\ Asks(t, "bindTotp") /\ TxnOK(r.tx, acct, now, guesses[t]) /\ AfterRead(r, acct)
  BY <1>1, AtRules DEF bindTotp, RoundOK
<1>3. UNCHANGED <<job, now, result, guesses, left>>
  BY DEF bindTotp
<1>4. PICK v : v = Verified(r.tx, "totp_setup")
  OBVIOUS
<1>5. PICK w : w = Verified(v, "totp")
  OBVIOUS
<1>6. PICK x : x = [w EXCEPT !.auth = now, !.setup = "none"]
  OBVIOUS
<1>7. "totp_setup" \in Steps /\ "totp" \in Steps
  BY DEF Steps
<1>8. /\ x \in Transaction /\ x.verified = r.tx.verified \cup {"totp_setup", "totp"}
      /\ x.flow = r.tx.flow /\ x.created = r.tx.created /\ x.ident = r.tx.ident
      /\ x.subject = r.tx.subject /\ x.breached = r.tx.breached /\ x.update = r.tx.update
      /\ x.proof = r.tx.proof /\ x.upstream = r.tx.upstream /\ x.code = r.tx.code
      /\ x.enrol = r.tx.enrol
  <2>0. r.tx \in Transaction /\ v = Verified(r.tx, "totp_setup") /\ "totp_setup" \in Steps
    BY <1>2, <1>4, <1>7
  <2>1. /\ v \in Transaction /\ v.verified = r.tx.verified \cup {"totp_setup"}
        /\ v.flow = r.tx.flow /\ v.created = r.tx.created /\ v.ident = r.tx.ident
        /\ v.subject = r.tx.subject /\ v.breached = r.tx.breached /\ v.update = r.tx.update
        /\ v.proof = r.tx.proof /\ v.upstream = r.tx.upstream /\ v.code = r.tx.code
        /\ v.enrol = r.tx.enrol
    BY ONLY <2>0, VerifiedIs
  <2>2. /\ w \in Transaction /\ w.verified = v.verified \cup {"totp"}
        /\ w.flow = v.flow /\ w.created = v.created /\ w.ident = v.ident
        /\ w.subject = v.subject /\ w.breached = v.breached /\ w.update = v.update
        /\ w.proof = v.proof /\ w.upstream = v.upstream /\ w.code = v.code
        /\ w.enrol = v.enrol
    BY <1>5, <1>7, <2>1, VerifiedIs
  <2>3. now \in Nat \cup {None}
    BY Types
  <2>4. x \in Transaction
    BY <1>6, <2>2, <2>3, ZenonT(60) DEF Transaction
  <2>5. /\ x.verified = w.verified
        /\ x.flow = w.flow /\ x.created = w.created /\ x.ident = w.ident
        /\ x.subject = w.subject /\ x.breached = w.breached /\ x.update = w.update
        /\ x.proof = w.proof /\ x.upstream = w.upstream /\ x.code = w.code
        /\ x.enrol = w.enrol
    BY <1>6, <2>2 DEF Transaction
  <2>6. QED
    BY <2>1, <2>2, <2>4, <2>5
<1>9. Proves(r.tx, x)
  BY <1>2, <1>8 DEF Proves
<1>10. CASE /\ acct.enabled /\ Took(t, "reread", x)
            /\ acct' = [acct EXCEPT !.factors = @ \cup {"totp"}, !.off = @ \ {"totp"}]
  <2>1. AccountStep /\ "totp" \in acct'.factors
    BY <1>10, Binds DEF Factors
  <2>2. TxnOK(r.tx, acct', now, guesses[t])
    BY <1>2, <2>1, Types, TxnOKGrows DEF AccountStep, AccountOK
  <2>3. TxnOK(x, acct', now, guesses[t])
    <3>1. Counted(x, guesses[t]) /\ Enrolments(x) /\ Unproved(x) /\ x.created <= now
      BY <1>2, <1>8, <2>2
        DEF TxnOK, Counted, provedMailbox, Enrolments, FirstProved, Beyond, enrolledTotp, Unproved
    <3>2. Subject(x, acct')
      BY <1>8, <2>2 DEF TxnOK, Subject, registersByPasskey, FirstProved, tookRecoveryCode, provedMailbox
    <3>3. Epochs(x, acct') /\ OnAccount(x, acct')
      BY <1>8, <2>1, <2>2 DEF TxnOK, Epochs, OnAccount, enrolledTotp
    <3>4. QED
      BY <1>8, <3>1, <3>2, <3>3 DEF TxnOK
  <2>4. /\ ~registersByPasskey(r.tx) /\ RuleAt(Stage(r), r.tx, r.acc) = "bindTotp"
        /\ Stage(r) \in rebindStage..completeStage
    BY <1>1, <1>2, AskedOthers
  <2>5. Stage(r) \in {loopStage, totpStage}
    BY <2>4, RuleAsks
  <2>6. ASSUME Stage(r) = totpStage
        PROVE  enrolledTotp(x) /\ Passed(x, r.was, r.was, job.mfa, totpStage)
    <3>1. Passed(r.tx, r.acc, r.was, job.mfa, totpStage)
      BY <1>1, <1>2, <2>6, Asked
    <3>2. LoopMet(r.tx, r.was, job.mfa) /\ FirstProved(r.tx) /\ UpdateMet(r.tx, r.was)
      BY <2>4, <3>1 DEF Passed
    <3>3. LoopMet(x, r.was, job.mfa)
      BY <1>2, <1>8, <3>2, LoopMetAdds
    <3>4. FirstProved(x) /\ Beyond(x) /\ UpdateMet(x, r.was) /\ enrolledTotp(x)
      BY <1>8, <3>2 DEF FirstProved, Beyond, BeyondSteps, UpdateMet, enrolledTotp
    <3>5. QED
      BY <3>3, <3>4 DEF Passed
  <2>7. QED
    BY <1>1, <1>2, <1>3, <1>8, <1>9, <1>10, <2>1, <2>3, <2>5, <2>6, RereadOn
<1>11. CASE ended(t) /\ UNCHANGED acct
  BY <1>3, <1>11, Ends
<1>12. QED
  BY <1>1, <1>4, <1>5, <1>6, <1>10, <1>11 DEF bindTotp, Writes

----------------------------------------------------------------------------
(* Reading the account *)

\* The round goes on in another place, or with the account it just read.
LEMMA MovesOn ==
  ASSUME IInv, NEW t \in Txns, round[t] # None,
         UNCHANGED <<job, now, result, guesses, left>>, AccountStep,
         NEW f, UNCHANGED txn, round' = [round EXCEPT ![t] = f],
         RoundShape(f), f.was = round[t].was, TxnOK(f.tx, acct', now, guesses[t]),
         f.pc # "epoch" /\ f.tx.subject => f.was.epoch <= f.tx.proof,
         AtPlace(f, acct', job.mfa)
  PROVE  IInv'
<1>1. /\ f.was \in Account /\ (~f.was.exists => f.was.factors = {})
      /\ Grows(f.was, acct)
  BY OfRound DEF RoundOK
<1>2. acct \in Account /\ acct' \in Account /\ Grows(acct, acct')
  BY Types DEF AccountStep, Moves, AccountOK
<1>3. Grows(f.was, acct')
  BY <1>1, <1>2, GrowsOn
<1>4. RoundOK(f, acct', now, guesses[t], job.mfa)
  BY <1>1, <1>3 DEF RoundOK
<1>5. QED
  BY <1>4, GoesOn

\* A round that read the account.
LEMMA ReadIs ==
  ASSUME NEW r, RoundShape(r), NEW pc, NEW acc
  PROVE  [r EXCEPT !.acc = acc, !.pc = pc] = Further(r, pc, r.stage, r.tx, acc, r.ans)
<1>1. PICK p, s, x, a, n, g, w :
        r = [pc |-> p, stage |-> s, tx |-> x, acc |-> a, ans |-> n, right |-> g, was |-> w]
  BY DEF RoundShape
<1>2. PICK q : q = [r EXCEPT !.acc = acc]
  OBVIOUS
<1>3. q = [pc |-> p, stage |-> s, tx |-> x, acc |-> acc, ans |-> n, right |-> g, was |-> w]
  BY ONLY <1>1, <1>2
<1>4. PICK v : v = [q EXCEPT !.pc = pc]
  OBVIOUS
<1>5. v = [pc |-> pc, stage |-> s, tx |-> x, acc |-> acc, ans |-> n, right |-> g, was |-> w]
  BY ONLY <1>3, <1>4
<1>6. r.stage = s /\ r.tx = x /\ r.ans = n /\ r.right = g /\ r.was = w
  BY ONLY <1>1
<1>7. QED
  BY ONLY <1>2, <1>4, <1>5, <1>6 DEF Further

\* What the parts of a round further on are.
LEMMA PartsOf ==
  ASSUME NEW r, NEW pc, NEW s, NEW tx, NEW acc, NEW ans, NEW f, f = Further(r, pc, s, tx, acc, ans)
  PROVE  /\ f.pc = pc /\ f.stage = s /\ f.tx = tx /\ f.acc = acc /\ f.ans = ans
         /\ f.right = r.right /\ f.was = r.was
         /\ /\ pc \in Places /\ s \in rebindStage..codesStage
            /\ pc \notin {"rules", "reread"} => s = rebindStage
            => RoundShape(f)
<1>1. /\ f.pc = pc /\ f.stage = s /\ f.tx = tx /\ f.acc = acc /\ f.ans = ans
      /\ f.right = r.right /\ f.was = r.was
  BY DEF Further
<1>2. f = [pc |-> f.pc, stage |-> f.stage, tx |-> f.tx, acc |-> f.acc, ans |-> f.ans,
           right |-> f.right, was |-> f.was]
  BY DEF Further
<1>3. QED
  BY <1>1, <1>2 DEF RoundShape

\* The account is read again and the rules go on.
LEMMA rereadKeeps ==
  ASSUME IInv, NEW t \in Txns, reread(t)
  PROVE  IInv'
<1>1. PICK r : r = round[t]
  OBVIOUS
<1>2. /\ r # None /\ r.pc = "reread" /\ RoundOK(r, acct, now, guesses[t], job.mfa)
      /\ TxnOK(r.tx, acct, now, guesses[t]) /\ r.was.epoch <= r.tx.proof
      /\ AfterRead(r, acct) /\ ~registersByPasskey(r.tx)
      /\ r.stage \in {rebindStage, loopStage} \/ (r.stage = totpStage /\ enrolledTotp(r.tx))
      /\ Passed(r.tx, r.was, r.was, job.mfa, r.stage) /\ r.was.factors \subseteq acct.factors
  BY <1>1, OfRound DEF reread, At, RoundOK, AtPlace, AfterRead, Grows
<1>3. UNCHANGED <<job, now, acct, result, guesses, left>> /\ AccountStep
  BY AccountStays DEF reread, calm
<1>4. CASE ended(t)
  BY <1>3, <1>4, Ends
<1>5. CASE round' = [round EXCEPT ![t].acc = acct, ![t].pc = "rules"] /\ UNCHANGED txn
  <2>1. PICK f : f = Further(r, "rules", r.stage, r.tx, acct, r.ans)
    OBVIOUS
  <2>2. round' = [round EXCEPT ![t] = f]
    <3>1. RoundShape(r)
      BY <1>2 DEF RoundOK
    <3>2. round' = [round EXCEPT ![t] = [r EXCEPT !.acc = acct, !.pc = "rules"]]
      BY <1>1, <1>5 DEF IInv, Functions
    <3>3. [r EXCEPT !.acc = acct, !.pc = "rules"] = f
      BY <2>1, <3>1, ReadIs
    <3>4. QED
      BY <3>2, <3>3
  <2>3. /\ f.pc = "rules" /\ f.stage = r.stage /\ f.tx = r.tx /\ f.acc = acct /\ f.was = r.was
        /\ RoundShape(f)
    <3>1. "rules" \in Places /\ r.stage \in rebindStage..codesStage
      BY <1>2 DEF Places
    <3>2. QED
      BY <2>1, <3>1, PartsOf
  <2>4. AfterRead(f, acct)
    BY <1>2, <2>3 DEF AfterRead, Remembered
  <2>5. ReadAccount(f)
    BY <1>2, <2>3, Types DEF ReadAccount, TxnOK
  <2>6. Passed(f.tx, f.acc, f.was, job.mfa, f.stage)
    <3>1. CASE r.stage \in {rebindStage, loopStage}
      BY <2>3, <3>1 DEF Passed
    <3>2. CASE r.stage = totpStage /\ enrolledTotp(r.tx)
      <4>1. Beyond(r.tx)
        BY <1>2, <3>2 DEF TxnOK, OnAccount, Beyond, BeyondSteps
      <4>2. QED
        BY <1>2, <2>3, <3>2, <4>1 DEF Passed
    <3>3. QED
      BY <1>2, <3>1, <3>2
  <2>7. AtPlace(f, acct', job.mfa)
    BY <1>3, <2>3, <2>4, <2>5, <2>6 DEF AtPlace
  <2>8. TxnOK(f.tx, acct', now, guesses[t])
    BY <1>2, <1>3, <2>3
  <2>9. QED
    BY <1>1, <1>2, <1>3, <1>5, <2>2, <2>3, <2>7, <2>8, MovesOn
<1>6. QED
  BY <1>4, <1>5 DEF reread

\* The round goes on in another place with a transaction, before its rules.
LEMMA GoesTo ==
  ASSUME IInv, NEW t \in Txns, round[t] # None, NEW r, r = round[t], r.pc \notin {"rules", "reread"},
         UNCHANGED <<job, now, result, guesses, left>>, AccountStep,
         NEW pc \in Places \ {"rules", "reread", "epoch"}, NEW tx, NEW ans,
         \/ Took(t, pc, tx) /\ ans = "look"
         \/ Go(t, pc, tx) /\ ans = r.ans,
         NEW f, f = Further(r, pc, rebindStage, tx, r.acc, ans),
         TxnOK(tx, acct', now, guesses[t]), tx.subject => r.was.epoch <= tx.proof,
         AtPlace(f, acct', job.mfa)
  PROVE  IInv'
<1>1. r.stage = rebindStage
  BY OfRound DEF RoundShape
<1>2. f.pc = pc /\ f.tx = tx /\ f.was = r.was /\ RoundShape(f)
  BY PartsOf
<1>3. UNCHANGED txn /\ round' = [round EXCEPT ![t] = f]
  <2>1. CASE Took(t, pc, tx) /\ ans = "look"
    <3>1. After(r, pc, tx) = f
      BY <1>1, <2>1 DEF After
    <3>2. QED
      BY <2>1, <3>1, TookIs
  <2>2. CASE Go(t, pc, tx) /\ ans = r.ans
    BY <1>1, <2>2, GoIs
  <2>3. QED
    BY <2>1, <2>2
<1>4. QED
  BY <1>2, <1>3, MovesOn

\* A transaction gets its subject, of the account as it is now.
Becomes(tx, tx2, a, step) ==
  /\ ~tx.subject /\ tx2.subject /\ tx2.proof = a.epoch
  /\ step \in Steps \ {"password", "totp_setup"} /\ tx2.verified = tx.verified \cup {step}
  /\ tx2.flow = tx.flow /\ tx2.created = tx.created /\ tx2.breached = tx.breached
  /\ tx2.upstream = tx.upstream /\ tx2.enrol = tx.enrol

LEMMA BecomesSubject ==
  ASSUME NEW a \in Account, NEW n, NEW g, NEW tx, TxnOK(tx, a, n, g),
         NEW tx2 \in Transaction, NEW step, Becomes(tx, tx2, a, step),
         Counted(tx2, g), Subject(tx2, a)
  PROVE  TxnOK(tx2, a, n, g)
<1>1. tx.enrol = "none" /\ ~tx.breached /\ tx.verified \subseteq {"email_code", "password_reset"}
  BY DEF TxnOK, Unproved, Becomes
<1>2. Unproved(tx2) /\ tx2.created <= n
  BY DEF TxnOK, Unproved, Becomes
<1>3. OnAccount(tx2, a) /\ Enrolments(tx2)
  BY <1>1 DEF OnAccount, Enrolments, enrolledTotp, Becomes
<1>4. Epochs(tx2, a)
  BY DEF Epochs, Account, Becomes
<1>5. QED
  BY <1>2, <1>3, <1>4 DEF TxnOK

\* A subject's transaction goes on to its rules only if no reset came in between.
LEMMA epochKeeps ==
  ASSUME IInv, NEW t \in Txns, epoch(t)
  PROVE  IInv'
<1>1. PICK r : r = round[t]
  OBVIOUS
<1>2. /\ r # None /\ r.pc = "epoch" /\ r.tx.subject /\ r.was.exists /\ r.was \in Account
      /\ TxnOK(r.tx, acct, now, guesses[t]) /\ Grows(r.was, acct) /\ r.tx \in Transaction
  BY <1>1, OfRound DEF epoch, At, RoundOK, AtPlace, TxnOK
<1>3. UNCHANGED <<job, now, acct, result, guesses, left>> /\ AccountStep
  BY AccountStays DEF epoch, calm
<1>4. CASE ended(t)
  BY <1>3, <1>4, Ends
<1>5. CASE Go(t, "name", r.tx) /\ ~resetSince(r.tx)
  <2>1. r.was.epoch <= r.tx.proof
    <3>1. r.tx.proof = acct.epoch
      BY <1>2, <1>5, Types DEF resetSince, TxnOK, Epochs, Transaction, Account
    <3>2. QED
      BY <1>2, <3>1 DEF Grows
  <2>2. PICK f : f = Further(r, "name", rebindStage, r.tx, r.acc, r.ans)
    OBVIOUS
  <2>3. f.pc = "name" /\ f.tx = r.tx /\ f.was = r.was
    BY <2>2, PartsOf
  <2>4. AtPlace(f, acct', job.mfa)
    BY <1>2, <2>3 DEF AtPlace
  <2>5. TxnOK(r.tx, acct', now, guesses[t]) /\ "name" \in Places \ {"rules", "reread", "epoch"}
    BY <1>2, <1>3 DEF Places
  <2>6. r.pc \notin {"rules", "reread"}
    BY <1>2
  <2>7. QED
    BY <1>1, <1>2, <1>3, <1>5, <2>1, <2>2, <2>4, <2>5, <2>6, GoesTo
<1>6. QED
  BY <1>1, <1>4, <1>5 DEF epoch

\* The way from the identifier is one its transaction may go.
LEMMA RoutedPlace ==
  ASSUME NEW f, f.pc = Routed(f.tx), f.tx.subject => f.was.exists, NEW a, NEW mfa
  PROVE  AtPlace(f, a, mfa) /\ f.pc \in Places \ {"rules", "reread", "epoch"}
<1>1. CASE f.tx.flow = "reset"
  BY <1>1 DEF Routed, AtPlace, Places
<1>2. CASE f.tx.flow # "reset" /\ f.tx.subject
  BY <1>2 DEF Routed, AtPlace, Places
<1>3. CASE f.tx.flow # "reset" /\ ~f.tx.subject /\ f.tx.ident = None
  BY <1>3 DEF Routed, AtPlace, Places, NoSubject, registersByPasskey
<1>4. CASE f.tx.flow # "reset" /\ ~f.tx.subject /\ f.tx.ident # None
  BY <1>4 DEF Routed, AtPlace, Places, NoSubject, Registers
<1>5. QED
  BY <1>1, <1>2, <1>3, <1>4

\* A provider's proof, the identifier, and the way from there.
LEMMA nameKeeps ==
  ASSUME IInv, NEW t \in Txns, name(t)
  PROVE  IInv'
<1>1. PICK r : r = round[t]
  OBVIOUS
<1>2. /\ r # None /\ r.pc = "name" /\ (r.tx.subject => r.was.exists) /\ r.was \in Account
      /\ TxnOK(r.tx, acct, now, guesses[t]) /\ Grows(r.was, acct) /\ r.tx \in Transaction
      /\ r.tx.subject => r.was.epoch <= r.tx.proof
  BY <1>1, OfRound DEF name, At, RoundOK, AtPlace, TxnOK
<1>3. UNCHANGED <<job, now, acct, result, guesses, left>> /\ AccountStep
  BY AccountStays DEF name, calm
<1>4. CASE Drop(t)
  BY <1>3, <1>4, Drops
<1>5. CASE ended(t)
  BY <1>3, <1>5, Ends
<1>6. ASSUME NEW tx, TxnOK(tx, acct, now, guesses[t]), tx.subject = r.tx.subject,
             tx.proof = r.tx.proof, NEW ans,
             \/ Took(t, Routed(tx), tx) /\ ans = "look"
             \/ Go(t, Routed(tx), tx) /\ ans = r.ans
      PROVE  IInv'
  <2>1. PICK f : f = Further(r, Routed(tx), rebindStage, tx, r.acc, ans)
    OBVIOUS
  <2>2. f.pc = Routed(tx) /\ f.tx = tx /\ f.was = r.was
    BY <2>1, PartsOf
  <2>3. AtPlace(f, acct', job.mfa) /\ Routed(tx) \in Places \ {"rules", "reread", "epoch"}
    BY <1>2, <1>6, <2>2, RoutedPlace
  <2>4. TxnOK(tx, acct', now, guesses[t]) /\ r.pc \notin {"rules", "reread"}
    BY <1>2, <1>3, <1>6
  <2>5. QED
    BY <1>1, <1>2, <1>3, <1>6, <2>1, <2>3, <2>4, GoesTo
<1>7. CASE /\ ~r.tx.subject /\ r.tx.ident = None /\ r.tx.upstream /\ acct.enabled
           /\ Took(t, "read", [Verified(r.tx, "upstream") EXCEPT
                                 !.subject = TRUE, !.auth = now, !.proof = acct.epoch])
  <2>1. PICK v : v = Verified(r.tx, "upstream")
    OBVIOUS
  <2>2. PICK x : x = [v EXCEPT !.subject = TRUE, !.auth = now, !.proof = acct.epoch]
    OBVIOUS
  <2>3. r.tx \in Transaction /\ "upstream" \in Steps /\ v = Verified(r.tx, "upstream")
    BY <1>2, <2>1 DEF Steps
  <2>4. /\ v \in Transaction /\ v.verified = r.tx.verified \cup {"upstream"}
        /\ v.flow = r.tx.flow /\ v.created = r.tx.created /\ v.ident = r.tx.ident
        /\ v.subject = r.tx.subject /\ v.breached = r.tx.breached /\ v.update = r.tx.update
        /\ v.proof = r.tx.proof /\ v.upstream = r.tx.upstream /\ v.code = r.tx.code
        /\ v.enrol = r.tx.enrol
    BY ONLY <2>3, VerifiedIs
  <2>5. now \in Nat \cup {None} /\ acct.epoch \in Nat /\ TRUE \in BOOLEAN /\ acct \in Account
    BY Types DEF Account
  <2>6. x \in Transaction
    BY <2>2, <2>4, <2>5, ZenonT(60) DEF Transaction
  <2>7. /\ x.verified = v.verified /\ x.flow = v.flow /\ x.created = v.created
        /\ x.subject = TRUE /\ x.breached = v.breached /\ x.update = v.update
        /\ x.proof = acct.epoch /\ x.upstream = v.upstream /\ x.code = v.code
        /\ x.enrol = v.enrol
    BY <2>2, <2>4 DEF Transaction
  <2>8. acct.exists /\ r.tx.flow = "none"
    BY <1>2, <1>7, Types DEF AccountOK, TxnOK, Unproved
  <2>9. Subject(x, acct)
    BY <2>4, <2>7, <2>8 DEF Subject, FirstProved, FirstSteps
  <2>10. Counted(x, guesses[t])
    BY <1>2, <2>4, <2>7 DEF TxnOK, Counted, provedMailbox
  <2>11. Becomes(r.tx, x, acct, "upstream")
    BY <1>7, <2>3, <2>4, <2>7 DEF Becomes
  <2>12. TxnOK(x, acct, now, guesses[t])
    BY <1>2, <2>5, <2>6, <2>9, <2>10, <2>11, BecomesSubject
  <2>13. PICK f : f = Further(r, "read", rebindStage, x, r.acc, "look")
    OBVIOUS
  <2>14. f.pc = "read" /\ f.tx = x
    BY <2>13, PartsOf
  <2>15. AtPlace(f, acct', job.mfa) /\ "read" \in Places \ {"rules", "reread", "epoch"}
    BY <2>4, <2>7, <2>8, <2>14 DEF AtPlace, Places
  <2>16. TxnOK(x, acct', now, guesses[t]) /\ r.pc \notin {"rules", "reread"}
         /\ r.was.epoch <= x.proof
    BY <1>2, <1>3, <2>7, <2>12 DEF Grows
  <2>17. Took(t, "read", x)
    BY <1>7, <2>1, <2>2
  <2>18. QED
    BY <1>1, <1>2, <1>3, <2>13, <2>15, <2>16, <2>17, GoesTo
<1>8. CASE Took(t, Routed(r.tx), r.tx) \/ Go(t, Routed(r.tx), r.tx)
  BY <1>2, <1>6, <1>8
<1>9. ASSUME NEW i \in {"own", "other"}, ~r.tx.subject,
             NEW x, x = [r.tx EXCEPT !.ident = i], Took(t, Routed(x), x)
      PROVE  IInv'
  <2>1. x \in Transaction
    BY <1>2, <1>9, ZenonT(60) DEF Transaction
  <2>2. /\ x.verified = r.tx.verified /\ x.flow = r.tx.flow /\ x.created = r.tx.created
        /\ x.subject = r.tx.subject /\ x.breached = r.tx.breached /\ x.update = r.tx.update
        /\ x.proof = r.tx.proof /\ x.upstream = r.tx.upstream /\ x.code = r.tx.code
        /\ x.enrol = r.tx.enrol
    BY <1>2, <1>9 DEF Transaction
  <2>3. TxnOK(x, acct, now, guesses[t])
    BY <1>2, <1>9, <2>1, <2>2 DEF TxnOK, Counted, Unproved, Subject, Epochs, OnAccount, Enrolments,
         provedMailbox, enrolledTotp, FirstProved, Beyond
  <2>4. QED
    BY <1>6, <1>9, <2>2, <2>3
<1>10. QED
  BY <1>1, <1>4, <1>5, <1>7, <1>8, <1>9 DEF name

\* The account is read, and a required update remembered.
LEMMA readKeeps ==
  ASSUME IInv, NEW t \in Txns, read(t)
  PROVE  IInv'
<1>1. PICK r : r = round[t]
  OBVIOUS
<1>2. /\ r # None /\ r.pc = "read" /\ r.tx.subject /\ r.tx.flow # "reset" /\ r.was \in Account
      /\ TxnOK(r.tx, acct, now, guesses[t]) /\ Grows(r.was, acct) /\ r.tx \in Transaction
      /\ r.was.epoch <= r.tx.proof /\ r.stage = rebindStage /\ RoundShape(r)
  BY <1>1, OfRound DEF read, At, RoundOK, AtPlace, TxnOK, RoundShape
<1>3. UNCHANGED <<job, now, acct, result, guesses, left>> /\ AccountStep
  BY AccountStays DEF read, calm
<1>4. CASE ended(t)
  BY <1>3, <1>4, Ends
<1>5. PICK u : u = (r.tx.update \/ (acct.must /\ "new_password" \notin r.tx.verified))
  OBVIOUS
<1>6. PICK y : y = [r.tx EXCEPT !.update = u]
  OBVIOUS
<1>7. u \in BOOLEAN
  BY <1>2, <1>5 DEF Transaction
<1>8. y \in Transaction
  BY <1>2, <1>6, <1>7, ZenonT(60) DEF Transaction
<1>9. /\ y.verified = r.tx.verified /\ y.flow = r.tx.flow /\ y.created = r.tx.created
      /\ y.subject = r.tx.subject /\ y.breached = r.tx.breached /\ y.update = u
      /\ y.proof = r.tx.proof /\ y.upstream = r.tx.upstream /\ y.code = r.tx.code
      /\ y.enrol = r.tx.enrol /\ y.ident = r.tx.ident
  BY <1>2, <1>6 DEF Transaction
<1>10. TxnOK(y, acct, now, guesses[t])
  <2>1. /\ Counted(y, guesses[t]) /\ Unproved(y) /\ Epochs(y, acct) /\ OnAccount(y, acct)
        /\ Enrolments(y) /\ y.created <= now
    BY <1>2, <1>9 DEF TxnOK, Counted, Unproved, Epochs, OnAccount, Enrolments,
       provedMailbox, enrolledTotp, FirstProved, Beyond
  <2>2. Subject(y, acct)
    BY <1>2, <1>9 DEF TxnOK, Subject, FirstProved, tookRecoveryCode, provedMailbox, registersByPasskey
  <2>3. QED
    BY <1>8, <2>1, <2>2 DEF TxnOK
<1>11. CASE acct.enabled
  <2>1. PICK x : x = IF registersByPasskey(y) THEN r.tx ELSE y
    OBVIOUS
  <2>2. TxnOK(x, acct, now, guesses[t]) /\ x.subject /\ x.flow # "reset" /\ x.proof = r.tx.proof
    BY <1>2, <1>9, <1>10, <2>1
  <2>3. ~registersByPasskey(x) => x.update = u /\ x.verified = r.tx.verified
    BY <1>9, <2>1 DEF registersByPasskey
  <2>4. PICK pc \in {"mark", "rules"} :
          round' = [round EXCEPT ![t].acc = acct, ![t].pc = pc,
                                 ![t].tx = IF registersByPasskey(y) THEN @ ELSE y]
    <3>1. y = [round[t].tx EXCEPT !.update = @ \/ (acct.must /\ "new_password" \notin round[t].tx.verified)]
      BY <1>1, <1>5, <1>6
    <3>2. PICK m : m = (y.flow = "register" /\ y.ident # None /\ ~acct.verified /\ provedMailbox(y))
      OBVIOUS
    <3>3. round' = [round EXCEPT ![t].acc = acct, ![t].pc = IF m THEN "mark" ELSE "rules",
                                 ![t].tx = IF registersByPasskey(y) THEN @ ELSE y]
      BY <1>11, <3>1, <3>2, Zenon DEF read
    <3>4. CASE m
      BY <3>3, <3>4
    <3>5. CASE ~m
      BY <3>3, <3>5
    <3>6. QED
      BY <3>4, <3>5
  <2>5. PICK f : f = Further(r, pc, r.stage, x, acct, r.ans)
    OBVIOUS
  <2>6. round' = [round EXCEPT ![t] = f]
    <3>1. PICK q : q = [r EXCEPT !.acc = acct, !.pc = pc]
      OBVIOUS
    <3>2. q = Further(r, pc, r.stage, r.tx, acct, r.ans)
      BY <1>2, <3>1, ReadIs
    <3>3. [q EXCEPT !.tx = IF registersByPasskey(y) THEN @ ELSE y] = f
      BY ONLY <2>1, <2>5, <3>2 DEF Further
    <3>4. round' = [round EXCEPT ![t] = [q EXCEPT !.tx = IF registersByPasskey(y) THEN @ ELSE y]]
      BY <1>1, <2>4, <3>1 DEF IInv, Functions
    <3>5. QED
      BY <3>3, <3>4
  <2>7. f.pc = pc /\ f.stage = rebindStage /\ f.tx = x /\ f.acc = acct /\ f.was = r.was /\ RoundShape(f)
    <3>1. pc \in Places
      BY DEF Places
    <3>2. QED
      BY <1>2, <2>5, <3>1, PartsOf
  <2>8. AfterRead(f, acct)
    BY <1>2, <1>5, <1>11, <2>2, <2>3, <2>7 DEF AfterRead, Remembered, Grows
  <2>9. ReadAccount(f)
    BY <1>2, <2>2, <2>7, Types DEF ReadAccount, TxnOK, Grows
  <2>10. Passed(f.tx, f.acc, f.was, job.mfa, f.stage)
    BY <2>7 DEF Passed
  <2>11. AtPlace(f, acct', job.mfa)
    BY <1>3, <2>7, <2>8, <2>9, <2>10 DEF AtPlace
  <2>12. UNCHANGED txn
    BY <1>11 DEF read
  <2>13. TxnOK(f.tx, acct', now, guesses[t]) /\ f.was.epoch <= f.tx.proof
    BY <1>2, <1>3, <2>2, <2>7
  <2>14. QED
    BY <1>1, <1>2, <1>3, <2>6, <2>7, <2>11, <2>12, <2>13, MovesOn
<1>12. QED
  BY <1>4, <1>11 DEF read

\* The mailbox of a registration that signs in instead is marked verified.
LEMMA markKeeps ==
  ASSUME IInv, NEW t \in Txns, mark(t)
  PROVE  IInv'
<1>1. PICK r : r = round[t]
  OBVIOUS
<1>2. /\ r # None /\ r.pc = "mark" /\ AfterRead(r, acct) /\ ReadAccount(r) /\ r.was \in Account
      /\ RoundOK(r, acct, now, guesses[t], job.mfa)
      /\ r.was.epoch <= r.tx.proof /\ r.stage = rebindStage /\ RoundShape(r)
  BY <1>1, OfRound DEF mark, At, RoundOK, AtPlace, AfterRead, RoundShape
<1>3. UNCHANGED <<job, now, result, guesses, left>>
  BY DEF mark
<1>4. CASE ended(t) /\ UNCHANGED acct
  BY <1>3, <1>4, Ends
<1>5. CASE /\ acct' = [acct EXCEPT !.verified = TRUE] /\ UNCHANGED txn
           /\ round' = [round EXCEPT ![t].acc.verified = TRUE, ![t].pc = "rules"]
  <2>1. AccountStep
    BY <1>5, MarksVerified
  <2>2. acct \in Account /\ acct' \in Account /\ now \in Nat /\ now <= now /\ Moves(acct, acct', now)
    BY <2>1, Types DEF AccountStep, AccountOK
  <2>3. RoundOK(r, acct', now, guesses[t], job.mfa)
    BY <1>2, <2>2, RoundOKGrows
  <2>4. AfterRead(r, acct') /\ TxnOK(r.tx, acct', now, guesses[t])
    BY <1>2, <2>3 DEF RoundOK, AtPlace
  <2>5. PICK a : a = [r.acc EXCEPT !.verified = TRUE]
    OBVIOUS
  <2>6. a \in Account /\ a.factors = r.acc.factors /\ a.exists = r.acc.exists
    BY <1>2, <2>5 DEF ReadAccount, Account
  <2>7. PICK f : f = Further(r, "rules", r.stage, r.tx, a, r.ans)
    OBVIOUS
  <2>8. round' = [round EXCEPT ![t] = f]
    <3>1. round' = [round EXCEPT ![t] = [r EXCEPT !.acc = a, !.pc = "rules"]]
      BY <1>1, <1>5, <2>5 DEF IInv, Functions
    <3>2. QED
      BY <1>2, <2>7, <3>1, ReadIs
  <2>9. /\ f.pc = "rules" /\ f.stage = rebindStage /\ f.tx = r.tx /\ f.acc = a /\ f.was = r.was
        /\ RoundShape(f)
    <3>1. "rules" \in Places
      BY DEF Places
    <3>2. QED
      BY <1>2, <2>7, <3>1, PartsOf
  <2>10. AfterRead(f, acct')
    BY <2>4, <2>9 DEF AfterRead, Remembered
  <2>11. ReadAccount(f)
    BY <1>2, <2>6, <2>9 DEF ReadAccount, Subject, OnAccount
  <2>12. Passed(f.tx, f.acc, f.was, job.mfa, f.stage)
    BY <2>9 DEF Passed
  <2>13. AtPlace(f, acct', job.mfa)
    BY <2>9, <2>10, <2>11, <2>12 DEF AtPlace
  <2>14. TxnOK(f.tx, acct', now, guesses[t]) /\ f.was.epoch <= f.tx.proof
    BY <1>2, <2>4, <2>9
  <2>15. QED
    BY <1>1, <1>2, <1>3, <1>5, <2>1, <2>8, <2>9, <2>13, <2>14, MovesOn
<1>6. QED
  BY <1>4, <1>5 DEF mark

----------------------------------------------------------------------------
(* Password reset *)

\* What is known of a round in a reset, at any of its places.
LEMMA OfPlace ==
  ASSUME IInv, NEW t \in Txns, NEW pc, pc \notin {"epoch", "rules", "reread"}, At(t, pc),
         NEW r, r = round[t]
  PROVE  /\ r # None /\ r.pc = pc /\ AtPlace(r, acct, job.mfa) /\ r.was \in Account
         /\ TxnOK(r.tx, acct, now, guesses[t]) /\ Grows(r.was, acct) /\ r.tx \in Transaction
         /\ r.tx.subject => r.was.epoch <= r.tx.proof
         /\ r.stage = rebindStage /\ RoundShape(r) /\ acct \in Account
         /\ Counted(r.tx, guesses[t]) /\ Unproved(r.tx) /\ Enrolments(r.tx)
  BY OfRound, Types DEF At, RoundOK, RoundShape, TxnOK

\* The account of a reset is read, before the factor and after it.
LEMMA resetReadKeeps ==
  ASSUME IInv, NEW t \in Txns, resetRead(t)
  PROVE  IInv'
<1>1. PICK r : r = round[t]
  OBVIOUS
<1>2. /\ r # None /\ r.pc = "resetRead" /\ InReset(r) /\ r.was \in Account
      /\ TxnOK(r.tx, acct, now, guesses[t]) /\ Grows(r.was, acct)
      /\ r.was.epoch <= r.tx.proof /\ r.stage = rebindStage /\ RoundShape(r)
  BY <1>1, OfPlace DEF resetRead, AtPlace, InReset
<1>3. UNCHANGED <<job, now, acct, result, guesses, left>> /\ AccountStep
  BY AccountStays DEF resetRead, calm
<1>4. CASE ended(t)
  BY <1>3, <1>4, Ends
<1>5. ASSUME NEW pc \in {"resetFactor", "resetPassword"}, acct.enabled, UNCHANGED txn,
             round' = [round EXCEPT ![t].acc = acct, ![t].pc = pc],
             pc = "resetPassword" => ~resetNeedsFactor(r.tx, acct)
      PROVE  IInv'
  <2>1. PICK f : f = Further(r, pc, r.stage, r.tx, acct, r.ans)
    OBVIOUS
  <2>2. round' = [round EXCEPT ![t] = f]
    <3>1. round' = [round EXCEPT ![t] = [r EXCEPT !.acc = acct, !.pc = pc]]
      BY <1>1, <1>5 DEF IInv, Functions
    <3>2. [r EXCEPT !.acc = acct, !.pc = pc] = f
      BY <1>2, <2>1, ReadIs
    <3>3. QED
      BY <3>1, <3>2
  <2>3. f.pc = pc /\ f.tx = r.tx /\ f.was = r.was /\ f.ans = r.ans /\ RoundShape(f)
    <3>1. pc \in Places
      BY DEF Places
    <3>2. QED
      BY <1>2, <2>1, <3>1, PartsOf
  <2>4. InReset(f)
    BY <1>2, <2>3 DEF InReset
  <2>5. pc = "resetPassword" => /\ f.was.exists => f.was.enabled
                                /\ boundBeyondPassword(f.was) => metBeyondPassword(f.tx)
    BY <1>2, <1>5, <2>3 DEF Grows, resetNeedsFactor, boundBeyondPassword
  <2>6. AtPlace(f, acct', job.mfa)
    BY <2>3, <2>4, <2>5 DEF AtPlace
  <2>7. TxnOK(f.tx, acct', now, guesses[t]) /\ f.was.epoch <= f.tx.proof
    BY <1>2, <1>3, <2>3
  <2>8. QED
    BY <1>1, <1>2, <1>3, <1>5, <2>2, <2>3, <2>6, <2>7, MovesOn
<1>6. CASE acct.enabled
  <2>1. CASE resetNeedsFactor(r.tx, acct)
    BY <1>1, <1>5, <1>6, <2>1 DEF resetRead
  <2>2. CASE ~resetNeedsFactor(r.tx, acct)
    BY <1>1, <1>5, <1>6, <2>2 DEF resetRead
  <2>3. QED
    BY <2>1, <2>2
<1>7. QED
  BY <1>4, <1>6 DEF resetRead

\* The reset's factor is answered.
LEMMA resetFactorKeeps ==
  ASSUME IInv, NEW t \in Txns, resetFactor(t)
  PROVE  IInv'
<1>1. PICK r : r = round[t]
  OBVIOUS
<1>2. /\ r # None /\ r.pc = "resetFactor" /\ r.tx.subject /\ r.tx.flow = "reset"
      /\ r.was.epoch <= r.tx.proof
  BY <1>1, OfPlace DEF resetFactor, AtPlace, InReset
<1>3. UNCHANGED <<job, now, result, guesses, left>>
  BY DEF resetFactor
<1>4. CASE Drop(t) /\ UNCHANGED acct
  BY <1>3, <1>4, Drops
<1>5. ASSUME NEW tx2 \in Transaction, AccountStep, Took(t, "resetRead", tx2),
             TxnOK(tx2, acct', now, guesses[t]), Proves(r.tx, tx2), tx2.proof = r.tx.proof
      PROVE  IInv'
  <2>1. PICK f : f = Further(r, "resetRead", rebindStage, tx2, r.acc, "look")
    OBVIOUS
  <2>2. f.pc = "resetRead" /\ f.tx = tx2 /\ f.ans = "look"
    BY <2>1, PartsOf
  <2>3. AtPlace(f, acct', job.mfa)
    BY <1>2, <1>5, <2>2 DEF AtPlace, InReset, Proves
  <2>4. "resetRead" \in Places \ {"rules", "reread", "epoch"} /\ r.pc \notin {"rules", "reread"}
    BY <1>2 DEF Places
  <2>5. QED
    BY <1>1, <1>2, <1>3, <1>5, <2>1, <2>3, <2>4, GoesTo
<1>6. ASSUME NEW offered, verifyAfterFirstFactor(t, offered, "resetRead")
      PROVE  IInv'
  BY <1>1, <1>2, <1>3, <1>5, <1>6, VerifyAfter
<1>7. QED
  BY <1>4, <1>6 DEF resetFactor

\* The password is reset, or asked for again.
LEMMA resetPasswordKeeps ==
  ASSUME IInv, NEW t \in Txns, resetPassword(t)
  PROVE  IInv'
<1>1. PICK r : r = round[t]
  OBVIOUS
<1>2. /\ r # None /\ InReset(r) /\ (r.was.exists => r.was.enabled) /\ r.tx \in Transaction
      /\ boundBeyondPassword(r.was) => metBeyondPassword(r.tx)
      /\ r.tx.flow = "reset" /\ r.tx.enrol = "none" /\ ~enrolledTotp(r.tx)
  BY <1>1, OfPlace DEF resetPassword, AtPlace, InReset, Enrolments
<1>3. UNCHANGED <<job, now, guesses, left>>
  BY DEF resetPassword
<1>4. CASE Offer(t, r.tx) /\ UNCHANGED <<acct, result>>
  BY <1>1, <1>2, <1>3, <1>4, StoresSame
<1>5. CASE ended(t) /\ UNCHANGED <<acct, result>>
  BY <1>3, <1>5, Ends
<1>6. CASE /\ Answered(t, "new_password") /\ Complete(t, "recovered", Verified(r.tx, "new_password"))
           /\ acct' = [acct EXCEPT !.pw = @ + 1, !.must = FALSE, !.verified = TRUE,
                                   !.off = @ \ {"password"}, !.epoch = now]
  <2>1. AccountStep
    BY <1>6, Resets
  <2>2. PICK x : x = Verified(r.tx, "new_password")
    OBVIOUS
  <2>3. r.tx \in Transaction /\ "new_password" \in Steps /\ x = Verified(r.tx, "new_password")
    BY <1>2, <2>2 DEF Steps
  <2>4. /\ x.verified = r.tx.verified \cup {"new_password"} /\ x.flow = r.tx.flow
        /\ x.enrol = r.tx.enrol
    BY ONLY <2>3, VerifiedIs
  <2>5. PICK res : res = [kind |-> "recovered", tx |-> x, was |-> r.was, acc |-> acct']
    OBVIOUS
  <2>6. res.kind = "recovered" /\ res.tx = x /\ res.was = r.was /\ res.acc = acct'
    BY <2>5
  <2>7. r.was.exists
    BY <1>1, <1>2, <1>6 DEF InReset, Answered
  <2>8. boundBeyondPassword(r.was) => metBeyondPassword(x)
    BY <1>2, <2>4 DEF metBeyondPassword, provedBeyondPassword, tookRecoveryCode
  <2>9. x.enrol # "bound" /\ ~enrolledTotp(x) /\ ~registersByPasskey(x)
    BY <1>2, <2>4 DEF enrolledTotp, registersByPasskey
  <2>10. ResultOK(res, job.mfa)
    BY <1>2, <2>6, <2>7, <2>8, <2>9 DEF ResultOK
  <2>11. Complete(t, "recovered", x)
    BY <1>6, <2>2
  <2>12. QED
    BY <1>1, <1>3, <2>1, <2>5, <2>10, <2>11, Completes
<1>7. QED
  BY <1>1, <1>4, <1>5, <1>6 DEF resetPassword

\* The mailbox of a reset is proved, and with it the subject.
LEMMA recoverKeeps ==
  ASSUME IInv, NEW t \in Txns, recover(t)
  PROVE  IInv'
<1>1. PICK r : r = round[t]
  OBVIOUS
<1>2. PICK y : y = IF r.tx.ident = None THEN r.tx ELSE Verified(r.tx, "password_reset")
  OBVIOUS
<1>3. PICK refuses : refuses = (~Named(y) \/ ~resettable)
  OBVIOUS
<1>4. /\ r # None /\ r.pc = "recover" /\ r.tx.flow = "reset" /\ (r.tx.subject => r.was.exists)
      /\ TxnOK(r.tx, acct, now, guesses[t]) /\ r.tx \in Transaction /\ Grows(r.was, acct)
      /\ r.tx.subject => r.was.epoch <= r.tx.proof
      /\ Counted(r.tx, guesses[t]) /\ Unproved(r.tx) /\ Enrolments(r.tx) /\ acct \in Account
  BY <1>1, OfPlace DEF recover, AtPlace
<1>5. /\ y \in Transaction /\ TxnOK(y, acct, now, guesses[t]) /\ y.flow = "reset"
      /\ y.subject = r.tx.subject /\ y.proof = r.tx.proof /\ y.ident = r.tx.ident
      /\ y.code = r.tx.code
  <2>1. CASE r.tx.ident = None
    BY <1>2, <1>4, <2>1
  <2>2. CASE r.tx.ident # None
    <3>1. y = Verified(r.tx, "password_reset") /\ "password_reset" \in Steps
      BY <1>2, <2>2 DEF Steps
    <3>2. /\ y \in Transaction /\ Adds(r.tx, y) /\ y.enrol = r.tx.enrol /\ y.code = r.tx.code
          /\ y.verified = r.tx.verified \cup {"password_reset"} /\ Counted(y, guesses[t])
          /\ Enrolments(y)
      BY <1>4, <3>1, VerifiedAdds
    <3>3. TxnOK(y, acct, now, guesses[t])
      BY <1>4, <3>2, TxnAdds
    <3>4. QED
      BY <1>4, <3>2, <3>3 DEF Adds
  <2>3. QED
    BY <2>1, <2>2
<1>6. CASE r.tx.ident = None /\ Offer(t, r.tx) /\ calm
  BY <1>1, <1>4, <1>6, StoresSame DEF calm
<1>7. ASSUME calm
      PROVE  UNCHANGED <<job, now, acct, result, guesses, left>> /\ AccountStep
  BY <1>7, AccountStays DEF calm
<1>8. CASE Go(t, "recover", y) /\ calm
  <2>1. PICK f : f = Further(r, "recover", rebindStage, y, r.acc, r.ans)
    OBVIOUS
  <2>2. f.pc = "recover" /\ f.tx = y /\ f.was = r.was
    BY <2>1, PartsOf
  <2>3. AtPlace(f, acct', job.mfa)
    BY <1>4, <1>5, <2>2 DEF AtPlace
  <2>4. "recover" \in Places \ {"rules", "reread", "epoch"} /\ r.pc \notin {"rules", "reread"}
        /\ TxnOK(y, acct', now, guesses[t]) /\ (y.subject => r.was.epoch <= y.proof)
    BY <1>4, <1>5, <1>7, <1>8 DEF Places
  <2>5. QED
    BY <1>1, <1>4, <1>7, <1>8, <2>1, <2>3, <2>4, GoesTo
<1>9. CASE ~r.tx.subject /\ codeRound(t, refuses)
  <2>1. ~provedMailbox(r.tx)
    BY <1>4, <1>9 DEF Unproved
  <2>2. QED
    BY <1>1, <1>4, <1>9, <2>1, CodeRoundKeeps
<1>10. CASE /\ ~y.subject /\ y.ident # None /\ CodeOutcome(t, refuses) = "taken" /\ calm
            /\ Took(t, "resetRead", [codeTaken(y) EXCEPT !.subject = TRUE, !.proof = acct.epoch])
  <2>1. PICK v : v = codeTaken(y)
    OBVIOUS
  <2>2. PICK x : x = [v EXCEPT !.subject = TRUE, !.proof = acct.epoch]
    OBVIOUS
  <2>3. /\ v \in Transaction /\ v.verified = y.verified \cup {"email_code"}
        /\ Adds(y, v) /\ v.enrol = y.enrol /\ provedMailbox(v)
    BY <1>5, <2>1, CodeTakenIs
  <2>4. acct.epoch \in Nat /\ TRUE \in BOOLEAN
    BY <1>4 DEF Account
  <2>5. x \in Transaction
    BY <2>2, <2>3, <2>4, ZenonT(60) DEF Transaction
  <2>6. /\ x.verified = v.verified /\ x.flow = v.flow /\ x.created = v.created
        /\ x.subject = TRUE /\ x.breached = v.breached /\ x.update = v.update
        /\ x.proof = acct.epoch /\ x.upstream = v.upstream /\ x.code = v.code
        /\ x.enrol = v.enrol /\ x.ident = v.ident
    BY <2>2, <2>3 DEF Transaction
  <2>7. ~refuses
    BY <1>10 DEF CodeOutcome
  <2>8. acct.exists
    BY <1>3, <2>7 DEF Named
  <2>9. Subject(x, acct)
    BY <1>5, <1>10, <2>3, <2>6, <2>8 DEF Subject, Adds, provedMailbox
  <2>10. Counted(x, guesses[t])
    <3>1. Counted(v, guesses[t])
      BY <1>5, <2>1, CodeTakenIs
    <3>2. QED
      BY <2>6, <3>1 DEF Counted, provedMailbox
  <2>11. Becomes(y, x, acct, "email_code")
    BY <1>10, <2>3, <2>6 DEF Becomes, Adds, Steps
  <2>12. TxnOK(x, acct, now, guesses[t])
    BY <1>4, <1>5, <2>5, <2>9, <2>10, <2>11, BecomesSubject
  <2>13. PICK f : f = Further(r, "resetRead", rebindStage, x, r.acc, "look")
    OBVIOUS
  <2>14. f.pc = "resetRead" /\ f.tx = x /\ f.ans = "look"
    BY <2>13, PartsOf
  <2>15. AtPlace(f, acct', job.mfa)
    BY <1>5, <2>3, <2>6, <2>14 DEF AtPlace, InReset, Adds
  <2>16. "resetRead" \in Places \ {"rules", "reread", "epoch"} /\ r.pc \notin {"rules", "reread"}
         /\ TxnOK(x, acct', now, guesses[t]) /\ r.was.epoch <= x.proof
    BY <1>4, <1>7, <1>10, <2>6, <2>12 DEF Places, Grows
  <2>17. Took(t, "resetRead", x)
    BY <1>10, <2>1, <2>2
  <2>18. QED
    BY <1>1, <1>4, <1>7, <1>10, <2>13, <2>15, <2>16, <2>17, GoesTo
<1>11. CASE y.subject /\ Go(t, "resetRead", y) /\ calm
  <2>1. PICK f : f = Further(r, "resetRead", rebindStage, y, r.acc, r.ans)
    OBVIOUS
  <2>2. f.pc = "resetRead" /\ f.tx = y /\ f.was = r.was
    BY <2>1, PartsOf
  <2>3. AtPlace(f, acct', job.mfa)
    BY <1>4, <1>5, <1>11, <2>2 DEF AtPlace, InReset
  <2>4. "resetRead" \in Places \ {"rules", "reread", "epoch"} /\ r.pc \notin {"rules", "reread"}
        /\ TxnOK(y, acct', now, guesses[t]) /\ r.was.epoch <= y.proof
    BY <1>4, <1>5, <1>7, <1>11 DEF Places
  <2>5. QED
    BY <1>1, <1>4, <1>7, <1>11, <2>1, <2>3, <2>4, GoesTo
<1>12. QED
  <2>1. y = IF round[t].tx.ident = None THEN round[t].tx ELSE Verified(round[t].tx, "password_reset")
    BY <1>1, <1>2
  <2>2. \/ y.ident = None /\ Offer(t, y) /\ calm
        \/ y # r.tx /\ Go(t, "recover", y) /\ calm
        \/ y = r.tx /\ y.ident # None /\ ~y.subject /\ codeRound(t, refuses)
        \/ /\ ~y.subject /\ y.ident # None /\ CodeOutcome(t, refuses) = "taken" /\ calm
           /\ Took(t, "resetRead", [codeTaken(y) EXCEPT !.subject = TRUE, !.proof = acct.epoch])
        \/ y.subject /\ Go(t, "resetRead", y) /\ calm
    BY <1>1, <1>3, <2>1, Zenon DEF recover
  <2>3. r.tx.ident = None => y = r.tx
    BY <1>2
  <2>4. QED
    BY <1>5, <1>6, <1>8, <1>9, <1>10, <1>11, <2>2, <2>3

----------------------------------------------------------------------------
(* Before there is a subject *)

\* A factor is the first that is proved: of the account as it is now.
LEMMA PendingFirst ==
  ASSUME IInv, NEW t \in Txns, NEW pc \in {"discover", "first"}, At(t, pc),
         NEW step \in {"password", "passkey"}, verifyPending(t, step, "read"),
         UNCHANGED <<job, now, acct, result, guesses, left>>
  PROVE  IInv'
<1>1. PICK r : r = round[t]
  OBVIOUS
<1>2. /\ r # None /\ r.pc = pc /\ NoSubject(r) /\ TxnOK(r.tx, acct, now, guesses[t])
      /\ r.tx \in Transaction /\ Grows(r.was, acct)
  BY <1>1, OfPlace DEF AtPlace
<1>3. AccountStep
  BY AccountStays
<1>4. CASE Offer(t, r.tx)
  BY <1>1, <1>2, <1>4, StoresSame
<1>5. CASE ended(t)
  BY <1>5, Ends
<1>6. CASE Valid(t, step) /\ Took(t, "read", Proved(r.tx, step))
  <2>1. PICK x : x = Proved(r.tx, step)
    OBVIOUS
  <2>2. /\ x \in Transaction /\ TxnOK(x, acct, now, guesses[t]) /\ Proves(r.tx, x)
        /\ x.proof = acct.epoch
    BY <1>1, <1>2, <1>6, <2>1, ProvedOK DEF NoSubject
  <2>3. PICK f : f = Further(r, "read", rebindStage, x, r.acc, "look")
    OBVIOUS
  <2>4. f.pc = "read" /\ f.tx = x
    BY <2>3, PartsOf
  <2>5. AtPlace(f, acct', job.mfa)
    BY <1>2, <2>2, <2>4 DEF AtPlace, Proves, NoSubject
  <2>6. "read" \in Places \ {"rules", "reread", "epoch"} /\ r.pc \notin {"rules", "reread"}
        /\ TxnOK(x, acct', now, guesses[t]) /\ r.was.epoch <= x.proof
    BY <1>2, <2>2 DEF Places, Grows
  <2>7. Took(t, "read", x)
    BY <1>6, <2>1
  <2>8. QED
    BY <1>1, <1>2, <1>3, <2>3, <2>5, <2>6, <2>7, GoesTo
<1>7. QED
  BY <1>1, <1>4, <1>5, <1>6 DEF verifyPending

\* An identifier and no account yet.
LEMMA firstKeeps ==
  ASSUME IInv, NEW t \in Txns, first(t)
  PROVE  IInv'
<1>1. PICK r : r = round[t]
  OBVIOUS
<1>2. /\ r # None /\ r.pc = "first" /\ NoSubject(r) /\ TxnOK(r.tx, acct, now, guesses[t])
      /\ r.tx \in Transaction /\ At(t, "first")
      /\ Counted(r.tx, guesses[t]) /\ Unproved(r.tx)
  BY <1>1, OfPlace DEF AtPlace, first
<1>3. UNCHANGED <<job, now, acct, result, guesses, left>> /\ AccountStep
  BY AccountStays DEF first, calm
<1>4. CASE Offer(t, r.tx)
  BY <1>1, <1>2, <1>3, <1>4, StoresSame
<1>5. CASE r.ans \in {"password", "passkey"} /\ verifyPending(t, r.ans, "read")
  BY <1>2, <1>3, <1>5, PendingFirst
<1>6. CASE /\ r.tx.flow = "none"
           /\ Took(t, "recover", [r.tx EXCEPT !.flow = "reset", !.upstream = FALSE])
  <2>1. PICK x : x = [r.tx EXCEPT !.flow = "reset", !.upstream = FALSE]
    OBVIOUS
  <2>2. x \in Transaction
    BY <1>2, <2>1, ZenonT(60) DEF Transaction
  <2>3. /\ x.verified = r.tx.verified /\ x.flow = "reset" /\ x.created = r.tx.created
        /\ x.subject = r.tx.subject /\ x.breached = r.tx.breached /\ x.update = r.tx.update
        /\ x.proof = r.tx.proof /\ x.upstream = FALSE /\ x.code = r.tx.code
        /\ x.enrol = r.tx.enrol
    BY <1>2, <2>1 DEF Transaction
  <2>4. /\ ~x.subject /\ x.enrol = "none" /\ ~x.breached
        /\ x.verified \subseteq {"email_code", "password_reset"} /\ ~provedMailbox(x)
    BY <1>2, <1>6, <2>3 DEF NoSubject, Unproved, provedMailbox
  <2>5. Counted(x, guesses[t]) /\ x.created <= now
    BY <1>2, <2>3 DEF Counted, provedMailbox, TxnOK
  <2>6. TxnOK(x, acct, now, guesses[t])
    BY <2>2, <2>3, <2>4, <2>5 DEF TxnOK, Unproved, Subject, Epochs, OnAccount, Enrolments, enrolledTotp
  <2>7. PICK f : f = Further(r, "recover", rebindStage, x, r.acc, "look")
    OBVIOUS
  <2>8. f.pc = "recover" /\ f.tx = x
    BY <2>7, PartsOf
  <2>9. AtPlace(f, acct', job.mfa)
    BY <2>3, <2>4, <2>8 DEF AtPlace
  <2>10. "recover" \in Places \ {"rules", "reread", "epoch"} /\ r.pc \notin {"rules", "reread"}
         /\ TxnOK(x, acct', now, guesses[t])
    BY <1>2, <1>3, <2>6 DEF Places
  <2>11. Took(t, "recover", x)
    BY <1>6, <2>1
  <2>12. QED
    BY <1>1, <1>2, <1>3, <2>4, <2>7, <2>9, <2>10, <2>11, GoesTo
<1>7. QED
  BY <1>1, <1>4, <1>5, <1>6 DEF first

\* Nobody is named yet.
LEMMA discoverKeeps ==
  ASSUME IInv, NEW t \in Txns, discover(t)
  PROVE  IInv'
<1>1. PICK r : r = round[t]
  OBVIOUS
<1>2. /\ r # None /\ r.pc = "discover" /\ NoSubject(r) /\ TxnOK(r.tx, acct, now, guesses[t])
      /\ r.tx \in Transaction /\ At(t, "discover") /\ r.tx.flow = "none" /\ Grows(r.was, acct)
      /\ Counted(r.tx, guesses[t]) /\ Unproved(r.tx) /\ Enrolments(r.tx) /\ acct \in Account
  BY <1>1, OfPlace DEF AtPlace, discover, NoSubject, Transaction
<1>3. UNCHANGED <<job, now, result, guesses, left>>
  BY DEF discover
<1>4. CASE Offer(t, r.tx) /\ UNCHANGED acct
  BY <1>1, <1>2, <1>3, <1>4, StoresSame
<1>5. CASE verifyPending(t, "passkey", "read") /\ UNCHANGED acct
  BY <1>2, <1>3, <1>5, PendingFirst
<1>6. CASE Offer(t, [r.tx EXCEPT !.upstream = TRUE]) /\ UNCHANGED acct
  <2>1. PICK x : x = [r.tx EXCEPT !.upstream = TRUE]
    OBVIOUS
  <2>2. x \in Transaction
    BY <1>2, <2>1, ZenonT(60) DEF Transaction
  <2>3. /\ x.verified = r.tx.verified /\ x.flow = r.tx.flow /\ x.created = r.tx.created
        /\ x.subject = r.tx.subject /\ x.breached = r.tx.breached /\ x.update = r.tx.update
        /\ x.proof = r.tx.proof /\ x.upstream = TRUE /\ x.code = r.tx.code
        /\ x.enrol = r.tx.enrol
    BY <1>2, <2>1 DEF Transaction
  <2>4. TxnOK(x, acct, now, guesses[t])
    BY <1>2, <2>2, <2>3 DEF TxnOK, Counted, Unproved, Subject, Epochs, OnAccount, Enrolments,
       NoSubject, provedMailbox, enrolledTotp, FirstProved, Beyond
  <2>5. QED
    BY <1>3, <1>6, <2>1, <2>4, AccountStays, Stores
<1>7. CASE /\ acct.unused > 0 /\ acct.factors = {"passkey"} /\ acct.enabled
           /\ acct' = [acct EXCEPT !.unused = @ - 1]
           /\ Took(t, "read", [Verified(r.tx, "recovery_code") EXCEPT
                                 !.subject = TRUE, !.auth = now, !.proof = acct.epoch])
  <2>1. PICK v : v = Verified(r.tx, "recovery_code")
    OBVIOUS
  <2>2. PICK x : x = [v EXCEPT !.subject = TRUE, !.auth = now, !.proof = acct.epoch]
    OBVIOUS
  <2>3. r.tx \in Transaction /\ "recovery_code" \in Steps /\ v = Verified(r.tx, "recovery_code")
    BY <1>2, <2>1 DEF Steps
  <2>4. /\ v \in Transaction /\ v.verified = r.tx.verified \cup {"recovery_code"}
        /\ v.flow = r.tx.flow /\ v.created = r.tx.created /\ v.ident = r.tx.ident
        /\ v.subject = r.tx.subject /\ v.breached = r.tx.breached /\ v.update = r.tx.update
        /\ v.proof = r.tx.proof /\ v.upstream = r.tx.upstream /\ v.code = r.tx.code
        /\ v.enrol = r.tx.enrol
    BY ONLY <2>3, VerifiedIs
  <2>5. now \in Nat \cup {None} /\ acct.epoch \in Nat /\ TRUE \in BOOLEAN
    BY Types DEF Account
  <2>6. x \in Transaction
    BY <2>2, <2>4, <2>5, ZenonT(60) DEF Transaction
  <2>7. /\ x.verified = v.verified /\ x.flow = v.flow /\ x.created = v.created
        /\ x.subject = TRUE /\ x.breached = v.breached /\ x.update = v.update
        /\ x.proof = acct.epoch /\ x.upstream = v.upstream /\ x.code = v.code
        /\ x.enrol = v.enrol
    BY <2>2, <2>4 DEF Transaction
  <2>8. acct.exists
    BY <1>7, Types DEF AccountOK
  <2>9. Subject(x, acct)
    BY <1>2, <1>7, <2>4, <2>7, <2>8 DEF Subject, tookRecoveryCode
  <2>10. Counted(x, guesses[t])
    BY <1>2, <2>4, <2>7 DEF Counted, provedMailbox
  <2>11. Becomes(r.tx, x, acct, "recovery_code")
    BY <1>2, <2>3, <2>4, <2>7 DEF Becomes, NoSubject
  <2>12. TxnOK(x, acct, now, guesses[t])
    BY <1>2, <2>6, <2>9, <2>10, <2>11, BecomesSubject
  <2>13. AccountStep
    BY <1>7, Redeems
  <2>14. TxnOK(x, acct', now, guesses[t])
    BY <2>12, <2>13, Types, TxnOKGrows DEF AccountStep, AccountOK
  <2>15. PICK f : f = Further(r, "read", rebindStage, x, r.acc, "look")
    OBVIOUS
  <2>16. f.pc = "read" /\ f.tx = x
    BY <2>15, PartsOf
  <2>17. AtPlace(f, acct', job.mfa)
    BY <1>2, <2>4, <2>7, <2>16 DEF AtPlace
  <2>18. "read" \in Places \ {"rules", "reread", "epoch"} /\ r.pc \notin {"rules", "reread"}
         /\ r.was.epoch <= x.proof
    BY <1>2, <2>7 DEF Places, Grows
  <2>19. Took(t, "read", x)
    BY <1>7, <2>1, <2>2
  <2>20. QED
    BY <1>1, <1>2, <1>3, <2>13, <2>14, <2>15, <2>17, <2>18, <2>19, GoesTo
<1>8. QED
  BY <1>1, <1>4, <1>5, <1>6, <1>7 DEF discover

\* A registration's mailbox, and then its candidate.
LEMMA registerKeeps ==
  ASSUME IInv, NEW t \in Txns, register(t)
  PROVE  IInv'
<1>1. PICK r : r = round[t]
  OBVIOUS
<1>2. /\ r # None /\ r.pc = "register" /\ Registers(r) /\ TxnOK(r.tx, acct, now, guesses[t])
      /\ r.tx \in Transaction /\ ~r.tx.subject /\ r.tx.flow = "register" /\ Enrolments(r.tx)
      /\ Unproved(r.tx)
  BY <1>1, OfPlace DEF AtPlace, register, Registers, NoSubject
<1>3. ASSUME calm
      PROVE  UNCHANGED <<job, now, acct, result, guesses, left>> /\ AccountStep
  BY <1>3, AccountStays DEF calm
<1>4. ASSUME NEW x, TxnOK(x, acct, now, guesses[t]), provedMailbox(x), x.flow = r.tx.flow,
             x.subject = r.tx.subject, x.ident = r.tx.ident, calm, NEW ans,
             \/ Took(t, "candidate", x) /\ ans = "look"
             \/ Go(t, "candidate", x) /\ ans = r.ans
      PROVE  IInv'
  <2>1. PICK f : f = Further(r, "candidate", rebindStage, x, r.acc, ans)
    OBVIOUS
  <2>2. f.pc = "candidate" /\ f.tx = x
    BY <2>1, PartsOf
  <2>3. AtPlace(f, acct', job.mfa)
    BY <1>2, <1>4, <2>2 DEF AtPlace, Registers, NoSubject
  <2>4. "candidate" \in Places \ {"rules", "reread", "epoch"} /\ r.pc \notin {"rules", "reread"}
        /\ TxnOK(x, acct', now, guesses[t]) /\ ~x.subject
    BY <1>2, <1>3, <1>4 DEF Places
  <2>5. QED
    BY <1>1, <1>2, <1>3, <1>4, <2>1, <2>3, <2>4, GoesTo
<1>5. ASSUME NEW refuses, ~provedMailbox(r.tx), codeRound(t, refuses)
      PROVE  IInv'
  BY <1>1, <1>2, <1>5, CodeRoundKeeps
<1>6. CASE Took(t, "candidate", codeTaken(r.tx)) /\ calm
  <2>1. PICK x : x = codeTaken(r.tx)
    OBVIOUS
  <2>2. /\ x \in Transaction /\ x.verified = r.tx.verified \cup {"email_code"}
        /\ Adds(r.tx, x) /\ x.enrol = r.tx.enrol /\ provedMailbox(x) /\ Counted(x, guesses[t])
    BY <1>2, <2>1, CodeTakenIs
  <2>3. Enrolments(x)
    BY <1>2, <2>2 DEF Enrolments, Adds, Unproved
  <2>4. TxnOK(x, acct, now, guesses[t])
    BY <1>2, <2>2, <2>3, TxnAdds
  <2>5. QED
    BY <1>4, <1>6, <2>1, <2>2, <2>4 DEF Adds
<1>7. CASE provedMailbox(r.tx) /\ Go(t, "candidate", r.tx) /\ calm
  BY <1>2, <1>4, <1>7
<1>8. QED
  BY <1>1, <1>5, <1>6, <1>7 DEF register

\* An account that holds the address is signed in to.
LEMMA candidateKeeps ==
  ASSUME IInv, NEW t \in Txns, candidate(t)
  PROVE  IInv'
<1>1. PICK r : r = round[t]
  OBVIOUS
<1>2. /\ r # None /\ r.pc = "candidate" /\ Registers(r) /\ TxnOK(r.tx, acct, now, guesses[t])
      /\ provedMailbox(r.tx) /\ ~r.tx.subject
  BY <1>1, OfPlace DEF AtPlace, candidate, Registers, NoSubject
<1>3. UNCHANGED <<job, now, acct, result, guesses, left>> /\ AccountStep
  BY AccountStays DEF candidate, calm
<1>4. PICK pc \in {"first", "create"} : Go(t, pc, r.tx)
  BY <1>1 DEF candidate
<1>5. PICK f : f = Further(r, pc, rebindStage, r.tx, r.acc, r.ans)
  OBVIOUS
<1>6. f.pc = pc /\ f.tx = r.tx
  BY <1>5, PartsOf
<1>7. AtPlace(f, acct', job.mfa)
  BY <1>2, <1>6 DEF AtPlace, Registers, NoSubject
<1>8. pc \in Places \ {"rules", "reread", "epoch"} /\ r.pc \notin {"rules", "reread"}
      /\ TxnOK(r.tx, acct', now, guesses[t])
  BY <1>2, <1>3 DEF Places
<1>9. QED
  BY <1>1, <1>2, <1>3, <1>4, <1>5, <1>7, <1>8, GoesTo

\* The account is created with its password.
LEMMA createKeeps ==
  ASSUME IInv, NEW t \in Txns, create(t)
  PROVE  IInv'
<1>1. PICK r : r = round[t]
  OBVIOUS
<1>2. /\ r # None /\ Registers(r) /\ r.tx \in Transaction /\ Unproved(r.tx) /\ ~r.tx.subject
      /\ r.tx.ident # None
  BY <1>1, OfPlace DEF create, AtPlace, Registers, NoSubject
<1>3. UNCHANGED <<job, now, guesses, left>>
  BY DEF create
<1>4. CASE Offer(t, r.tx) /\ UNCHANGED <<acct, result>>
  BY <1>1, <1>2, <1>3, <1>4, StoresSame
<1>5. CASE ended(t) /\ UNCHANGED <<acct, result>>
  BY <1>3, <1>5, Ends
<1>6. CASE /\ ~acct.exists /\ acct' = Created(TRUE, {"password"})
           /\ Complete(t, "registered", [Verified(r.tx, "new_password") EXCEPT !.subject = TRUE])
  <2>1. AccountStep
    BY <1>6, Creates DEF Factors
  <2>2. PICK v : v = Verified(r.tx, "new_password")
    OBVIOUS
  <2>3. PICK x : x = [v EXCEPT !.subject = TRUE]
    OBVIOUS
  <2>4. r.tx \in Transaction /\ "new_password" \in Steps /\ v = Verified(r.tx, "new_password")
    BY <1>2, <2>2 DEF Steps
  <2>5. /\ v \in Transaction /\ v.verified = r.tx.verified \cup {"new_password"}
        /\ v.ident = r.tx.ident /\ v.enrol = r.tx.enrol
    BY ONLY <2>4, VerifiedIs
  <2>6. x.verified = v.verified /\ x.ident = v.ident /\ x.enrol = v.enrol
    BY <2>3, <2>5 DEF Transaction
  <2>7. x.enrol # "bound" /\ ~enrolledTotp(x) /\ ~registersByPasskey(x)
    BY <1>2, <2>5, <2>6 DEF enrolledTotp, registersByPasskey, Unproved
  <2>8. PICK res : res = [kind |-> "registered", tx |-> x, was |-> r.was, acc |-> acct']
    OBVIOUS
  <2>9. res.kind = "registered" /\ res.tx = x
    BY <2>8
  <2>10. ResultOK(res, job.mfa)
    BY <2>7, <2>9 DEF ResultOK
  <2>11. Complete(t, "registered", x)
    BY <1>6, <2>2, <2>3
  <2>12. QED
    BY <1>1, <1>3, <2>1, <2>8, <2>10, <2>11, Completes
<1>7. QED
  BY <1>1, <1>4, <1>5, <1>6 DEF create

\* The account is created with its passkey.
LEMMA registerByPasskeyKeeps ==
  ASSUME IInv, NEW t \in Txns, registerByPasskey(t)
  PROVE  IInv'
<1>1. PICK r : r = round[t]
  OBVIOUS
<1>2. /\ r # None /\ r.pc = "registerByPasskey" /\ NoSubject(r) /\ registersByPasskey(r.tx)
      /\ r.tx \in Transaction /\ TxnOK(r.tx, acct, now, guesses[t])
      /\ ~r.tx.subject /\ Counted(r.tx, guesses[t]) /\ Grows(r.was, acct)
  BY <1>1, OfPlace DEF registerByPasskey, AtPlace, NoSubject
<1>3. UNCHANGED <<job, now, result, guesses, left>>
  BY DEF registerByPasskey
<1>4. CASE Offer(t, r.tx) /\ UNCHANGED acct
  BY <1>1, <1>2, <1>3, <1>4, StoresSame
<1>5. CASE ended(t) /\ UNCHANGED acct
  BY <1>3, <1>5, Ends
<1>6. CASE /\ ~acct.exists /\ acct' = Created(FALSE, {"passkey"})
           /\ Took(t, "read", [Verified(r.tx, "webauthn_create") EXCEPT
                                 !.subject = TRUE, !.proof = acct.epoch])
  <2>1. AccountStep /\ acct'.exists /\ acct'.epoch = acct.epoch
    BY <1>6, Creates DEF Factors
  <2>2. PICK v : v = Verified(r.tx, "webauthn_create")
    OBVIOUS
  <2>3. PICK x : x = [v EXCEPT !.subject = TRUE, !.proof = acct.epoch]
    OBVIOUS
  <2>4. r.tx \in Transaction /\ "webauthn_create" \in Steps /\ v = Verified(r.tx, "webauthn_create")
    BY <1>2, <2>2 DEF Steps
  <2>5. /\ v \in Transaction /\ v.verified = r.tx.verified \cup {"webauthn_create"}
        /\ v.flow = r.tx.flow /\ v.created = r.tx.created /\ v.ident = r.tx.ident
        /\ v.subject = r.tx.subject /\ v.breached = r.tx.breached /\ v.update = r.tx.update
        /\ v.proof = r.tx.proof /\ v.upstream = r.tx.upstream /\ v.code = r.tx.code
        /\ v.enrol = r.tx.enrol
    BY ONLY <2>4, VerifiedIs
  <2>6. acct.epoch \in Nat /\ TRUE \in BOOLEAN /\ acct' \in Account
    BY <2>1, Types DEF Account, AccountStep, AccountOK
  <2>7. x \in Transaction
    BY <2>3, <2>5, <2>6, ZenonT(60) DEF Transaction
  <2>8. /\ x.verified = v.verified /\ x.flow = v.flow /\ x.created = v.created
        /\ x.subject = TRUE /\ x.breached = v.breached /\ x.update = v.update
        /\ x.proof = acct.epoch /\ x.upstream = v.upstream /\ x.code = v.code
        /\ x.enrol = v.enrol /\ x.ident = v.ident
    BY <2>3, <2>5 DEF Transaction
  <2>9. x.flow = "register" /\ registersByPasskey(x)
    BY <1>2, <2>5, <2>8 DEF registersByPasskey
  <2>10. Subject(x, acct')
    BY <2>1, <2>5, <2>8, <2>9 DEF Subject
  <2>11. Counted(x, guesses[t])
    BY <1>2, <2>5, <2>8 DEF Counted, provedMailbox
  <2>12. PICK b : b = acct'
    OBVIOUS
  <2>13. Becomes(r.tx, x, b, "webauthn_create")
    BY <1>2, <2>1, <2>4, <2>5, <2>8, <2>12 DEF Becomes
  <2>14. TxnOK(r.tx, b, now, guesses[t])
    BY <1>2, <2>1, <2>12, Types, TxnOKGrows DEF AccountStep, AccountOK
  <2>15. TxnOK(x, b, now, guesses[t])
    BY <2>6, <2>7, <2>10, <2>11, <2>12, <2>13, <2>14, BecomesSubject
  <2>16. PICK f : f = Further(r, "read", rebindStage, x, r.acc, "look")
    OBVIOUS
  <2>17. f.pc = "read" /\ f.tx = x
    BY <2>16, PartsOf
  <2>18. AtPlace(f, acct', job.mfa)
    BY <2>8, <2>9, <2>17 DEF AtPlace
  <2>19. "read" \in Places \ {"rules", "reread", "epoch"} /\ r.pc \notin {"rules", "reread"}
         /\ r.was.epoch <= x.proof /\ TxnOK(x, acct', now, guesses[t])
    BY <1>2, <2>8, <2>12, <2>15 DEF Places, Grows
  <2>20. Took(t, "read", x)
    BY <1>6, <2>2, <2>3
  <2>21. QED
    BY <1>1, <1>2, <1>3, <2>1, <2>16, <2>18, <2>19, <2>20, GoesTo
<1>7. QED
  BY <1>1, <1>4, <1>5, <1>6 DEF registerByPasskey

----------------------------------------------------------------------------
(* A round begins; the account's other users, and time *)

\* A round begins with the stored transaction, or with a new one.
LEMMA BeginKeeps ==
  ASSUME IInv, NEW t \in Txns, Begin(t)
  PROVE  IInv'
<1>1. PICK h : h = IF txn[t] = None THEN 0 ELSE guesses[t]
  OBVIOUS
<1>2. PICK x : x = IF txn[t] = None THEN NewTxn(job.flow) ELSE txn[t]
  OBVIOUS
<1>3. BrowserOK(txn[t], round[t], guesses[t], result[t], acct, now, job.mfa)
  BY OfBrowser
<1>4. /\ UNCHANGED <<job, now, acct, result, left>> /\ AccountStep
      /\ guesses' = [guesses EXCEPT ![t] = h] /\ h \in 0..MaxWrong
  BY <1>1, <1>3, AccountStays, Types DEF Begin, BrowserOK
<1>5. TxnOK(x, acct, now, h)
  <2>1. CASE txn[t] = None
    <3>1. x = [flow |-> job.flow, created |-> now, ident |-> None, subject |-> FALSE, verified |-> {},
               auth |-> None, code |-> None, breached |-> FALSE, update |-> FALSE, enrol |-> "none",
               setup |-> "none", shown |-> None, upstream |-> FALSE, proof |-> 0] /\ h = 0
      BY <1>1, <1>2, <2>1 DEF NewTxn
    <3>2. /\ job.flow \in {"none", "register", "reset"} /\ now \in Nat /\ None \in {None, "own", "other"}
          /\ None \in Nat \cup {None} /\ None \in CodeType \cup {None} /\ {} \in SUBSET Steps /\ 0 \in Nat
      BY Types
    <3>3. x \in Transaction
      BY <3>1, <3>2 DEF Transaction
    <3>4. /\ ~x.subject /\ x.verified = {} /\ x.created = now /\ x.code = None /\ x.enrol = "none"
          /\ ~x.breached /\ ~x.upstream
      BY <3>1
    <3>5. QED
      BY <3>1, <3>2, <3>3, <3>4 DEF TxnOK, Counted, Unproved, Subject, Epochs, OnAccount,
         Enrolments, provedMailbox, enrolledTotp
  <2>2. CASE txn[t] # None
    BY <1>1, <1>2, <1>3, <2>2 DEF BrowserOK
  <2>3. QED
    BY <2>1, <2>2
<1>6. CASE ended(t)
  <2>1. BrowserOK(None, None, h, result[t], acct', now, job.mfa)
    BY <1>3, <1>4 DEF BrowserOK
  <2>2. Turn(t, None, None, h, result[t])
    BY <1>4, <1>6 DEF ended, Offer, Turn, IInv, Functions
  <2>3. QED
    BY <1>4, <2>1, <2>2, BrowserStep
<1>7. ASSUME NEW ans, NEW right, UNCHANGED txn, NEW r,
             r = [pc |-> IF x.subject THEN "epoch" ELSE "name", stage |-> 0, tx |-> x,
                  acc |-> None, ans |-> ans, right |-> right, was |-> acct],
             round' = [round EXCEPT ![t] = r]
      PROVE  IInv'
  <2>1. /\ r.pc = IF x.subject THEN "epoch" ELSE "name"
        /\ r.stage = 0 /\ r.tx = x /\ r.was = acct
    BY <1>7
  <2>2. RoundShape(r)
    <3>1. r = [pc |-> r.pc, stage |-> r.stage, tx |-> r.tx, acc |-> r.acc, ans |-> r.ans,
               right |-> r.right, was |-> r.was]
      BY <1>7
    <3>2. r.pc \in Places /\ r.pc \notin {"rules", "reread"}
      BY <2>1 DEF Places
    <3>3. QED
      BY <2>1, <3>1, <3>2 DEF RoundShape
  <2>3. AtPlace(r, acct, job.mfa)
    BY <1>5, <2>1 DEF AtPlace, TxnOK, Subject
  <2>4. acct \in Account /\ (~acct.exists => acct.factors = {}) /\ Grows(acct, acct)
    BY Types, GrowsSelf DEF AccountOK
  <2>5. r.pc # "epoch" => ~r.tx.subject
    BY <2>1
  <2>6. RoundOK(r, acct, now, h, job.mfa)
    BY <1>5, <2>1, <2>2, <2>3, <2>4, <2>5 DEF RoundOK
  <2>7. txn[t] # None => TxnOK(txn[t], acct, now, h)
    BY <1>2, <1>5
  <2>8. BrowserOK(txn[t], r, h, result[t], acct', now, job.mfa)
    BY <1>3, <1>4, <2>6, <2>7 DEF BrowserOK
  <2>9. Turn(t, txn[t], r, h, result[t])
    BY <1>4, <1>7 DEF Turn, IInv, Functions
  <2>10. QED
    BY <1>4, <2>8, <2>9, BrowserStep
<1>8. PICK ans, right :
        \/ ended(t)
        \/ /\ round' = [round EXCEPT ![t] =
                 [pc |-> IF x.subject THEN "epoch" ELSE "name", stage |-> 0, tx |-> x,
                  acc |-> None, ans |-> ans, right |-> right, was |-> acct]]
           /\ UNCHANGED txn
  <2>1. \E ans \in job.answers \cup {"look"}, right \in BOOLEAN :
          IF now - x.created > MaxAge THEN ended(t)
          ELSE /\ round' = [round EXCEPT ![t] =
                   [pc |-> IF x.subject THEN "epoch" ELSE "name", stage |-> 0, tx |-> x,
                    acc |-> None, ans |-> ans, right |-> right, was |-> acct]]
               /\ UNCHANGED txn
    BY <1>2, Zenon DEF Begin
  <2>2. QED
    BY <2>1, Zenon
<1>9. CASE ~ended(t)
  BY <1>7, <1>8, <1>9
<1>10. QED
  BY <1>6, <1>9

\* What happens to the account, or to the clock, while no browser moves.
LEMMA Around ==
  ASSUME IInv, UNCHANGED <<job, txn, round, result, guesses>>, left'.others \subseteq left.others,
         now' \in Nat, now <= now', now' <= job.until, Moves(acct, acct', now), AccountOK(acct', now')
  PROVE  IInv'
<1>1. acct \in Account /\ acct' \in Account /\ now \in Nat
  BY Types DEF AccountOK
<1>2. Setting'
  <2>1. now' \in 1..job'.until
    BY <1>1 DEF IInv, Setting
  <2>2. QED
    BY <2>1 DEF IInv, Setting
<1>3. Functions' /\ Standing'
  BY DEF IInv, Functions, Standing
<1>4. ASSUME NEW t \in Txns
      PROVE  BrowserOK(txn[t], round[t], guesses[t], result[t], acct', now', job.mfa)
  <2>1. BrowserOK(txn[t], round[t], guesses[t], result[t], acct, now, job.mfa)
    BY OfBrowser
  <2>2. txn[t] # None => TxnOK(txn[t], acct', now', guesses[t])
    BY <1>1, <2>1, TxnOKGrows DEF BrowserOK
  <2>3. round[t] # None => RoundOK(round[t], acct', now', guesses[t], job.mfa)
    BY <1>1, <2>1, RoundOKGrows DEF BrowserOK
  <2>4. QED
    BY <2>1, <2>2, <2>3 DEF BrowserOK
<1>5. EachBrowser'
  BY <1>4 DEF EachBrowser
<1>6. QED
  BY <1>2, <1>3, <1>5 DEF IInv

\* The account's other users: it is disabled, told to change its password, its
\* factors are disabled, its password reset, or a factor bound.
LEMMA ElsewhereKeeps ==
  ASSUME IInv, Elsewhere
  PROVE  IInv'
<1>1. PICK event \in left.others :
        /\ left' = [left EXCEPT !.others = @ \ {event}]
        /\ acct' = CASE event = "disable" -> [acct EXCEPT !.enabled = FALSE]
                     [] event = "require" -> [acct EXCEPT !.must = TRUE]
                     [] event = "ceiling" -> [acct EXCEPT !.off = acct.factors]
                     [] event = "reset" -> [acct EXCEPT !.epoch = now, !.pw = @ + 1]
                     [] OTHER -> [acct EXCEPT !.factors = @ \cup {event}]
  BY DEF Elsewhere
<1>2. /\ acct \in Account /\ AccountOK(acct, now) /\ now \in Nat /\ acct.exists
      /\ event \in {"disable", "require", "ceiling", "reset"} \cup Factors
  BY <1>1, Types DEF Elsewhere
<1>3. left'.others \subseteq left.others /\ UNCHANGED <<job, now, txn, round, result, guesses>>
  <2>1. left.others \ {event} \subseteq left.others
    OBVIOUS
  <2>2. left'.others = left.others \ {event} \/ left'.others = left.others
    BY <1>1
  <2>3. QED
    BY <2>1, <2>2 DEF Elsewhere
<1>4. now' \in Nat /\ now <= now' /\ now' <= job.until
  BY <1>2, <1>3, SignInAssumption DEF IInv, Setting
<1>5. Moves(acct, acct', now) /\ AccountOK(acct', now)
  <2>1. CASE event = "disable"
    <3>1. acct' = [acct EXCEPT !.enabled = FALSE]
      BY <1>1, <2>1
    <3>2. acct' \in Account
      BY <1>2, <3>1 DEF Account
    <3>3. /\ acct'.exists = acct.exists /\ acct'.enabled = FALSE /\ acct'.off = acct.off
          /\ acct'.factors = acct.factors /\ acct'.epoch = acct.epoch /\ acct'.pw = acct.pw
          /\ acct'.must = acct.must /\ acct'.confirmed = acct.confirmed
      BY <1>2, <3>1 DEF Account
    <3>4. QED
      BY <1>2, <3>2, <3>3 DEF Moves, Grows, AccountOK, Account
  <2>2. CASE event = "require"
    <3>1. acct' = [acct EXCEPT !.must = TRUE]
      BY <1>1, <2>2
    <3>2. acct' \in Account
      BY <1>2, <3>1 DEF Account
    <3>3. /\ acct'.exists = acct.exists /\ acct'.enabled = acct.enabled /\ acct'.off = acct.off
          /\ acct'.factors = acct.factors /\ acct'.epoch = acct.epoch /\ acct'.pw = acct.pw
          /\ acct'.must = TRUE /\ acct'.confirmed = acct.confirmed
      BY <1>2, <3>1 DEF Account
    <3>4. QED
      BY <1>2, <3>2, <3>3 DEF Moves, Grows, AccountOK, Account
  <2>3. CASE event = "ceiling"
    <3>1. acct' = [acct EXCEPT !.off = acct.factors]
      BY <1>1, <2>3
    <3>2. acct' \in Account
      BY <1>2, <3>1 DEF Account
    <3>3. /\ acct'.exists = acct.exists /\ acct'.enabled = acct.enabled /\ acct'.off = acct.factors
          /\ acct'.factors = acct.factors /\ acct'.epoch = acct.epoch /\ acct'.pw = acct.pw
          /\ acct'.must = acct.must /\ acct'.confirmed = acct.confirmed
      BY <1>2, <3>1 DEF Account
    <3>4. QED
      BY <1>2, <3>2, <3>3 DEF Moves, Grows, AccountOK, Account
  <2>4. CASE event = "reset"
    <3>1. acct' = [acct EXCEPT !.epoch = now, !.pw = @ + 1]
      BY <1>1, <2>4
    <3>2. acct.pw + 1 \in Nat
      BY <1>2 DEF Account
    <3>3. acct' \in Account
      BY <1>2, <3>1, <3>2, ZenonT(60) DEF Account
    <3>4. /\ acct'.exists = acct.exists /\ acct'.enabled = acct.enabled /\ acct'.off = acct.off
          /\ acct'.factors = acct.factors /\ acct'.epoch = now /\ acct'.pw = acct.pw + 1
          /\ acct'.must = acct.must /\ acct'.confirmed = acct.confirmed
      BY <1>2, <3>1 DEF Account
    <3>5. QED
      BY <1>2, <3>3, <3>4 DEF Moves, Grows, AccountOK, Account
  <2>5. CASE event \notin {"disable", "require", "ceiling", "reset"}
    <3>1. acct' = [acct EXCEPT !.factors = @ \cup {event}] /\ event \in Factors
      BY <1>1, <1>2, <2>5
    <3>2. acct' \in Account
      BY <1>2, <3>1 DEF Account
    <3>3. /\ acct'.exists = acct.exists /\ acct'.enabled = acct.enabled /\ acct'.off = acct.off
          /\ acct'.factors = acct.factors \cup {event}
          /\ acct'.epoch = acct.epoch /\ acct'.pw = acct.pw
          /\ acct'.must = acct.must /\ acct'.confirmed = acct.confirmed
      BY <1>2, <3>1 DEF Account
    <3>4. QED
      BY <1>2, <3>2, <3>3 DEF Moves, Grows, AccountOK, Account
  <2>6. QED
    BY <2>1, <2>2, <2>3, <2>4, <2>5
<1>6. AccountOK(acct', now')
  BY <1>3, <1>5
<1>7. QED
  BY <1>3, <1>4, <1>5, <1>6, Around

\* Time passes.
LEMMA TickKeeps ==
  ASSUME IInv, Tick
  PROVE  IInv'
<1>1. /\ now \in Nat /\ acct \in Account /\ AccountOK(acct, now) /\ job.until \in Nat
      /\ now' = now + 1 /\ now < job.until /\ acct' = acct
  BY Types, SignInAssumption DEF Tick
<1>2. now' \in Nat /\ now <= now' /\ now' <= job.until
  BY <1>1
<1>3. Moves(acct, acct', now)
  BY <1>1, GrowsSelf DEF Moves
<1>4. AccountOK(acct', now')
  BY <1>1, <1>2 DEF AccountOK, Account
<1>5. UNCHANGED <<job, txn, round, result, guesses>> /\ left'.others \subseteq left.others
  BY DEF Tick
<1>6. QED
  BY <1>2, <1>3, <1>4, <1>5, Around

\* Nothing has happened yet.
LEMMA InitHolds == Init => IInv
<1>1. SUFFICES ASSUME Init PROVE IInv
  OBVIOUS
<1>2. Setting
  BY <1>1, SignInAssumption DEF Init, Setting
<1>3. Functions
  BY <1>1 DEF Init, Functions
<1>4. Standing
  BY <1>1, SignInAssumption DEF Init, Standing, AccountOK, Possible, Account
<1>5. EachBrowser
  <2>1. ASSUME NEW t \in Txns
        PROVE  BrowserOK(None, None, 0, None, acct, now, job.mfa)
    BY SignInAssumption DEF BrowserOK
  <2>2. QED
    BY <1>1, <2>1 DEF Init, EachBrowser
<1>6. QED
  BY <1>2, <1>3, <1>4, <1>5 DEF IInv

\* Every step keeps the invariant.
LEMMA NextKeeps == IInv /\ [Next]_vars => IInv'
<1>1. SUFFICES ASSUME IInv, [Next]_vars PROVE IInv'
  OBVIOUS
<1>2. ASSUME NEW t \in Txns, Step(t)
      PROVE  IInv'
  <2>1. CASE epoch(t) \/ name(t) \/ discover(t) \/ first(t) \/ verifyAddress(t)
    BY <1>1, <2>1, epochKeeps, nameKeeps, discoverKeeps, firstKeeps, verifyAddressKeeps
  <2>2. CASE register(t) \/ candidate(t) \/ create(t) \/ registerByPasskey(t)
    BY <1>1, <2>2, registerKeeps, candidateKeeps, createKeeps, registerByPasskeyKeeps
  <2>3. CASE recover(t) \/ resetRead(t) \/ resetFactor(t) \/ resetPassword(t)
    BY <1>1, <2>3, recoverKeeps, resetReadKeeps, resetFactorKeeps, resetPasswordKeeps
  <2>4. CASE read(t) \/ mark(t) \/ reread(t) \/ rebindPasskey(t) \/ factor(t)
    BY <1>1, <2>4, readKeeps, markKeeps, rereadKeeps, rebindPasskeyKeeps, factorKeeps
  <2>5. CASE setupTotp(t) \/ bindTotp(t) \/ forcedUpdate(t) \/ enrolPasskey(t) \/ lapse(t)
    BY <1>1, <2>5, setupTotpKeeps, bindTotpKeeps, forcedUpdateKeeps, enrolPasskeyKeeps, lapseKeeps
  <2>6. CASE bindPasskey(t) \/ showRecoveryCodes(t) \/ complete(t) \/ stale(t) \/ stuck(t)
    BY <1>1, <2>6, bindPasskeyKeeps, showRecoveryCodesKeeps, completeKeeps, staleKeeps
  <2>7. QED
    BY <1>2, <2>1, <2>2, <2>3, <2>4, <2>5, <2>6, Zenon DEF Step
<1>3. ASSUME NEW t \in Txns, Begin(t) \/ Fault(t)
      PROVE  IInv'
  BY <1>1, <1>3, BeginKeeps, FaultKeeps
<1>4. CASE UNCHANGED vars
  BY <1>1, <1>4 DEF vars, IInv, Setting, Functions, Standing, EachBrowser
<1>5. QED
  BY <1>1, <1>2, <1>3, <1>4, ElsewhereKeeps, TickKeeps DEF Next

----------------------------------------------------------------------------
(* The theorems *)

\* The invariant holds at every step.
THEOREM Inductive == Spec => []IInv
<1>1. Init => IInv
  BY InitHolds
<1>2. IInv /\ [Next]_vars => IInv'
  BY NextKeeps
<1>3. QED
  BY <1>1, <1>2, PTL DEF Spec

\* A transaction that satisfies the invariant has the type the engine checks
\* when a round opens.
LEMMA TypedTxn ==
  ASSUME NEW tx, NEW a, NEW n, NEW g, TxnOK(tx, a, n, g)
  PROVE  TxnType(tx)
<1>1. /\ tx \in Transaction /\ Counted(tx, g) /\ Subject(tx, a)
  BY DEF TxnOK
<1>2. tx.flow \in {"none", "register", "reset"} /\ tx.verified \subseteq Steps
  BY <1>1 DEF Transaction
<1>3. tx.code = None \/ tx.code.wrong \in 0..(MaxWrong - 1)
  <2>1. tx.code \in CodeType \cup {None}
    BY <1>1 DEF Transaction
  <2>2. tx.code # None => tx.code.wrong \in Nat /\ tx.code.wrong < MaxWrong
    BY <1>1, <2>1 DEF CodeType, Counted
  <2>3. MaxWrong \in Nat
    BY SignInAssumption
  <2>4. QED
    BY <2>2, <2>3
<1>4. tx.subject => tx.ident # None \/ tx.verified \cap
                      {"upstream", "passkey", "webauthn_create", "recovery_code"} # {}
  BY <1>1 DEF Subject
<1>5. QED
  BY <1>2, <1>3, <1>4 DEF TxnType

\* What the invariant says of each property.
LEMMA Implies ==
  ASSUME IInv
  PROVE  /\ TypeOK /\ StandingAtFinalRound /\ SignInStrength /\ ResetProved
         /\ ForcedUpdateKept /\ EnrolledHasCodes /\ CodeGuessesBounded
<1>1. ASSUME NEW t \in Txns
      PROVE  /\ guesses[t] \in 0..MaxWrong
             /\ txn[t] # None => TxnOK(txn[t], acct, now, guesses[t])
             /\ round[t] # None => TxnOK(round[t].tx, acct, now, guesses[t])
             /\ result[t] # None => ResultOK(result[t], job.mfa)
  BY OfBrowser DEF BrowserOK, RoundOK
<1>2. TypeOK
  <2>1. /\ job \in Jobs /\ now \in 1..job.until /\ acct \in Account
        /\ acct.off \subseteq acct.factors /\ acct.epoch \in 0..now
    BY Types DEF IInv, Setting, AccountOK, Account
  <2>2. ASSUME NEW t \in Txns
        PROVE  /\ txn[t] # None => TxnType(txn[t])
               /\ round[t] # None => TxnType(round[t].tx)
    BY <1>1, TypedTxn
  <2>3. QED
    BY <2>1, <2>2 DEF TypeOK
<1>3. StandingAtFinalRound
  BY <1>1 DEF StandingAtFinalRound, Signed, ResultOK
<1>4. SignInStrength
  BY <1>1 DEF SignInStrength, Signed, ResultOK, LoopMet
<1>5. ResetProved
  BY <1>1 DEF ResetProved, ResultOK
<1>6. ForcedUpdateKept
  BY <1>1 DEF ForcedUpdateKept, Signed, ResultOK
<1>7. EnrolledHasCodes
  BY <1>1 DEF EnrolledHasCodes, ResultOK
<1>8. CodeGuessesBounded
  BY <1>1, SignInAssumption DEF CodeGuessesBounded
<1>9. QED
  BY <1>2, <1>3, <1>4, <1>5, <1>6, <1>7, <1>8

\* Whoever completes proved what the account asked for when the last round
\* began, and no assertion of the engine fails on the way: the rules of `round`
\* and `recover`, in their order, over an account that others change meanwhile.
THEOREM CompletionIsProved == Spec => []CompletionProved
<1>1. IInv => CompletionProved
  BY Implies, NoFault DEF CompletionProved
<1>2. QED
  BY <1>1, Inductive, PTL

\* A password known to be breached, or required to change before the last round
\* began, is replaced before anyone signs in: `updateDue`, and the mark `read`
\* leaves on the transaction.
THEOREM UpdateIsForced == Spec => []ForcedUpdateKept
<1>1. IInv => ForcedUpdateKept
  BY Implies
<1>2. QED
  BY <1>1, Inductive, PTL

\* Whoever enrolled a factor at a sign-in holds a confirmed set of recovery
\* codes: showRecoveryCodes comes after every enrolment, in the same round or a
\* later one.
THEOREM EnrolmentLeavesCodes == Spec => []EnrolledHasCodes
<1>1. IInv => EnrolledHasCodes
  BY Implies
<1>2. QED
  BY <1>1, Inductive, PTL

\* However often a code is sent again, and for whatever purpose, a transaction
\* takes no more wrong codes than the limit: heldEmailCode keeps the count.
THEOREM CodeGuessesAreBounded == Spec => []CodeGuessesBounded
<1>1. IInv => CodeGuessesBounded
  BY Implies
<1>2. QED
  BY <1>1, Inductive, PTL

----------------------------------------------------------------------------
(* What changes a credential *)

\* A TOTP is bound after a step beyond the password.
LEMMA BindsBeyond ==
  ASSUME IInv, NEW t \in Txns, bindTotp(t)
  PROVE  Beyond(round[t].tx)
<1>1. PICK r : r = round[t]
  OBVIOUS
<1>2. Asks(t, "bindTotp")
  BY DEF bindTotp
<1>3. /\ ~registersByPasskey(r.tx) /\ RuleAt(Stage(r), r.tx, r.acc) = "bindTotp"
      /\ Stage(r) \in rebindStage..completeStage
  BY <1>1, <1>2, AskedOthers
<1>4. /\ r.pc = "rules" /\ RoundOK(r, acct, now, guesses[t], job.mfa)
      /\ Passed(r.tx, r.acc, r.was, job.mfa, Stage(r))
  BY <1>1, <1>2, Asked
<1>5. /\ Stage(r) \in {loopStage, totpStage}
      /\ boundBeyondPassword(r.acc) \/ provedMailbox(r.tx)
  BY <1>3, RuleAsks
<1>6. /\ r.acc \in Account /\ r.acc.factors \subseteq Factors
      /\ r.tx \in Transaction /\ Enrolments(r.tx)
  BY <1>4 DEF RoundOK, TxnOK, AtPlace, ReadAccount, Account
<1>7. CASE provedMailbox(r.tx) \/ tookRecoveryCode(r.tx)
  BY <1>1, <1>7 DEF provedMailbox, tookRecoveryCode, Beyond, BeyondSteps
<1>8. CASE ~tookRecoveryCode(r.tx) /\ boundBeyondPassword(r.acc) /\ Stage(r) = totpStage
  <2>1. ~(r.acc.factors \subseteq {"password"})
    BY <1>8 DEF boundBeyondPassword
  <2>2. QED
    BY <1>1, <1>3, <1>4, <1>8, <2>1 DEF Passed, loopStage, totpStage
<1>9. CASE ~tookRecoveryCode(r.tx) /\ boundBeyondPassword(r.acc) /\ Stage(r) = loopStage
  <2>1. Needed(r.tx, r.acc) = "setup"
    BY <1>3, <1>9, LoopAsks
  <2>2. /\ ~(provenFactorStrength(r.tx) < strongestBoundFactor(r.acc)) \/ r.tx.enrol = "bound"
        /\ holdsTotp(r.acc) => "totp" \in r.tx.verified \/ provesMfa(r.tx)
    BY <1>9, <2>1 DEF Needed
  <2>3. CASE "passkey" \in r.acc.factors
    <3>1. /\ strongestBoundFactor(r.acc) = 2 /\ provenFactorStrength(r.tx) \in {0, 1, 2}
      BY <1>6, <2>3, StrongestIs, ProvenIs
    <3>2. ~(provenFactorStrength(r.tx) < strongestBoundFactor(r.acc)) => "passkey" \in r.tx.verified
      BY <3>1, ProvenIs
    <3>3. QED
      BY <1>1, <1>6, <2>2, <3>2 DEF Beyond, BeyondSteps, Enrolments
  <2>4. CASE "totp" \in r.acc.factors
    BY <1>1, <2>2, <2>4 DEF holdsTotp, provesMfa, Beyond, BeyondSteps
  <2>5. QED
    BY <1>6, <1>9, <2>3, <2>4 DEF boundBeyondPassword, Factors
<1>10. QED
  BY <1>5, <1>7, <1>8, <1>9

\* So is a forced update made, a lost passkey replaced and an enrolled one bound.
LEMMA RulesBeyond ==
  ASSUME IInv, NEW t \in Txns, rebindPasskey(t) \/ forcedUpdate(t) \/ bindPasskey(t)
  PROVE  Beyond(round[t].tx)
<1>1. PICK r : r = round[t]
  OBVIOUS
<1>2. CASE rebindPasskey(t)
  <2>1. RuleAt(Stage(r), r.tx, r.acc) = "rebind" /\ Stage(r) \in rebindStage..completeStage
    BY <1>1, <1>2, AskedOthers DEF rebindPasskey
  <2>2. codeAlone(r.tx)
    BY <2>1, RuleAsks
  <2>3. QED
    BY <1>1, <2>2 DEF codeAlone, tookRecoveryCode, Beyond, BeyondSteps
<1>3. CASE forcedUpdate(t)
  <2>1. RuleAt(Stage(r), r.tx, r.acc) = "password" /\ Stage(r) \in rebindStage..completeStage
    BY <1>1, <1>3, AskedOthers DEF forcedUpdate
  <2>2. provedMailbox(r.tx) \/ metBeyondPassword(r.tx)
    BY <2>1, RuleAsks
  <2>3. QED
    BY <1>1, <2>2 DEF metBeyondPassword, provedBeyondPassword, provedMailbox, tookRecoveryCode,
       Beyond, BeyondSteps
<1>4. CASE bindPasskey(t)
  <2>1. Asks(t, "bindPasskey")
    BY <1>4 DEF bindPasskey
  <2>2. QED
    BY <1>1, <2>1, PastLoop
<1>5. QED
  BY <1>2, <1>3, <1>4

\* A credential, in one word, for a step that leaves it or changes it.
Credentials == <<acct.factors, acct.pw>>

\* The round of another browser is not touched.
LEMMA OthersRound ==
  ASSUME IInv, NEW t \in Txns, NEW x, round' = [round EXCEPT ![t] = x], NEW s \in Txns, s # t
  PROVE  round'[s] = round[s]
  BY DEF IInv, Functions

\* Taking an answer, storing an offer and completing touch one round.
LEMMA OneRound ==
  ASSUME IInv, NEW t \in Txns, NEW s \in Txns, s # t,
         \/ \E pc, tx : Took(t, pc, tx)
         \/ \E tx : Offer(t, tx)
         \/ \E kind, tx : Complete(t, kind, tx)
  PROVE  round'[s] = round[s]
  BY OthersRound, Zenon DEF Took, Offer, Complete

\* A factor taken leaves the credentials: a recovery code is only used up.
LEMMA FactorLeaves ==
  ASSUME IInv, NEW t \in Txns, NEW offered, NEW then, verifyAfterFirstFactor(t, offered, then)
  PROVE  UNCHANGED Credentials
<1>1. UNCHANGED acct \/ (acct.unused > 0 /\ acct' = [acct EXCEPT !.unused = @ - 1])
  BY DEF verifyAfterFirstFactor, redeemPending
<1>2. CASE UNCHANGED acct
  BY <1>2 DEF Credentials
<1>3. CASE acct.unused > 0 /\ acct' = [acct EXCEPT !.unused = @ - 1]
  BY <1>3, Redeems DEF Credentials
<1>4. QED
  BY <1>1, <1>2, <1>3

\* A step that changes a credential of an account is one of five, by a round that
\* proved a step beyond the password.
LEMMA StepChanges ==
  ASSUME IInv, NEW t \in Txns, Step(t), acct.exists, ~UNCHANGED Credentials
  PROVE  /\ Beyond(round[t].tx)
         /\ \A s \in Txns : s # t => round'[s] = round[s]
<1>1. acct' # acct
  BY DEF Credentials
<1>2. ~(epoch(t) \/ name(t) \/ first(t) \/ register(t) \/ candidate(t) \/ create(t))
  BY <1>1 DEF epoch, name, first, register, candidate, create, calm, codeRound
<1>3. ~(registerByPasskey(t) \/ recover(t) \/ resetRead(t) \/ read(t) \/ reread(t) \/ setupTotp(t))
  BY <1>1 DEF registerByPasskey, recover, resetRead, read, reread, setupTotp, calm, codeRound
<1>4. ~(enrolPasskey(t) \/ lapse(t) \/ complete(t) \/ stale(t) \/ stuck(t))
  BY <1>1 DEF enrolPasskey, lapse, complete, stale, stuck, calm
<1>5. ~verifyAddress(t) /\ ~mark(t)
  BY <1>1, MarksVerified DEF verifyAddress, mark, codeRound, Credentials
<1>6. ~discover(t)
  BY <1>1, Redeems DEF discover, Credentials
<1>7. ~factor(t) /\ ~resetFactor(t)
  BY <1>1, FactorLeaves DEF factor, resetFactor
<1>8. ~showRecoveryCodes(t)
  BY <1>1, Confirms, ReplacesCodes DEF showRecoveryCodes, Credentials
<1>9. rebindPasskey(t) \/ bindTotp(t) \/ forcedUpdate(t) \/ bindPasskey(t) \/ resetPassword(t)
  BY <1>2, <1>3, <1>4, <1>5, <1>6, <1>7, <1>8, Zenon DEF Step
<1>10. CASE rebindPasskey(t) \/ bindTotp(t) \/ forcedUpdate(t) \/ bindPasskey(t)
  <2>1. Beyond(round[t].tx)
    BY <1>10, BindsBeyond, RulesBeyond
  <2>2. (\E pc, tx : Took(t, pc, tx)) \/ (\E tx : Offer(t, tx))
    BY <1>1, <1>10 DEF rebindPasskey, bindTotp, forcedUpdate, bindPasskey, Waits, Writes, ended
  <2>3. QED
    BY <2>1, <2>2, OneRound
<1>11. CASE resetPassword(t)
  <2>1. /\ round[t] # None /\ InReset(round[t]) /\ TxnOK(round[t].tx, acct, now, guesses[t])
    BY <1>11, OfPlace DEF resetPassword, AtPlace
  <2>2. Beyond(round[t].tx)
    BY <2>1 DEF InReset, TxnOK, Subject, provedMailbox, Beyond, BeyondSteps
  <2>3. (\E kind, tx : Complete(t, kind, tx)) \/ (\E tx : Offer(t, tx))
    BY <1>1, <1>11 DEF resetPassword, ended
  <2>4. QED
    BY <2>2, <2>3, OneRound
<1>12. QED
  BY <1>9, <1>10, <1>11

\* Only a transaction that proved more than the password changes a credential of
\* an account: rebindPasskey, enrolTotp, forcedUpdate, enrolPasskey and the reset,
\* each behind the rule that asks for it, and each judged by the account the
\* round last read.
THEOREM CredentialChangesAreProved == Spec => CredentialChangeProved
<1> DEFINE Change(t) ==
      /\ acct.exists /\ round[t] # None /\ round'[t] # round[t]
      /\ <<acct.factors, acct.pw>>' # <<acct.factors, acct.pw>>
<1>1. ASSUME IInv, [Next]_vars, NEW t \in Txns, Change(t)
      PROVE  Beyond(round[t].tx)
  <2>1. ~UNCHANGED round /\ ~UNCHANGED Credentials /\ acct' # acct
    BY <1>1 DEF Credentials
  <2>2. PICK s \in Txns : Step(s)
    BY <1>1, <2>1 DEF Next, Begin, Fault, Elsewhere, Tick, vars
  <2>3. s = t
    BY <1>1, <2>1, <2>2, StepChanges
  <2>4. QED
    BY <1>1, <2>1, <2>2, <2>3, StepChanges
<1>2. IInv /\ [Next]_vars =>
        [\A t \in Txns :
           /\ acct.exists /\ round[t] # None /\ round'[t] # round[t]
           /\ <<acct.factors, acct.pw>>' # <<acct.factors, acct.pw>>
           => round[t].tx.verified \cap
                {"email_code", "passkey", "totp", "recovery_code", "upstream"} # {}]_vars
  BY <1>1 DEF Beyond, BeyondSteps
<1>3. QED
  BY <1>2, Inductive, PTL DEF Spec, CredentialChangeProved
============================================================================
