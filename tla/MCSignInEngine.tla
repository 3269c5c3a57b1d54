--------------------------- MODULE MCSignInEngine ---------------------------
(* One account, signed in to, registered or reset by the transactions of one *)
(* or two browsers; each workload opens another part of the rules.           *)
EXTENDS SignInEngine, TLC

Base == [exists |-> TRUE, addr |-> TRUE, enabled |-> TRUE, verified |-> TRUE,
         factors |-> {"password"}, off |-> {}, must |-> FALSE, unused |-> 0, set |-> 0,
         confirmed |-> TRUE, epoch |-> 0, pw |-> 0]
Holding(fs, us) == {[Base EXCEPT !.factors = f, !.unused = u] : f \in fs, u \in us}
Absent == [Base EXCEPT !.exists = FALSE, !.addr = FALSE, !.enabled = FALSE, !.verified = FALSE,
                       !.factors = {}, !.confirmed = FALSE]

Job == [flow |-> "none", accounts |-> {Base}, answers |-> {"own", "password"}, mistaken |-> {},
        browsers |-> 1, others |-> {}, faults |-> 0, mfa |-> FALSE, enrol |-> "none",
        until |-> 1, sets |-> 1, breach |-> FALSE]

\* Which factors a sign-in asks for, with factors bound and disabled meanwhile.
StrengthJobs ==
  {[Job EXCEPT !.accounts = Holding({{"password", "passkey"}, {"password", "totp"}, {"password"}},
                                    {0, 1}),
               !.answers = {"own", "password", "passkey", "totp", "recovery_code", "totp_setup",
                            "code", "decline", "confirm"},
               !.others = {"ceiling", "passkey", "totp"}, !.mfa = m, !.sets = 1] : m \in BOOLEAN}

\* A mailbox to prove, wrong and expired codes, time that passes.
CodeJobs ==
  {[Job EXCEPT !.accounts = {[Base EXCEPT !.verified = FALSE]},
               !.answers = {"own", "password", "code", "resend", "decline"},
               !.mistaken = {"password", "code"}, !.until = 4, !.others = {"disable"}]}

\* Forced updates: the breach list, an operator; with and without a second factor.
UpdateJobs ==
  {[Job EXCEPT !.accounts = Holding({{"password"}, {"password", "passkey"}}, {0, 1}),
               !.answers = {"own", "password", "passkey", "recovery_code", "code", "new_password",
                            "decline"},
               !.others = {"require", "disable", "passkey"}, !.breach = b, !.faults = 1] :
      b \in BOOLEAN}

\* Two browsers enrol and confirm recovery codes.
EnrolJobs ==
  {[Job EXCEPT !.accounts = {[Base EXCEPT !.confirmed = FALSE]}, !.sets = 2, !.browsers = 2,
               !.answers = {"own", "password", "code", "confirm"} \cup e.answers, !.enrol = e.enrol] :
      e \in {[enrol |-> "passkey", answers |-> {"webauthn_create", "passkey"}],
             [enrol |-> "totp", answers |-> {"totp_setup", "totp"}]}}

\* Bindings that come too late after the proof.
LateJobs ==
  {[Job EXCEPT !.answers = {"own", "password", "code", "webauthn_create", "totp_setup"},
               !.until = 4, !.enrol = e, !.others = {"disable"}] : e \in {"passkey", "totp"}}

\* A lost passkey of an account without an address.
RebindJobs ==
  {[Job EXCEPT !.accounts = {[Base EXCEPT !.addr = FALSE, !.factors = {"passkey"}, !.unused = 1]},
               !.answers = {"recovery_code", "webauthn_create", "passkey"},
               !.mistaken = {"webauthn_create"}, !.until = 3, !.others = {"disable", "ceiling"}]}

\* A provider, and identifiers that do not agree.
UpstreamJobs ==
  {[Job EXCEPT !.accounts = {[Base EXCEPT !.addr = FALSE, !.factors = {}, !.verified = v],
                             [Base EXCEPT !.factors = {"password", "passkey"}]},
               !.answers = {"upstream", "proof", "own", "other", "passkey", "code"},
               !.others = {"disable"}, !.mfa = m] : v \in BOOLEAN, m \in BOOLEAN}

\* Two browsers register one account, or one while the account is disabled.
RegisterJobs ==
  {[Job EXCEPT !.flow = "register",
               !.accounts = {Absent, [Base EXCEPT !.verified = FALSE]},
               !.answers = {"own", "code", "new_password", "password", "webauthn_create", "confirm"},
               !.browsers = w.browsers, !.others = w.others, !.sets = 2] :
      w \in {[browsers |-> 2, others |-> {}], [browsers |-> 1, others |-> {"disable"}]}}

\* A reset, beside a sign-in that began before it; one by an account whose
\* factors and standing change.
ResetJobs ==
  {[Job EXCEPT !.answers = {"own", "reset", "code", "new_password", "password"},
               !.browsers = 2, !.until = 2],
   [Job EXCEPT !.accounts = Holding({{"password", "totp"}}, {0}),
               !.answers = {"own", "reset", "code", "totp", "new_password", "password", "decline"},
               !.browsers = 2]}
  \cup
  {[Job EXCEPT !.flow = "reset", !.mistaken = {"code", "recovery_code"},
               !.accounts = Holding({{"password"}, {"password", "passkey"}}, {0, 1}),
               !.answers = {"own", "other", "code", "passkey", "recovery_code", "new_password"},
               !.others = o, !.until = 2] : o \in {{"passkey", "reset", "ceiling"}, {"disable"}}}

BaseJobs == StrengthJobs \cup CodeJobs \cup UpdateJobs \cup EnrolJobs \cup LateJobs
              \cup RebindJobs \cup UpstreamJobs \cup RegisterJobs \cup ResetJobs

\* Every job for every choice of its browsers, so that no browser is special.
SignInJobs == UNION {{[j EXCEPT !.browsers = bs] :
                        bs \in {x \in SUBSET Txns : Cardinality(x) = j.browsers}} : j \in BaseJobs}

Browsers == Permutations(Txns)
====
