------------------------------ MODULE AdminAccess ------------------------------
(***************************************************************************)
(* How an administrator comes to an account and to the guarded endpoints.  *)
(*                                                                         *)
(* Jobs create the first administrators.  A job is tried again when its    *)
(* pod fails, which may be after its INSERT was committed and before it    *)
(* said so, and jobs may run side by side.  Tokens are issued and checked  *)
(* by replicas of the program that share the secret and no other state, so *)
(* a token may be checked by another clock than the one it was issued by.  *)
(***************************************************************************)
EXTENDS Integers, FiniteSets

CONSTANTS
    Emails, Passwords,
    Jobs,           \* bootstrap jobs
    Input,          \* the e-mail and the password each of them is given
    AcceptableEmails, AcceptablePasswords,
    Tries,          \* pods a job may use: backoffLimit + 1
    Replicas,
    Skews,          \* by how much a replica's clock may differ
    TTL,            \* JWT_TTL
    MaxTime,        \* bound on the time that passes
    MaxTokens,      \* bound on the logins
    NoUser, NoToken

ASSUME JobsAssumption ==
    Input \in [Jobs -> [email : Emails, password : Passwords]]
ASSUME TriesAssumption == Tries \in Nat \ {0}
ASSUME ClocksAssumption == Skews \subseteq Int /\ TTL \in Int /\ MaxTime \in Nat
ASSUME MaxTokensAssumption == MaxTokens \in Nat
ASSUME NoUserAssumption == NoUser \notin Passwords

VARIABLES
    users,   \* the password of each account, as its hash tells it
    job,     \* where each bootstrap job is
    now,     \* the time
    skew,    \* how each replica's clock differs
    tokens,  \* the tokens issued
    served   \* the last guarded request let through

accessVars == <<users, job, now, skew, tokens, served>>
-----------------------------------------------------------------------------
NewJob == [step |-> "waiting", tries |-> 0, created |-> FALSE]

NothingServed == [token |-> NoToken, at |-> 0]

AccessInit ==
    /\ users = [e \in Emails |-> NoUser]
    /\ job = [j \in Jobs |-> NewJob]
    /\ now = 0
    /\ skew \in [Replicas -> Skews]
    /\ tokens = {}
    /\ served = NothingServed
-----------------------------------------------------------------------------
(* The bootstrap jobs.                                                     *)

StepsTo(j, step) ==
    /\ job' = [job EXCEPT ![j].step = step]
    /\ UNCHANGED <<now, skew, tokens, served>>

\* A pod starts, reads its configuration, validates it and hashes the
\* password; input it refuses fails the pod.
StartPod(j) ==
    /\ job[j].step = "waiting"
    /\ job' = [job EXCEPT ![j] =
                  [step    |-> IF Input[j].email \in AcceptableEmails
                                   /\ Input[j].password \in AcceptablePasswords
                               THEN "insert" ELSE "failing",
                   tries   |-> @.tries + 1,
                   created |-> FALSE]]
    /\ UNCHANGED <<users, now, skew, tokens, served>>

\* Faulty variant: ON CONFLICT (email) DO UPDATE.
CreateOrReplace(j) ==
    /\ job[j].step = "insert"
    /\ users' = [users EXCEPT ![Input[j].email] = Input[j].password]
    /\ job' = [job EXCEPT ![j].step = "report", ![j].created = users[Input[j].email] = NoUser]
    /\ UNCHANGED <<now, skew, tokens, served>>

\* Faulty variant: no row returned is no reason not to report a creation.
CreateAndBoast(j) ==
    /\ job[j].step = "insert"
    /\ users' = [users EXCEPT ![Input[j].email] = IF @ = NoUser THEN Input[j].password ELSE @]
    /\ job' = [job EXCEPT ![j].step = "report", ![j].created = TRUE]
    /\ UNCHANGED <<now, skew, tokens, served>>

\* ON CONFLICT (email) DO NOTHING; no row returned means the e-mail was taken.
CreateIfAbsent(j) ==
    /\ job[j].step = "insert"
    /\ users' = [users EXCEPT ![Input[j].email] = IF @ = NoUser THEN Input[j].password ELSE @]
    /\ job' = [job EXCEPT ![j].step = "report", ![j].created = users[Input[j].email] = NoUser]
    /\ UNCHANGED <<now, skew, tokens, served>>

Report(j) ==
    /\ job[j].step = "report"
    /\ StepsTo(j, IF job[j].created THEN "created" ELSE "left unchanged")
    /\ UNCHANGED users

\* Faulty variant: a failed pod is always replaced.
RestartPod(j) ==
    /\ job[j].step \in {"insert", "report", "failing"}
    /\ StepsTo(j, "waiting")
    /\ UNCHANGED users

\* Before the INSERT or after it: no connection, a timeout, a lost pod.
FailPod(j) ==
    /\ job[j].step \in {"insert", "report", "failing"}
    /\ StepsTo(j, IF job[j].tries < Tries THEN "waiting" ELSE "failed")
    /\ UNCHANGED users
-----------------------------------------------------------------------------
(* Tokens.                                                                 *)

Clock(replica) == now + skew[replica]

\* The account is read by e-mail and the password compared with its hash;
\* an unknown account and a wrong password are refused alike.
Login(replica, e, p) ==
    /\ users[e] = p
    /\ Cardinality(tokens) < MaxTokens
    /\ tokens' = tokens \cup {[email |-> e, password |-> p, issued |-> now,
                               exp |-> Clock(replica) + TTL]}
    /\ UNCHANGED <<users, job, now, skew, served>>

\* Faulty variant: the claims are read without looking at the time.
VerifySignature(replica, t) == t \in tokens

\* The signature is the program's own, and the token has not expired.
Verify(replica, t) == t \in tokens /\ Clock(replica) < t.exp

\* RequireAuth lets the request through to its handler.
Serve(replica, t) ==
    /\ Verify(replica, t)
    /\ served' = [token |-> t, at |-> now]
    /\ UNCHANGED <<users, job, now, skew, tokens>>

Tick ==
    /\ now < MaxTime
    /\ now' = now + 1
    /\ UNCHANGED <<users, job, skew, tokens, served>>

AccessNext ==
    \/ \E j \in Jobs : StartPod(j) \/ CreateIfAbsent(j) \/ Report(j) \/ FailPod(j)
    \/ \E replica \in Replicas :
        \/ \E e \in Emails, p \in Passwords : Login(replica, e, p)
        \/ \E t \in tokens : Serve(replica, t)
    \/ Tick

AccessSpec == AccessInit /\ [][AccessNext]_accessVars
-----------------------------------------------------------------------------
(* Properties.                                                             *)

Tokens == [email : Emails, password : Passwords, issued : 0..MaxTime, exp : Int]

AccessTypeOK ==
    /\ users \in [Emails -> Passwords \cup {NoUser}]
    /\ job \in [Jobs -> [step : {"waiting", "insert", "report", "failing", "failed",
                                 "created", "left unchanged"},
                         tries : 0..Tries, created : BOOLEAN]]
    /\ now \in 0..MaxTime
    /\ skew \in [Replicas -> Skews]
    /\ tokens \subseteq Tokens
    /\ served = NothingServed \/ (served.token \in tokens /\ served.at \in 0..now)

\* An account once created is never replaced, in particular its password is
\* not, whatever jobs run, fail and are tried again.
AccountNeverReplaced ==
    [][\A e \in Emails : users[e] # NoUser => users'[e] = users[e]]_users

Reports(word) == {j \in Jobs : job[j].step = word}

\* What the jobs report is true: an account reported as created has the
\* password of the job that says so, no two jobs say so of one e-mail, and an
\* account reported as left unchanged exists.
ReportsAreTrue ==
    /\ \A j \in Reports("created") : users[Input[j].email] = Input[j].password
    /\ \A i, j \in Reports("created") : Input[i].email = Input[j].email => i = j
    /\ \A j \in Reports("left unchanged") : users[Input[j].email] # NoUser

\* Whichever replicas issued and checked it, a token lets a request through
\* only if its account still has the password it was issued for, and for no
\* longer than the TTL and the difference of the two clocks.
TokensLapse ==
    LET t == served.token IN
    t # NoToken =>
        /\ users[t.email] = t.password
        /\ \E issuer, checker \in Replicas :
            served.at - t.issued < TTL + skew[issuer] - skew[checker]
=============================================================================
