--------------------------- MODULE AdminAccessProofs ---------------------------
(***************************************************************************)
(* Proofs about AdminAccess for any number of bootstrap jobs, whatever     *)
(* e-mails and passwords they compete with, any number of replicas and any *)
(* clocks.                                                                 *)
(***************************************************************************)
EXTENDS AdminAccess, TLAPS

-----------------------------------------------------------------------------
(* Accounts.                                                               *)

UsersType == users \in [Emails -> Passwords \cup {NoUser}]

\* The conflict clause adds a missing account and touches no other.
LEMMA CreationAddsOnly ==
  ASSUME UsersType, NEW j \in Jobs, CreateIfAbsent(j)
  PROVE  /\ UsersType'
         /\ \A e \in Emails : users[e] # NoUser => users'[e] = users[e]
         /\ users'[Input[j].email] # NoUser
         /\ users[Input[j].email] = NoUser => users'[Input[j].email] = Input[j].password
  <1>1. Input[j].email \in Emails /\ Input[j].password \in Passwords
    BY JobsAssumption
  <1>2. users' = [users EXCEPT ![Input[j].email] = IF @ = NoUser THEN Input[j].password ELSE @]
    BY DEF CreateIfAbsent
  <1>3. QED
    BY <1>1, <1>2, NoUserAssumption DEF UsersType

\* Only an INSERT writes accounts.
LEMMA OtherStepsKeepUsers ==
  ASSUME [AccessNext]_accessVars, \A j \in Jobs : ~ CreateIfAbsent(j)
  PROVE  UNCHANGED users
  BY DEF AccessNext, accessVars, StartPod, Report, FailPod, Login, Serve, Tick

\* An account once created is never replaced, whatever jobs run, fail and are
\* tried again.
THEOREM AccountsAreNeverReplaced == AccessSpec => AccountNeverReplaced
<1>1. AccessInit => UsersType
  BY DEF AccessInit, UsersType
<1>2. UsersType /\ [AccessNext]_accessVars
        => UsersType' /\ \A e \in Emails : users[e] # NoUser => users'[e] = users[e]
  <2> SUFFICES ASSUME UsersType, [AccessNext]_accessVars
               PROVE  UsersType' /\ \A e \in Emails : users[e] # NoUser => users'[e] = users[e]
    OBVIOUS
  <2>1. ASSUME NEW j \in Jobs, CreateIfAbsent(j)
        PROVE  UsersType' /\ \A e \in Emails : users[e] # NoUser => users'[e] = users[e]
    BY <2>1, CreationAddsOnly
  <2>2. CASE UNCHANGED users
    BY <2>2 DEF UsersType
  <2>3. QED
    BY <2>1, <2>2, OtherStepsKeepUsers
<1>3. QED
  BY <1>1, <1>2, PTL DEF AccessSpec, AccountNeverReplaced
-----------------------------------------------------------------------------
(* Reports.                                                                *)

JobSteps == {"waiting", "insert", "report", "failing", "failed", "created", "left unchanged"}

JobsType == job \in [Jobs -> [step : JobSteps, tries : Nat, created : BOOLEAN]]

\* A job that knows the outcome of its INSERT, whether it said so or not.
Inserted(j) == job[j].step \in {"report", "created", "left unchanged"}

\* It is the creator of its e-mail's account.
Creator(j) == Inserted(j) /\ job[j].created

ReportInv ==
    /\ UsersType
    /\ JobsType
    /\ \A j \in Jobs :
        /\ Inserted(j) => users[Input[j].email] # NoUser
        /\ Creator(j) => users[Input[j].email] = Input[j].password
        /\ job[j].step = "created" => job[j].created
    /\ \A i, j \in Jobs : Creator(i) /\ Creator(j) /\ Input[i].email = Input[j].email => i = j

\* What the jobs report is true, and of two jobs for one e-mail at most one
\* reports a creation.
THEOREM ReportsAreAlwaysTrue == AccessSpec => []ReportsAreTrue
<1>1. AccessInit => ReportInv
  <2> SUFFICES ASSUME AccessInit PROVE ReportInv
    OBVIOUS
  <2>1. UsersType
    BY DEF AccessInit, UsersType
  <2>2. NewJob \in [step : JobSteps, tries : Nat, created : BOOLEAN]
    BY DEF NewJob, JobSteps
  <2>3. \A j \in Jobs : job[j] = NewJob
    BY DEF AccessInit
  <2>4. JobsType
    BY <2>2 DEF AccessInit, JobsType
  <2>5. \A j \in Jobs : job[j].step = "waiting"
    BY <2>3 DEF NewJob
  <2>6. \A j \in Jobs : ~ Inserted(j) /\ job[j].step # "created"
    BY <2>5 DEF Inserted
  <2>7. QED
    BY <2>1, <2>4, <2>6 DEF ReportInv, Creator
<1>2. ReportInv /\ [AccessNext]_accessVars => ReportInv'
  <2> SUFFICES ASSUME ReportInv, [AccessNext]_accessVars PROVE ReportInv'
    OBVIOUS
  <2>1. ASSUME NEW j \in Jobs, CreateIfAbsent(j) PROVE ReportInv'
    <3>1. /\ UsersType'
          /\ \A e \in Emails : users[e] # NoUser => users'[e] = users[e]
          /\ users'[Input[j].email] # NoUser
          /\ users[Input[j].email] = NoUser => users'[Input[j].email] = Input[j].password
      BY <2>1, CreationAddsOnly DEF ReportInv
    <3>2. job' = [job EXCEPT ![j].step = "report", ![j].created = users[Input[j].email] = NoUser]
      BY <2>1 DEF CreateIfAbsent
    <3>3. JobsType'
      <4>1. (users[Input[j].email] = NoUser) \in BOOLEAN
        OBVIOUS
      <4>2. PICK c \in BOOLEAN : c = (users[Input[j].email] = NoUser)
        BY <4>1
      <4>3. job' = [job EXCEPT ![j].step = "report", ![j].created = c]
        BY <3>2, <4>2, Zenon
      <4>4. QED
        BY <4>3 DEF ReportInv, JobsType, JobSteps
    <3>4. \A i \in Jobs : Input[i].email \in Emails
      BY JobsAssumption
    <3>5. /\ job'[j].step = "report"
          /\ job'[j].created <=> users[Input[j].email] = NoUser
          /\ \A i \in Jobs : i # j => job'[i] = job[i]
      BY <3>2 DEF ReportInv, JobsType
    <3>6. ASSUME NEW i \in Jobs
          PROVE  /\ Inserted(i)' => users'[Input[i].email] # NoUser
                 /\ Creator(i)' => users'[Input[i].email] = Input[i].password
                 /\ job'[i].step = "created" => job'[i].created
      <4>1. CASE i = j
        BY <3>1, <3>5, <4>1 DEF Creator
      <4>2. CASE i # j
        <5>1. job'[i] = job[i]
          BY <3>5, <4>2
        <5>2. /\ Inserted(i)' => Inserted(i)
              /\ Creator(i)' => Creator(i)
              /\ job'[i].step = "created" => job'[i].created
          BY <5>1, Zenon DEF Creator, Inserted, ReportInv
        <5>3. /\ Inserted(i) => users[Input[i].email] # NoUser
              /\ Creator(i) => users[Input[i].email] = Input[i].password
          BY DEF ReportInv
        <5>4. users[Input[i].email] # NoUser => users'[Input[i].email] = users[Input[i].email]
          BY <3>1, <3>4
        <5>5. Creator(i) => Inserted(i)
          BY DEF Creator
        <5>6. QED
          BY <5>2, <5>3, <5>4, <5>5, Zenon
      <4>3. QED
        BY <4>1, <4>2
    <3>7. ASSUME NEW i \in Jobs, i # j, Creator(i)', Creator(j)' PROVE Input[i].email # Input[j].email
      <4>1. users[Input[j].email] = NoUser
        BY <3>5, <3>7 DEF Creator
      <4>2. users[Input[i].email] # NoUser
        BY <3>5, <3>7 DEF Creator, Inserted, ReportInv
      <4>3. QED
        BY <4>1, <4>2
    <3>8. ASSUME NEW i \in Jobs, NEW k \in Jobs, Creator(i)', Creator(k)',
                 Input[i].email = Input[k].email
          PROVE  i = k
      BY <3>5, <3>7, <3>8 DEF Creator, Inserted, ReportInv
    <3>9. QED
      BY <3>1, <3>3, <3>6, <3>8 DEF ReportInv
  <2>2. ASSUME NEW j \in Jobs, StartPod(j) \/ Report(j) \/ FailPod(j) PROVE ReportInv'
    <3>1. UNCHANGED users
      BY <2>2 DEF StartPod, Report, FailPod
    <3>2. JobsType'
      <4>1. CASE StartPod(j)
        <5>1. PICK step \in JobSteps :
                job' = [job EXCEPT ![j] = [step |-> step, tries |-> @.tries + 1, created |-> FALSE]]
          BY <4>1 DEF StartPod, JobSteps
        <5>2. QED
          BY <5>1 DEF ReportInv, JobsType
      <4>2. CASE Report(j) \/ FailPod(j)
        <5>1. PICK step \in JobSteps : job' = [job EXCEPT ![j].step = step]
          BY <4>2 DEF Report, FailPod, StepsTo, JobSteps
        <5>2. QED
          BY <5>1 DEF ReportInv, JobsType
      <4>3. QED
        BY <2>2, <4>1, <4>2
    <3>3. \A i \in Jobs : i # j => job'[i] = job[i]
      BY <2>2 DEF StartPod, Report, FailPod, StepsTo, ReportInv, JobsType
    <3>4. /\ Inserted(j)' => Inserted(j) /\ job'[j].created = job[j].created
          /\ job'[j].step = "created" => job'[j].created
      <4>1. CASE StartPod(j)
        <5>1. job'[j].step \in {"insert", "failing"}
          BY <4>1 DEF StartPod, ReportInv, JobsType
        <5>2. QED
          BY <5>1 DEF Inserted
      <4>2. CASE Report(j)
        <5>1. /\ job[j].step = "report"
              /\ job'[j].step = IF job[j].created THEN "created" ELSE "left unchanged"
              /\ job'[j].created = job[j].created
          BY <4>2 DEF Report, StepsTo, ReportInv, JobsType
        <5>2. QED
          BY <5>1 DEF Inserted
      <4>3. CASE FailPod(j)
        <5>1. job'[j].step \in {"waiting", "failed"}
          BY <4>3 DEF FailPod, StepsTo, ReportInv, JobsType
        <5>2. QED
          BY <5>1 DEF Inserted
      <4>4. QED
        BY <2>2, <4>1, <4>2, <4>3
    <3>5. QED
      BY <3>1, <3>2, <3>3, <3>4 DEF ReportInv, UsersType, Inserted, Creator
  <2>3. CASE UNCHANGED <<users, job>>
    BY <2>3 DEF ReportInv, UsersType, JobsType, Inserted, Creator
  <2>4. QED
    BY <2>1, <2>2, <2>3 DEF AccessNext, accessVars, Login, Serve, Tick
<1>3. ReportInv => ReportsAreTrue
  BY DEF ReportInv, ReportsAreTrue, Reports, Inserted, Creator
<1>4. QED
  BY <1>1, <1>2, <1>3, PTL DEF AccessSpec
-----------------------------------------------------------------------------
(* Tokens.                                                                 *)

TokenRecords == [email : Emails, password : Passwords, issued : Int, exp : Int]

\* A token was issued by some replica, to an account that still has the
\* password.
Issued(t) ==
    /\ users[t.email] = t.password
    /\ \E issuer \in Replicas : t.exp = t.issued + skew[issuer] + TTL

TokenInv ==
    /\ UsersType
    /\ now \in Int
    /\ skew \in [Replicas -> Int]
    /\ tokens \subseteq TokenRecords
    /\ \A t \in tokens : Issued(t)
    /\ served.token # NoToken => served.token \in tokens
    /\ TokensLapse

\* Whichever replicas issued and checked it, a token lets a request through
\* only if its account still has the password it was issued for, and for no
\* longer than the TTL and the difference of the two clocks.
THEOREM TokensAlwaysLapse == AccessSpec => []TokensLapse
<1>1. AccessInit => TokenInv
  <2> SUFFICES ASSUME AccessInit PROVE TokenInv
    OBVIOUS
  <2>1. skew \in [Replicas -> Int]
    BY ClocksAssumption DEF AccessInit
  <2>2. served.token = NoToken
    BY DEF AccessInit, NothingServed
  <2>3. QED
    BY <2>1, <2>2 DEF AccessInit, TokenInv, UsersType, TokensLapse
<1>2. TokenInv /\ [AccessNext]_accessVars => TokenInv'
  <2> SUFFICES ASSUME TokenInv, [AccessNext]_accessVars PROVE TokenInv'
    OBVIOUS
  <2>1. ASSUME NEW j \in Jobs, CreateIfAbsent(j) PROVE TokenInv'
    <3>1. UsersType' /\ \A e \in Emails : users[e] # NoUser => users'[e] = users[e]
      BY <2>1, CreationAddsOnly DEF TokenInv
    <3>2. UNCHANGED <<now, skew, tokens, served>>
      BY <2>1 DEF CreateIfAbsent
    <3>3. ASSUME NEW t \in tokens PROVE Issued(t)'
      BY <3>1, <3>2, NoUserAssumption DEF TokenInv, Issued, TokenRecords
    <3>4. TokensLapse'
      BY <3>1, <3>2, NoUserAssumption DEF TokenInv, TokensLapse, TokenRecords
    <3>5. QED
      BY <3>1, <3>2, <3>3, <3>4 DEF TokenInv
  <2>2. ASSUME NEW replica \in Replicas, NEW e \in Emails, NEW p \in Passwords,
               Login(replica, e, p)
        PROVE  TokenInv'
    <3> DEFINE t == [email |-> e, password |-> p, issued |-> now, exp |-> Clock(replica) + TTL]
    <3>1. /\ tokens' = tokens \cup {t}
          /\ users[e] = p
          /\ UNCHANGED <<users, job, now, skew, served>>
      BY <2>2 DEF Login
    <3>2. t \in TokenRecords
      BY ClocksAssumption DEF TokenInv, TokenRecords, Clock
    <3>3. t.email = e /\ t.password = p /\ t.exp = t.issued + skew[replica] + TTL
      BY ClocksAssumption DEF TokenInv, Clock
    <3> HIDE DEF t
    <3>4. /\ users'[t.email] = t.password
          /\ \E issuer \in Replicas : t.exp = t.issued + skew'[issuer] + TTL
      BY <3>1, <3>3
    <3>5. ASSUME NEW u \in tokens'
          PROVE  /\ u \in TokenRecords
                 /\ users'[u.email] = u.password
                 /\ \E issuer \in Replicas : u.exp = u.issued + skew'[issuer] + TTL
      BY <3>1, <3>2, <3>4 DEF TokenInv, Issued
    <3>6. TokensLapse'
      BY <3>1 DEF TokenInv, TokensLapse
    <3>7. UsersType' /\ now' \in Int /\ skew' \in [Replicas -> Int]
      BY <3>1 DEF TokenInv, UsersType
    <3>8. served'.token # NoToken => served'.token \in tokens'
      BY <3>1 DEF TokenInv
    <3>9. \A u \in tokens' : Issued(u)'
      BY <3>5 DEF Issued
    <3>10. tokens' \subseteq TokenRecords
      BY <3>5
    <3>11. QED
      BY <3>6, <3>7, <3>8, <3>9, <3>10 DEF TokenInv
  <2>3. ASSUME NEW replica \in Replicas, NEW t \in tokens, Serve(replica, t) PROVE TokenInv'
    <3>1. /\ now + skew[replica] < t.exp
          /\ served' = [token |-> t, at |-> now]
          /\ UNCHANGED <<users, job, now, skew, tokens>>
      BY <2>3 DEF Serve, Verify, Clock
    <3>2. t \in TokenRecords /\ Issued(t)
      BY DEF TokenInv
    <3>3. PICK issuer \in Replicas : t.exp = t.issued + skew[issuer] + TTL
      BY <3>2 DEF Issued
    <3>4. now - t.issued < TTL + skew[issuer] - skew[replica]
      BY <3>1, <3>2, <3>3, ClocksAssumption DEF TokenInv, TokenRecords
    <3>5. TokensLapse'
      BY <3>1, <3>2, <3>4 DEF TokensLapse, Issued
    <3>6. QED
      BY <3>1, <3>5 DEF TokenInv, UsersType, Issued
  <2>4. CASE Tick
    BY <2>4 DEF Tick, TokenInv, UsersType, Issued, TokensLapse
  <2>5. ASSUME NEW j \in Jobs, StartPod(j) \/ Report(j) \/ FailPod(j) PROVE TokenInv'
    <3>1. UNCHANGED <<users, now, skew, tokens, served>>
      BY <2>5 DEF StartPod, Report, FailPod, StepsTo
    <3>2. QED
      BY <3>1 DEF TokenInv, UsersType, Issued, TokensLapse
  <2>6. CASE UNCHANGED accessVars
    BY <2>6 DEF accessVars, TokenInv, UsersType, Issued, TokensLapse
  <2>7. QED
    BY <2>1, <2>2, <2>3, <2>4, <2>5, <2>6 DEF AccessNext
<1>3. TokenInv => TokensLapse
  BY DEF TokenInv
<1>4. QED
  BY <1>1, <1>2, <1>3, PTL DEF AccessSpec
-----------------------------------------------------------------------------
(* Type correctness.                                                       *)

\* A job that waits has a try left, which is what bounds its pods.
TriesLeft == \A j \in Jobs : job[j].step = "waiting" => job[j].tries < Tries

\* A job moves on within its tries.
LEMMA JobsStayTyped ==
  ASSUME AccessTypeOK, TriesLeft, NEW j \in Jobs,
         StartPod(j) \/ CreateIfAbsent(j) \/ Report(j) \/ FailPod(j)
  PROVE  AccessTypeOK' /\ TriesLeft'
<1> DEFINE Records == [step : {"waiting", "insert", "report", "failing", "failed",
                               "created", "left unchanged"},
                       tries : 0..Tries, created : BOOLEAN]
<1>1. /\ job \in [Jobs -> Records] /\ users \in [Emails -> Passwords \cup {NoUser}]
      /\ Tries \in Nat /\ job[j].tries \in 0..Tries /\ job[j].created \in BOOLEAN
      /\ job[j] \in Records
  <2>1. job \in [Jobs -> Records] /\ users \in [Emails -> Passwords \cup {NoUser}]
    BY DEF AccessTypeOK
  <2>2. job[j] \in Records
    BY <2>1
  <2>3. job[j].tries \in 0..Tries /\ job[j].created \in BOOLEAN
    BY <2>2, Zenon
  <2>4. QED
    BY <2>1, <2>2, <2>3, TriesAssumption
<1>2. UNCHANGED <<now, skew, tokens, served>>
  BY DEF StartPod, CreateIfAbsent, Report, FailPod, StepsTo
<1>3. ASSUME NEW new \in Records, job' = [job EXCEPT ![j] = new],
             new.step = "waiting" => new.tries < Tries
      PROVE  job' \in [Jobs -> Records] /\ TriesLeft'
  BY <1>1, <1>3 DEF TriesLeft
<1>4. CASE StartPod(j)
  <2>1. job[j].tries \in Nat /\ job[j].tries < Tries
    <3>1. job[j].step = "waiting"
      BY <1>4 DEF StartPod
    <3>2. job[j].tries < Tries
      BY <3>1 DEF TriesLeft
    <3>3. Tries \in Nat /\ job[j].tries \in 0..Tries
      BY <1>1
    <3>4. QED
      BY <3>2, <3>3
  <2>2. PICK step \in {"insert", "failing"} :
          job' = [job EXCEPT ![j] = [step    |-> step,
                                     tries   |-> job[j].tries + 1,
                                     created |-> FALSE]]
    BY <1>4 DEF StartPod
  <2>3. [step |-> step, tries |-> job[j].tries + 1, created |-> FALSE] \in Records
    <3>1. job[j].tries + 1 \in 0..Tries
      <4>1. Tries \in Nat
        BY <1>1
      <4>2. QED
        BY <2>1, <4>1
    <3>2. QED
      BY <3>1, Zenon
  <2>4. job' \in [Jobs -> Records] /\ TriesLeft'
    BY <1>3, <2>2, <2>3
  <2>5. QED
    BY <1>2, <1>4, <2>4 DEF StartPod, AccessTypeOK
<1>5. CASE CreateIfAbsent(j)
  <2>1. users' \in [Emails -> Passwords \cup {NoUser}]
    BY <1>1, <1>5, CreationAddsOnly DEF UsersType
  <2>2. PICK created \in BOOLEAN :
          job' = [job EXCEPT ![j].step = "report", ![j].created = created]
    BY <1>5 DEF CreateIfAbsent
  <2>3. job' = [job EXCEPT ![j] = [job[j] EXCEPT !.step = "report", !.created = created]]
    BY <1>1, <2>2
  <2>4. job' \in [Jobs -> Records] /\ TriesLeft'
    <3>1. /\ [job[j] EXCEPT !.step = "report", !.created = created] \in Records
          /\ [job[j] EXCEPT !.step = "report", !.created = created].step = "report"
      BY <1>1, Zenon
    <3>2. QED
      BY <1>3, <2>3, <3>1
  <2>5. QED
    BY <1>2, <2>1, <2>4 DEF AccessTypeOK
<1>6. CASE Report(j) \/ FailPod(j)
  <2>1. PICK step \in {"waiting", "failed", "created", "left unchanged"} :
          /\ job' = [job EXCEPT ![j].step = step] /\ users' = users
          /\ step = "waiting" => job[j].tries < Tries
    BY <1>6 DEF Report, FailPod, StepsTo
  <2>2. job' = [job EXCEPT ![j] = [job[j] EXCEPT !.step = step]]
    BY <1>1, <2>1
  <2>3. job' \in [Jobs -> Records] /\ TriesLeft'
    BY <1>1, <1>3, <2>1, <2>2
  <2>4. QED
    BY <1>2, <2>1, <2>3 DEF AccessTypeOK
<1>7. QED
  BY <1>4, <1>5, <1>6

\* No job uses more pods than it may, every token is of an account, and what
\* is served has a token.
THEOREM AccessTypeCorrect == AccessSpec => []AccessTypeOK
<1>1. AccessInit => AccessTypeOK /\ TriesLeft
  BY TriesAssumption, ClocksAssumption DEF AccessInit, NewJob, AccessTypeOK, TriesLeft
<1>2. AccessTypeOK /\ TriesLeft /\ [AccessNext]_accessVars => AccessTypeOK' /\ TriesLeft'
  <2> SUFFICES ASSUME AccessTypeOK, TriesLeft, [AccessNext]_accessVars
               PROVE  AccessTypeOK' /\ TriesLeft'
    OBVIOUS
  <2>1. ASSUME NEW j \in Jobs, StartPod(j) \/ CreateIfAbsent(j) \/ Report(j) \/ FailPod(j)
        PROVE  AccessTypeOK' /\ TriesLeft'
    BY <2>1, JobsStayTyped
  <2>2. ASSUME NEW replica \in Replicas, NEW e \in Emails, NEW p \in Passwords,
               Login(replica, e, p)
        PROVE  AccessTypeOK' /\ TriesLeft'
    <3>1. /\ UNCHANGED <<users, job, now, skew, served>>
          /\ tokens' = tokens \cup {[email |-> e, password |-> p, issued |-> now,
                                     exp |-> Clock(replica) + TTL]}
      BY <2>2 DEF Login
    <3>2. /\ now \in 0..MaxTime /\ skew[replica] \in Skews
          /\ tokens \subseteq Tokens
      BY DEF AccessTypeOK
    <3>3. Clock(replica) + TTL \in Int
      <4>1. now \in Int /\ skew[replica] \in Int /\ TTL \in Int
        <5>1. Skews \subseteq Int /\ TTL \in Int /\ MaxTime \in Nat
          BY ClocksAssumption
        <5>2. now \in Int
          BY <3>2, <5>1
        <5>3. skew[replica] \in Int
          BY <3>2, <5>1, Zenon
        <5>4. QED
          BY <5>1, <5>2, <5>3
      <4>2. QED
        BY <4>1 DEF Clock
    <3>4. tokens' \subseteq Tokens /\ tokens \subseteq tokens'
      BY <3>1, <3>2, <3>3 DEF Tokens
    <3>5. QED
      BY <3>1, <3>4 DEF AccessTypeOK, TriesLeft
  <2>3. ASSUME NEW replica \in Replicas, NEW t \in tokens, Serve(replica, t)
        PROVE  AccessTypeOK' /\ TriesLeft'
    <3>1. /\ UNCHANGED <<users, job, now, skew, tokens>>
          /\ served'.token = t /\ served'.at = now
      BY <2>3 DEF Serve
    <3>2. now \in 0..now
      <4>1. now \in 0..MaxTime /\ MaxTime \in Nat
        BY ClocksAssumption DEF AccessTypeOK
      <4>2. QED
        BY <4>1
    <3>3. QED
      BY <2>3, <3>1, <3>2 DEF AccessTypeOK, TriesLeft
  <2>4. CASE Tick
    <3>1. UNCHANGED <<users, job, skew, tokens, served>> /\ now' = now + 1 /\ now < MaxTime
      BY <2>4 DEF Tick
    <3>2. now \in 0..MaxTime /\ MaxTime \in Nat
      BY ClocksAssumption DEF AccessTypeOK
    <3>3. now' \in 0..MaxTime /\ 0..now \subseteq 0..now'
      BY <3>1, <3>2
    <3>4. QED
      BY <3>1, <3>3 DEF AccessTypeOK, TriesLeft
  <2>5. CASE UNCHANGED accessVars
    BY <2>5 DEF accessVars, AccessTypeOK, TriesLeft
  <2>6. QED
    BY <2>1, <2>2, <2>3, <2>4, <2>5 DEF AccessNext
<1>3. QED
  BY <1>1, <1>2, PTL DEF AccessSpec
=============================================================================
