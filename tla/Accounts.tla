------------------------------ MODULE Accounts ------------------------------
(***************************************************************************)
(* Who may ask for what: AuthService and UsersService (registration, login,*)
(* logout), the guards in front of every route, and the permissions of the *)
(* roles.  A request is a task that advances by one action per await;      *)
(* Studio adds the requests of designers and their reviewers.              *)
(***************************************************************************)
EXTENDS Naturals, FiniteSets

CONSTANTS
  Accounts, Emails,  \* identifiers of user documents, addresses
  Workers,           \* requests in progress at once
  Envs               \* who works at once, whether calls fail, the users there are

Duties == {"register", "login", "block", "apply", "review", "design", "judge"}
Roles == {"user", "designer", "admin"}
NoAccount == [status |-> "absent"]
User == [status : {"active", "blocked"}, email : Emails, role : Roles]

ASSUME WorkersAssumption == IsFiniteSet(Workers)
ASSUME EnvsAssumption ==
  Envs \subseteq [ duties : [Workers -> SUBSET Duties], faults : BOOLEAN,
                   users : [Accounts -> User \cup {NoAccount}] ]
\* The unique index on email.
ASSUME UsersAssumption ==
  \A e \in Envs : \A a, b \in Accounts :
    e.users[a] # NoAccount /\ e.users[b] # NoAccount /\ e.users[a].email = e.users[b].email
      => a = b

VARIABLES
  env,      \* the one of Envs this behaviour is in
  account,  \* the user documents
  session,  \* accounts whose browser holds a session cookie
  task      \* what each request holds between two calls

accountVars == << env, account, session, task >>

\* USER_ROLE_PERMISSIONS, of the routes modelled here and in Studio.
Permissions ==
  [ user |-> {"apply"}, designer |-> {"apply", "design"}, admin |-> {"review", "judge"} ]

Idle == [step |-> "idle"]
Free(w, duty) == duty \in env.duties[w] /\ task[w] = Idle
At(w, step) == task[w].step = step
Hold(w, t) == task' = [task EXCEPT ![w] = t]
Go(w, step) == Hold(w, [task[w] EXCEPT !.step = step])
Finish(w) == Hold(w, Idle)
Known == { a \in Accounts : account[a].status # "absent" }

\* AuthGuard and PermissionsGuard: the cookie names a user, whose document is
\* read, and it is this document's role that counts.
Admitted(a, permission) ==
  /\ a \in session \cap Known
  /\ account[a].status = "active"
  /\ permission \in Permissions[account[a].role]

AccountsInit ==
  /\ env \in Envs
  /\ account = env.users
  /\ session = Known
  /\ task = [w \in Workers |-> Idle]

-----------------------------------------------------------------------------
\* register: the address is looked for, and the password hashed.
RegisterFind(w) ==
  /\ Free(w, "register")
  /\ \E e \in Emails :
       /\ \A a \in Known : account[a].email # e
       /\ Hold(w, [step |-> "create", email |-> e])
  /\ UNCHANGED << env, account, session >>

\* Mutant: the address is not indexed as unique.
CreateAnyUser(w) ==
  /\ At(w, "create")
  /\ \E a \in Accounts \ Known :
       account' = [account EXCEPT ![a] =
         [status |-> "active", email |-> task[w].email, role |-> "user"]]
  /\ Finish(w)
  /\ UNCHANGED << env, session >>

\* createUser: the unique index on email refuses an address taken meanwhile.
RegisterCreate(w) ==
  /\ At(w, "create")
  /\ IF \E a \in Known : account[a].email = task[w].email
     THEN UNCHANGED account
     ELSE \E a \in Accounts \ Known :
            account' = [account EXCEPT ![a] =
              [status |-> "active", email |-> task[w].email, role |-> "user"]]
  /\ Finish(w)
  /\ UNCHANGED << env, session >>

\* login: the user is found, password and status are checked,
LoginFind(w) ==
  /\ Free(w, "login")
  /\ \E a \in Known :
       /\ account[a].status = "active"
       /\ Hold(w, [step |-> "sign", account |-> a])
  /\ UNCHANGED << env, account, session >>

\* the login is stamped and the session cookie is set.
LoginSign(w) ==
  /\ At(w, "sign")
  /\ session' = session \cup {task[w].account}
  /\ Finish(w)
  /\ UNCHANGED << env, account >>

\* logout clears the cookie.
Logout(a) ==
  /\ \E w \in Workers : "login" \in env.duties[w]
  /\ session' = session \ {a}
  /\ UNCHANGED << env, account, task >>

\* External: an operator blocks a user; no code does.
Block(a) ==
  /\ \E w \in Workers : "block" \in env.duties[w]
  /\ account[a].status = "active"
  /\ account' = [account EXCEPT ![a].status = "blocked"]
  /\ UNCHANGED << env, session, task >>

\* A call fails or the process restarts: the request ends where it is.
Fail(w) ==
  /\ env.faults
  /\ ~At(w, "idle")
  /\ Finish(w)
  /\ UNCHANGED << env, account, session >>

AccountActions ==
  \/ \E w \in Workers :
       RegisterFind(w) \/ RegisterCreate(w) \/ LoginFind(w) \/ LoginSign(w) \/ Fail(w)
  \/ \E a \in Accounts : Logout(a) \/ Block(a)
=============================================================================
