------------------------------ MODULE MCStudio ------------------------------
(* Instance of Studio for TLC. *)
EXTENDS Studio, TLC

CONSTANTS w1, w2, ann, bob, eve, x, y, z, r1, r2, f1, f2, d1, slug1

MCWorkers == {w1, w2}
MCAccounts == {ann, bob, eve}
MCEmails == {x, y, z}
MCRequests == {r1, r2}
MCFiles == {f1, f2}
MCDesigns == {d1}
MCSlugs == {slug1}
MCSymmetry == Permutations(MCFiles)

Active(email, role) == [status |-> "active", email |-> email, role |-> role]
\* ann is who the situation is about, eve the administrator; bob, if he is there,
\* is another user.
Users(ann_, bob_, eve_) ==
  [a \in MCAccounts |-> CASE a = ann -> ann_ [] a = bob -> bob_ [] a = eve -> eve_]
Situation(first, second, faults, users) ==
  [ duties |-> [w \in MCWorkers |-> IF w = w1 THEN first ELSE second],
    faults |-> faults, users |-> users ]

MCEnvs ==
  { Situation({"register", "login", "block"}, {"register", "login"}, FALSE,
              Users(NoAccount, NoAccount, NoAccount)),
    Situation({"apply"}, {"review"}, TRUE,
              Users(Active(x, "user"), Active(y, "user"), Active(z, "admin"))),
    Situation({"apply", "review"}, {"review"}, FALSE,
              Users(Active(x, "user"), NoAccount, Active(y, "admin"))),
    Situation({"apply"}, {"apply"}, FALSE,
              Users(Active(x, "user"), NoAccount, NoAccount)),
    Situation({"design"}, {"design", "judge"}, TRUE,
              Users(Active(x, "designer"), NoAccount, Active(y, "admin"))) }
=============================================================================
