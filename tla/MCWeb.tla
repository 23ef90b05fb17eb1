------------------------------- MODULE MCWeb -------------------------------
(* The pages and the limiter for TLC: two records, users, files or clients  *)
(* on each, and the environments in which answers cross and calls fail.     *)
EXTENDS Web

CONSTANTS r1, r2, s1, s2, A, B, n1, n2, d1, d2

MCIds == {r1, r2}
MCSlots == {s1, s2}
MCPlaces == {A, B}
MCNotices == {n1, n2}
MCDesigns == {d1, d2}

Situation(p, patient, others, faults) ==
  [page |-> p, patient |-> patient, others |-> others, faults |-> faults]
MCEnvs ==
  { Situation(p, TRUE, FALSE, FALSE) : p \in {"drops", "production", "payouts", "secondChance"} }
  \cup { Situation("payouts", FALSE, FALSE, FALSE), Situation("payouts", FALSE, TRUE, TRUE),
         Situation("secondChance", FALSE, FALSE, FALSE), Situation("secondChance", TRUE, TRUE, TRUE),
         Situation("production", TRUE, FALSE, TRUE) }

MCFormEnvs == [patient : BOOLEAN, faults : BOOLEAN]
MCWishlistEnvs == [page : {"panel", "button"}, patient : BOOLEAN, faults : BOOLEAN]

File(category, n, type, fits) == [category |-> category, n |-> n, type |-> type, fits |-> fits]
MCPortfolio ==
  { File("design_original", 1, "pdf", TRUE), File("design_original", 2, "png", FALSE),
    File("design_preview", 1, "jpeg", TRUE), File("design_preview", 2, "webp", TRUE),
    File("mockup", 1, "png", TRUE), File("mockup", 2, "pdf", TRUE),
    File("designer_application_file", 1, "pdf", TRUE),
    File("designer_application_file", 2, "jpeg", TRUE) }
Mood(p, patient, faults, others, slug) ==
  [page |-> p, patient |-> patient, faults |-> faults, others |-> others, slug |-> slug]
MCDesignerEnvs ==
  { Mood("application", TRUE, f, FALSE, FALSE) : f \in BOOLEAN }
  \cup { Mood("form", TRUE, FALSE, FALSE, s) : s \in BOOLEAN }
  \cup { Mood("form", TRUE, TRUE, FALSE, TRUE), Mood("form", TRUE, TRUE, FALSE, FALSE),
         Mood("form", FALSE, FALSE, TRUE, TRUE) }

MCConfigured == {0, 1}
=============================================================================
