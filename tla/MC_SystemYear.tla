---- MODULE MC_SystemYear ----
(* One career of the migration, which may be closed, and one to create.      *)
EXTENDS SystemYear

Body(name, module, upper, active) ==
  [name |-> name, module |-> module, upper |-> upper, active |-> active]

Software == {Body("Software", "SOFT", TRUE, TRUE)}

SoftwareClosed == {Body("Software", "SOFT", TRUE, FALSE)}

Civil == {Body("Civil", "CIVI", TRUE, TRUE)}

(* Two of the three modules of the faculty: SUDE is made as FACU is.         *)
FacultyAndCertificates == <<"FACU", "COMM">>

SomeYears == 2024..2026

ModuleOfNextYear == {<<"SOFT", 2025>>}

(* Only changes of year are asked for at the same time.                     *)
OneAtATime == {"yearModule", "career", "module", "folders", "work"}
====
