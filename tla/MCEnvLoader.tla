---------------------------- MODULE MCEnvLoader ----------------------------
(***************************************************************************)
(* An instance of EnvLoader for TLC: APP_ENV, a variable with a built-in   *)
(* text, one with a blank and one with none (that no file sets), files of  *)
(* up to two lines, and the ways to lay out the YAML files.                *)
(***************************************************************************)
EXTENDS EnvLoader

CONSTANTS DB, PORT, EXTRA, one, two, prod, odd, name, section

AllTexts == {Blank, one, two, Dev, prod, odd}
Defaults == [k \in Keys |-> IF k = DB THEN one ELSE IF k = PORT THEN Blank ELSE Unset]

L(k, v) == [key |-> k, value |-> v]
Lines == {BadLine} \cup {L(APP_ENV, v) : v \in {Blank, prod, odd}} \cup {L(DB, v) : v \in {Blank, one, two}}
AllGivens == {[k \in Keys |-> IF k = APP_ENV THEN a ELSE IF k = DB THEN d ELSE Unset] :
                a \in {Unset, Blank, prod, odd}, d \in {Unset, Blank, two}}
UpToTwoLines == {NoFile, <<>>} \cup {<<l>> : l \in Lines} \cup {<<l, m>> : l \in Lines, m \in Lines}
UpToOneLine == {NoFile} \cup {<<l>> : l \in Lines}

M(d, p) == [f \in Fields |-> IF f = DB THEN d ELSE p]
D(n, s) == [x \in Names |-> IF x = name THEN n ELSE s]
Common == D(PORT, M(DB, PORT))        \* job.yaml
Overrides == D(Absent, M(PORT, Absent))  \* job-prod.yaml

Files(common, overrides, own) == [p \in Path |->
    IF p[2] = Base THEN (IF p[1] = "etc" THEN common ELSE NoFile)
    ELSE IF p[2] = prod THEN (IF p[1] = "etc" THEN overrides ELSE own)
    ELSE NoFile]
AllDisks == {Files(Common, Overrides, NoFile),     \* as in the repository
             Files(Common, Overrides, D(Absent, M(EXTRA, DB))),  \* one more in job/etc
             Files(Common, D(Absent, PORT), NoFile),   \* no map where there was one
             Files(D(PORT, DB), Overrides, NoFile),    \* a map where there was none
             Files(Common, Malformed, NoFile), Files(Nothing, Common, NoFile),
             Files(NoFile, Overrides, NoFile)}
\* Only the files of the repository, and its README's way to start.
RepositoryDisks == {Files(Common, Overrides, NoFile)}
READMEFlags == {<<"etc", prod>>}
AllFlags == {NoFile, <<"etc", prod>>, <<"etc", Base>>}
=============================================================================
