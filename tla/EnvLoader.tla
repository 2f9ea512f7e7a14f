----------------------------- MODULE EnvLoader -----------------------------
(***************************************************************************)
(* How a process gets its settings when it starts: envloader.Load fills    *)
(* the environment from .env, .env.job and built-in values, LoadConfig     *)
(* lays the profile's YAML file over the common one and replaces the       *)
(* variables they name.  main panics on any error.                         *)
(*                                                                         *)
(* A text is what is left of a value after TrimSpace and unquoting; Blank  *)
(* stands for all that are empty then.  Every leaf of a YAML file is a     *)
(* variable, as in the repository's files, and every map in them is one    *)
(* level deep.                                                             *)
(***************************************************************************)
EXTENDS Integers, Sequences

CONSTANTS
    Keys,       \* names of environment variables
    APP_ENV,    \* the one that names the profile
    Texts,      \* their values
    Blank,
    Unset,      \* "no such variable"
    defaultValues,
    Supported,  \* supportedEnvironments
    Dev,        \* "dev"
    Names,      \* top-level names of the configuration
    Fields,     \* names below them
    Required,   \* top-level names go-zero insists on
    Absent,     \* "not in the file"
    Base,       \* the profile of the common file, job.yaml
    NoFile, BadLine, Malformed,
    Givens, DotEnvs, JobEnvs, Disks, Flags   \* what a process may find

VARIABLES
    given,   \* the environment the process is started with
    dotenv,  \* .env
    jobenv,  \* .env.job
    disk,    \* the YAML files
    flag,    \* -f, or NoFile
    environ, \* os.Environ
    at,      \* what main does next
    config   \* the configuration it serves with

inputs == <<given, dotenv, jobenv, disk, flag>>
vars == <<inputs, environ, at, config>>

Environments == [Keys -> Texts \cup {Unset}]
Line == [key : Keys, value : Texts] \cup {BadLine}
Maps == [Fields -> Keys \cup {Absent}]
Document == [Names -> Keys \cup Maps \cup {Absent}]
Dirs == {"job/etc", "etc"}     \* root/<service>/etc and root/etc
Path == Dirs \X (Supported \cup {Base})
Setting == Texts \cup [Fields -> Texts \cup {Absent}] \cup {Absent}

ASSUME KeysAssumption ==
    /\ APP_ENV \in Keys /\ Blank \in Texts /\ Unset \notin Texts
    /\ Supported \subseteq Texts \ {Blank} /\ Dev \in Supported /\ Base \notin Supported
    /\ defaultValues \in Environments /\ defaultValues[APP_ENV] = Unset
    /\ BadLine \notin [key : Keys, value : Texts]
    /\ Absent \notin Keys \cup Texts \cup Maps /\ Keys \cap Maps = {}
ASSUME FilesAssumption ==
    /\ Givens \subseteq Environments
    /\ DotEnvs \cup JobEnvs \subseteq Seq(Line) \cup {NoFile}
    /\ NoFile \notin Seq(Line)
    /\ Disks \subseteq [Path -> Document \cup {NoFile, Malformed}]
    /\ Malformed \notin Document \cup {NoFile} /\ NoFile \notin Document
    /\ Flags \subseteq Path \cup {NoFile}

TypeOK ==
    /\ given \in Givens
    /\ dotenv \in DotEnvs
    /\ jobenv \in JobEnvs
    /\ disk \in Disks
    /\ flag \in Flags
    /\ environ \in Environments
    /\ at \in {".env", ".env.job", "APP_ENV", "config", "serving", "panicked"}
    /\ config \in [Names -> Setting]

Nothing == [n \in Names |-> Absent]

Init ==
    /\ given \in Givens
    /\ dotenv \in DotEnvs
    /\ jobenv \in JobEnvs
    /\ disk \in Disks
    /\ flag \in Flags
    /\ environ = given
    /\ at = ".env"
    /\ config = Nothing

-----------------------------------------------------------------------------
(* Environment. *)

(* readFile: nothing from a file that is not there, an error from one with *)
(* a line that is no entry, of a key's lines the last one.                 *)
Unreadable(file) == file # NoFile /\ \E i \in DOMAIN file : file[i] = BadLine

readFile(file) == [k \in Keys |->
    IF file = NoFile \/ \A i \in DOMAIN file : file[i].key # k THEN Unset
    ELSE file[CHOOSE i \in DOMAIN file :
                /\ file[i].key = k
                /\ \A j \in DOMAIN file : file[j].key = k => j <= i].value]

setIfAllowed_Protected(k, value) ==
    IF given[k] # Unset \/ value = Unset THEN environ[k] ELSE value

(* Keys of the process and keys that have a text already are left alone. *)
setIfAllowed(k, value) ==
    IF given[k] # Unset \/ environ[k] \notin {Unset, Blank} \/ value = Unset
    THEN environ[k] ELSE value

apply(values) == [k \in Keys |-> setIfAllowed(k, values[k])]

Panic ==
    /\ at' = "panicked"
    /\ UNCHANGED <<inputs, environ, config>>

LoadDotEnv ==
    /\ at = ".env"
    /\ IF Unreadable(dotenv) THEN Panic
       ELSE /\ at' = ".env.job"
            /\ environ' = apply(readFile(dotenv))
            /\ UNCHANGED <<inputs, config>>

LoadJobEnv ==
    /\ at = ".env.job"
    /\ IF Unreadable(jobenv) THEN Panic
       ELSE /\ at' = "APP_ENV"
            /\ environ' = apply(readFile(jobenv))
            /\ UNCHANGED <<inputs, config>>

(* The value of APP_ENV, "dev" for a blank one. *)
currentEnv == IF environ[APP_ENV] \in {Unset, Blank} THEN Dev ELSE environ[APP_ENV]

(* The rest of Load: APP_ENV must name a profile; then the defaults.       *)
CheckAppEnv ==
    /\ at = "APP_ENV"
    /\ IF currentEnv \notin Supported THEN Panic
       ELSE /\ at' = "config"
            /\ environ' = apply([defaultValues EXCEPT ![APP_ENV] = Dev])
            /\ UNCHANGED <<inputs, config>>

-----------------------------------------------------------------------------
(* Configuration. *)

(* The first of two paths that exists. *)
Found(profile) ==
    IF disk[<<"job/etc", profile>>] # NoFile THEN <<"job/etc", profile>> ELSE <<"etc", profile>>

resolveBaseConfigFile == Found(Base)

ResolveConfigFile_CommonFirst ==
    IF disk[Found(Base)] # NoFile THEN Found(Base) ELSE Found(currentEnv)

(* The active profile's file; the common one if the profile has none. *)
ResolveConfigFile ==
    IF disk[Found(currentEnv)] # NoFile THEN Found(currentEnv)
    ELSE IF disk[Found(Base)] # NoFile THEN Found(Base) ELSE <<"etc", currentEnv>>

mergeMaps_Shallow(base, overlay) == [n \in Names |->
    IF overlay[n] = Absent THEN base[n] ELSE overlay[n]]

(* Maps are merged field by field, everything else replaces. *)
mergeMaps(base, overlay) == [n \in Names |->
    IF overlay[n] = Absent THEN base[n]
    ELSE IF overlay[n] \in Maps /\ base[n] \in Maps
    THEN [f \in Fields |-> IF overlay[n][f] = Absent THEN base[n][f] ELSE overlay[n][f]]
    ELSE overlay[n]]

(* os.ExpandEnv: a variable that is not set becomes the empty text. *)
Text_AsIs(k) == environ[k]
Text(k) == IF environ[k] = Unset THEN Blank ELSE environ[k]
ExpandEnv(doc) == [n \in Names |->
    IF doc[n] = Absent THEN Absent
    ELSE IF doc[n] \in Maps
    THEN [f \in Fields |-> IF doc[n][f] = Absent THEN Absent ELSE Text(doc[n][f])]
    ELSE Text(doc[n])]

Lacking(doc) == \E n \in Required : doc[n] = Absent

(* go-zero's conf: the process serves, or panics for want of a setting. *)
Use(doc) ==
    IF Lacking(doc) THEN Panic
    ELSE /\ at' = "serving"
         /\ config' = ExpandEnv(doc)
         /\ UNCHANGED <<inputs, environ>>

(* A common file that is empty leaves mergeMaps a nil map to write to.     *)
LoadConfig ==
    /\ at = "config"
    /\ LET alone == IF flag # NoFile THEN flag ELSE ResolveConfigFile
           base == resolveBaseConfigFile
       IN  IF flag # NoFile \/ alone = base
           THEN IF disk[alone] \in {NoFile, Malformed} THEN Panic ELSE Use(disk[alone])
           ELSE IF \/ disk[alone] = Malformed
                   \/ disk[base] \in {NoFile, Malformed, Nothing} THEN Panic
           ELSE Use(mergeMaps(disk[base], disk[alone]))

Next == LoadDotEnv \/ LoadJobEnv \/ CheckAppEnv \/ LoadConfig

Spec == Init /\ [][Next]_vars

-----------------------------------------------------------------------------
(* What a variable ought to be: as the process was given it, even blank;   *)
(* otherwise the first text among .env, .env.job and the built-in values.  *)
Sources(k) == <<readFile(dotenv)[k], readFile(jobenv)[k],
                IF k = APP_ENV THEN Dev ELSE defaultValues[k]>>
FirstText(s) ==
    IF s[1] \notin {Unset, Blank} THEN s[1]
    ELSE IF s[2] \notin {Unset, Blank} THEN s[2]
    ELSE IF s[3] \notin {Unset, Blank} THEN s[3]
    ELSE IF Blank \in {s[1], s[2], s[3]} THEN Blank ELSE Unset
Wanted(k) == IF given[k] # Unset THEN given[k] ELSE FirstText(Sources(k))
WantedText(k) == IF Wanted(k) = Unset THEN Blank ELSE Wanted(k)
WantedProfile == IF Wanted(APP_ENV) = Blank THEN Dev ELSE Wanted(APP_ENV)

(* "Variables already supplied by the process environment take             *)
(* precedence", and the three sources fill what they leave: no blank entry *)
(* of an earlier file hides a later text, no later file replaces a text.   *)
Precedence == at \in {"config", "serving"} => \A k \in Keys : environ[k] = Wanted(k)

Leaf(doc, n, f) == IF doc[n] \in Maps THEN doc[n][f] ELSE Absent
Shown(n, f) == IF config[n] \in [Fields -> Texts \cup {Absent}] THEN config[n][f] ELSE Absent

(* A process without -f serves with its own profile: the profile is one of *)
(* the four, and whatever its file says is what the process goes by.  (One *)
(* without a file serves with the common one.)                             *)
ServesItsProfile ==
    at = "serving" /\ flag = NoFile =>
        /\ WantedProfile \in Supported
        /\ disk[Found(WantedProfile)] # Malformed
        /\ disk[Found(WantedProfile)] # NoFile =>
             \A n \in Names, f \in Fields :
                 LET k == Leaf(disk[Found(WantedProfile)], n, f)
                 IN  k # Absent => Shown(n, f) = WantedText(k)

(* A profile of overrides takes no other setting away: a process has every *)
(* field of the common file, unless its profile has no map of that name.   *)
NothingLost ==
    at = "serving" /\ flag = NoFile /\ disk[Found(Base)] # NoFile =>
        \A n \in Names, f \in Fields :
            Leaf(disk[Found(Base)], n, f) # Absent
            /\ (disk[Found(WantedProfile)] # NoFile =>
                  disk[Found(WantedProfile)][n] \in Maps \cup {Absent})
            => Shown(n, f) # Absent

(* A configuration file of the repository given with -f starts the process *)
(* (README.md:75-79, "go run . -f etc/job-prod.yaml").  It does not hold:  *)
(* the file of a profile has overrides only.                               *)
ExplicitFileStarts ==
    flag # NoFile /\ disk[flag] \notin {NoFile, Malformed} /\ at = "panicked" =>
        Unreadable(dotenv) \/ Unreadable(jobenv) \/ WantedProfile \notin Supported
=============================================================================
