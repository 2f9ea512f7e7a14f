---------------------------- MODULE ProcessProofs ----------------------------
(***************************************************************************)
(* Theorems about a process of the service: EnvLoader, with any variables, *)
(* files and profiles, gives it the settings that it was meant to have;    *)
(* and PeriodicTasks, with any patterns and expressions and any number of  *)
(* stops, gives no pattern two entries and, while the database answers,    *)
(* every enabled task its time.                                            *)
(***************************************************************************)
EXTENDS EnvLoader, PeriodicTasks, WellFoundedInduction, TLAPS

(***************************************************************************)
(* EnvLoader.                                                              *)
(***************************************************************************)

(* readFile: of a key's lines there is a last one, so a file that can be   *)
(* read gives every key a text or none.                                    *)
LEMMA Least ==
  ASSUME NEW S \in SUBSET Nat, NEW x \in S
  PROVE  \E m \in S : \A y \in S : m <= y
<1> DEFINE R == OpToRel(<, Nat)
<1>1. IsWellFoundedOn(R, Nat)
  BY NatLessThanWellFounded
<1>2. \A a, b \in Nat : <<a, b>> \in R <=> a < b
  BY DEF OpToRel
<1> HIDE DEF R
<1>3. PICK m \in S : \A y \in S : ~(<<y, m>> \in R)
  BY <1>1, WFMin
<1>4. ASSUME NEW y \in S PROVE m <= y
  <2>1. m \in Nat /\ y \in Nat /\ ~(y < m)
    BY <1>2, <1>3
  <2> QED
    BY <2>1
<1> QED
  BY <1>4

LEMMA ReadFileType ==
  ASSUME NEW file \in Seq(Line) \cup {NoFile}, ~Unreadable(file)
  PROVE  readFile(file) \in Environments
<1> SUFFICES ASSUME NEW k \in Keys PROVE readFile(file)[k] \in Texts \cup {Unset}
  BY DEF readFile, Environments
<1>1. CASE file = NoFile \/ \A i \in DOMAIN file : file[i].key # k
  BY <1>1 DEF readFile
<1>2. CASE file # NoFile /\ \E i \in DOMAIN file : file[i].key = k
  <2>1. file \in Seq(Line)
    BY <1>2
  <2>2. \A i \in DOMAIN file : file[i] \in [key : Keys, value : Texts]
    BY <1>2, <2>1 DEF Unreadable, Line
  <2> DEFINE n == Len(file)
             S == {n - i : i \in {j \in DOMAIN file : file[j].key = k}}
  <2>3. n \in Nat /\ DOMAIN file = 1 .. n
    BY <2>1
  <2>4. S \in SUBSET Nat /\ \E x \in S : TRUE
    <3>1. PICK i \in DOMAIN file : file[i].key = k
      BY <1>2
    <3>2. n - i \in S
      BY <3>1
    <3>3. S \in SUBSET Nat
      BY <2>3
    <3> QED
      BY <3>2, <3>3
  <2>5. PICK m \in S : \A j \in S : m <= j
    <3> HIDE DEF S
    <3> QED
      BY <2>4, Least
  <2>6. PICK i \in DOMAIN file : file[i].key = k /\ m = n - i
    BY <2>5
  <2>7. \A j \in DOMAIN file : file[j].key = k => j <= i
    <3> SUFFICES ASSUME NEW j \in DOMAIN file, file[j].key = k PROVE j <= i
      OBVIOUS
    <3>1. n - j \in S
      OBVIOUS
    <3>2. n - i <= n - j
      BY <2>5, <2>6, <3>1
    <3> QED
      BY <2>3, <3>2
  <2> DEFINE last == CHOOSE x \in DOMAIN file :
                       /\ file[x].key = k
                       /\ \A j \in DOMAIN file : file[j].key = k => j <= x
  <2>8. last \in DOMAIN file
    BY <2>6, <2>7
  <2>9. readFile(file)[k] = file[last].value
    BY <1>2 DEF readFile
  <2> QED
    BY <2>2, <2>8, <2>9
<1> QED
  BY <1>1, <1>2

LEMMA ApplyType ==
  ASSUME environ \in Environments, NEW values \in Environments
  PROVE  apply(values) \in Environments
  BY DEF apply, setIfAllowed, Environments

-----------------------------------------------------------------------------
(* What the environment is after the first file and after the second. *)
AfterOne(k) == IF given[k] # Unset THEN given[k] ELSE readFile(dotenv)[k]
AfterTwo(k) ==
    IF given[k] # Unset \/ AfterOne(k) \notin {Unset, Blank} \/ readFile(jobenv)[k] = Unset
    THEN AfterOne(k) ELSE readFile(jobenv)[k]

EnvInv ==
    /\ at = ".env" => environ = given
    /\ at = ".env.job" => \A k \in Keys : environ[k] = AfterOne(k)
    /\ at = "APP_ENV" => \A k \in Keys : environ[k] = AfterTwo(k)
    /\ Precedence
    /\ at \in {"config", "serving"} => WantedProfile \in Supported

LEMMA EnvInit == Init => EnvInv
  BY DEF Init, EnvInv, Precedence

(* The inputs stay, and with them what is wanted of them. *)
LEMMA InputsStay ==
  ASSUME UNCHANGED inputs
  PROVE  /\ \A k : Wanted(k)' = Wanted(k) /\ WantedText(k)' = WantedText(k)
         /\ WantedProfile' = WantedProfile
         /\ \A k : AfterOne(k)' = AfterOne(k) /\ AfterTwo(k)' = AfterTwo(k)
  BY DEF inputs, Wanted, WantedText, WantedProfile, AfterOne, AfterTwo, Sources, readFile

LEMMA DefaultsFill ==
  ASSUME EnvInv, at = "APP_ENV"
  PROVE  /\ \A k \in Keys : apply([defaultValues EXCEPT ![APP_ENV] = Dev])[k] = Wanted(k)
         /\ currentEnv = WantedProfile
<1>1. \A k \in Keys : environ[k] = AfterTwo(k)
  BY DEF EnvInv
<1>2. /\ APP_ENV \in Keys /\ Dev \notin {Unset, Blank} /\ Blank # Unset
      /\ DOMAIN defaultValues = Keys
  BY KeysAssumption DEF Environments
<1>3. ASSUME NEW k \in Keys
      PROVE  [defaultValues EXCEPT ![APP_ENV] = Dev][k]
               = IF k = APP_ENV THEN Dev ELSE defaultValues[k]
  BY <1>2
<1>4. ASSUME NEW k \in Keys
      PROVE  apply([defaultValues EXCEPT ![APP_ENV] = Dev])[k] = Wanted(k)
  <2> DEFINE d == IF k = APP_ENV THEN Dev ELSE defaultValues[k]
             a == readFile(dotenv)[k]
             b == readFile(jobenv)[k]
  <2>1. apply([defaultValues EXCEPT ![APP_ENV] = Dev])[k] = setIfAllowed(k, d)
    BY <1>3 DEF apply
  <2>2. Wanted(k) = IF given[k] # Unset THEN given[k] ELSE FirstText(<<a, b, d>>)
    BY DEF Wanted, Sources
  <2> HIDE DEF a, b, d
  <2>3. environ[k] = IF given[k] # Unset THEN given[k]
                     ELSE IF a \notin {Unset, Blank} \/ b = Unset THEN a ELSE b
    BY <1>1 DEF AfterOne, AfterTwo, a, b
  <2> QED
    BY <1>2, <2>1, <2>2, <2>3 DEF setIfAllowed, FirstText
<1>5. currentEnv = WantedProfile
  <2>1. Wanted(APP_ENV) = IF given[APP_ENV] # Unset \/ environ[APP_ENV] \notin {Unset, Blank}
                          THEN environ[APP_ENV] ELSE Dev
    BY <1>1, <1>2, <1>3, <1>4 DEF apply, setIfAllowed
  <2>2. given[APP_ENV] # Unset => environ[APP_ENV] = given[APP_ENV]
    BY <1>1, <1>2 DEF AfterTwo, AfterOne
  <2> QED
    BY <1>2, <2>1, <2>2 DEF currentEnv, WantedProfile
<1> QED
  BY <1>4, <1>5

LEMMA EnvStep == EnvInv /\ [Next]_vars => EnvInv'
<1> SUFFICES ASSUME EnvInv, [Next]_vars PROVE EnvInv'
  OBVIOUS
<1>0. UNCHANGED inputs
  BY DEF Next, LoadDotEnv, LoadJobEnv, CheckAppEnv, LoadConfig, Use, Panic, vars
<1>1. CASE Panic
  BY <1>1 DEF Panic, EnvInv, Precedence
<1>2. CASE LoadDotEnv /\ ~Panic
  <2>1. at = ".env" /\ at' = ".env.job" /\ environ' = apply(readFile(dotenv))
    BY <1>2 DEF LoadDotEnv
  <2>2. \A k \in Keys : environ'[k] = AfterOne(k)
    BY <2>1, KeysAssumption DEF apply, setIfAllowed, AfterOne, EnvInv
  <2> QED
    BY <1>0, <2>1, <2>2, InputsStay DEF EnvInv, Precedence
<1>3. CASE LoadJobEnv /\ ~Panic
  <2>1. at = ".env.job" /\ at' = "APP_ENV" /\ environ' = apply(readFile(jobenv))
    BY <1>3 DEF LoadJobEnv
  <2>2. \A k \in Keys : environ'[k] = AfterTwo(k)
    BY <2>1 DEF apply, setIfAllowed, AfterTwo, EnvInv
  <2> QED
    BY <1>0, <2>1, <2>2, InputsStay DEF EnvInv, Precedence
<1>4. CASE CheckAppEnv /\ ~Panic
  <2>1. /\ at = "APP_ENV" /\ at' = "config" /\ currentEnv \in Supported
        /\ environ' = apply([defaultValues EXCEPT ![APP_ENV] = Dev])
    BY <1>4 DEF CheckAppEnv
  <2> QED
    BY <1>0, <2>1, DefaultsFill, InputsStay DEF EnvInv, Precedence
<1>5. CASE LoadConfig /\ ~Panic
  <2>1. at = "config" /\ at' = "serving" /\ environ' = environ
    BY <1>5 DEF LoadConfig, Use
  <2> QED
    BY <1>0, <2>1, InputsStay DEF EnvInv, Precedence
<1>6. CASE UNCHANGED vars
  <2>1. at' = at /\ environ' = environ
    BY <1>6 DEF vars
  <2>2. Precedence'
    BY <1>0, <2>1, InputsStay DEF EnvInv, Precedence
  <2>3. given' = given
    BY <1>0 DEF inputs
  <2> QED
    BY <1>0, <2>1, <2>2, <2>3, InputsStay DEF EnvInv
<1> QED
  BY <1>1, <1>2, <1>3, <1>4, <1>5, <1>6 DEF Next

(* The order of precedence between the process, its two files and the      *)
(* built-in values, whatever the files say.                                *)
THEOREM PrecedenceHolds == Spec => []Precedence
<1>1. EnvInv => Precedence
  BY DEF EnvInv
<1> QED
  BY <1>1, EnvInit, EnvStep, PTL DEF Spec

-----------------------------------------------------------------------------
(* The configuration. *)

FileInv ==
    /\ TypeOK
    /\ EnvInv
    /\ ServesItsProfile
    /\ NothingLost

LEMMA FileInit == Init => FileInv
<1> SUFFICES ASSUME Init PROVE FileInv
  OBVIOUS
<1>1. TypeOK
  BY FilesAssumption DEF Init, TypeOK, Nothing, Setting
<1> QED
  BY <1>1, EnvInit DEF Init, FileInv, ServesItsProfile, NothingLost

(* A document in use: every leaf of it is shown with its variable's text. *)
LEMMA ExpandShows ==
  ASSUME environ \in Environments, NEW doc \in Document
  PROVE  /\ ExpandEnv(doc) \in [Names -> Setting]
         /\ \A n \in Names, f \in Fields : Leaf(doc, n, f) # Absent =>
              /\ ExpandEnv(doc)[n] \in [Fields -> Texts \cup {Absent}]
              /\ ExpandEnv(doc)[n][f] = Text(Leaf(doc, n, f))
              /\ Text(Leaf(doc, n, f)) \in Texts
<1>1. \A k \in Keys : Text(k) \in Texts
  BY KeysAssumption DEF Text, Environments
<1>2. ASSUME NEW n \in Names, doc[n] # Absent, doc[n] \in Maps
      PROVE  /\ ExpandEnv(doc)[n] \in [Fields -> Texts \cup {Absent}]
             /\ ExpandEnv(doc)[n] = [f \in Fields |->
                   IF doc[n][f] = Absent THEN Absent ELSE Text(doc[n][f])]
  <2>1. ExpandEnv(doc)[n] = [f \in Fields |->
                   IF doc[n][f] = Absent THEN Absent ELSE Text(doc[n][f])]
    BY <1>2 DEF ExpandEnv
  <2>2. \A f \in Fields : doc[n][f] \in Keys \cup {Absent}
    BY <1>2 DEF Maps
  <2> QED
    BY <1>1, <2>1, <2>2
<1>3. ASSUME NEW n \in Names PROVE ExpandEnv(doc)[n] \in Setting
  <2>1. doc[n] \in Keys \cup Maps \cup {Absent}
    BY DEF Document
  <2>2. CASE doc[n] # Absent /\ doc[n] \in Maps
    BY <1>2, <2>2 DEF Setting
  <2>3. CASE doc[n] = Absent
    BY <2>3 DEF ExpandEnv, Setting
  <2>4. CASE doc[n] # Absent /\ doc[n] \notin Maps
    BY <1>1, <2>1, <2>4 DEF ExpandEnv, Setting
  <2> QED
    BY <2>2, <2>3, <2>4
<1>4. ASSUME NEW n \in Names, NEW f \in Fields, Leaf(doc, n, f) # Absent
      PROVE  /\ ExpandEnv(doc)[n] \in [Fields -> Texts \cup {Absent}]
             /\ ExpandEnv(doc)[n][f] = Text(Leaf(doc, n, f))
             /\ Text(Leaf(doc, n, f)) \in Texts
  <2>1. doc[n] \in Maps /\ doc[n] # Absent /\ Leaf(doc, n, f) = doc[n][f]
    BY <1>4, KeysAssumption DEF Leaf
  <2>2. doc[n][f] \in Keys
    BY <1>4, <2>1 DEF Maps
  <2>3. /\ ExpandEnv(doc)[n] \in [Fields -> Texts \cup {Absent}]
        /\ ExpandEnv(doc)[n] = [g \in Fields |->
              IF doc[n][g] = Absent THEN Absent ELSE Text(doc[n][g])]
    BY <1>2, <2>1
  <2>4. ExpandEnv(doc)[n][f] = Text(doc[n][f])
    BY <1>4, <2>1, <2>3
  <2> QED
    BY <1>1, <2>1, <2>2, <2>3, <2>4
<1>5. ExpandEnv(doc) \in [Names -> Setting]
  BY <1>3 DEF ExpandEnv
<1> QED
  BY <1>4, <1>5

(* mergeMaps: the overlay's leaves, and the base's where it has none. *)
LEMMA MergeKeeps ==
  ASSUME NEW base \in Document, NEW overlay \in Document
  PROVE  /\ mergeMaps(base, overlay) \in Document
         /\ \A n \in Names, f \in Fields :
              /\ Leaf(overlay, n, f) # Absent =>
                   Leaf(mergeMaps(base, overlay), n, f) = Leaf(overlay, n, f)
              /\ Leaf(base, n, f) # Absent /\ overlay[n] \in Maps \cup {Absent} =>
                   Leaf(mergeMaps(base, overlay), n, f) # Absent
<1> DEFINE m == mergeMaps(base, overlay)
<1>1. ASSUME NEW n \in Names
      PROVE  /\ base[n] \in Keys \cup Maps \cup {Absent}
             /\ overlay[n] \in Keys \cup Maps \cup {Absent}
             /\ m[n] = IF overlay[n] = Absent THEN base[n]
                       ELSE IF overlay[n] \in Maps /\ base[n] \in Maps
                       THEN [f \in Fields |-> IF overlay[n][f] = Absent THEN base[n][f]
                                              ELSE overlay[n][f]]
                       ELSE overlay[n]
  BY DEF Document, mergeMaps
<1>2. ASSUME NEW n \in Names, overlay[n] \in Maps, base[n] \in Maps
      PROVE  /\ m[n] \in Maps
             /\ \A f \in Fields : m[n][f] = IF overlay[n][f] = Absent THEN base[n][f]
                                              ELSE overlay[n][f]
  <2>1. m[n] = [f \in Fields |-> IF overlay[n][f] = Absent THEN base[n][f] ELSE overlay[n][f]]
    BY <1>1, <1>2, KeysAssumption
  <2> QED
    BY <1>2, <2>1 DEF Maps
<1>3. m \in Document
  <2>1. ASSUME NEW n \in Names PROVE m[n] \in Keys \cup Maps \cup {Absent}
    BY <1>1, <1>2
  <2> QED
    BY <2>1 DEF Document, mergeMaps
<1>4. ASSUME NEW n \in Names, NEW f \in Fields, Leaf(overlay, n, f) # Absent
      PROVE  Leaf(m, n, f) = Leaf(overlay, n, f)
  <2>1. overlay[n] \in Maps /\ overlay[n] # Absent /\ overlay[n][f] # Absent
    BY <1>4, KeysAssumption DEF Leaf
  <2>2. CASE base[n] \in Maps
    BY <1>2, <2>1, <2>2 DEF Leaf
  <2>3. CASE base[n] \notin Maps
    <3>1. m[n] = overlay[n]
      BY <1>1, <2>1, <2>3
    <3> QED
      BY <3>1 DEF Leaf
  <2> QED
    BY <2>2, <2>3
<1>5. ASSUME NEW n \in Names, NEW f \in Fields, Leaf(base, n, f) # Absent,
             overlay[n] \in Maps \cup {Absent}
      PROVE  Leaf(m, n, f) # Absent
  <2>1. base[n] \in Maps /\ base[n][f] # Absent
    BY <1>5 DEF Leaf
  <2>2. CASE overlay[n] \in Maps
    BY <1>2, <2>1, <2>2 DEF Leaf
  <2>3. CASE overlay[n] = Absent
    <3>1. m[n] = base[n]
      BY <1>1, <2>3
    <3> QED
      BY <2>1, <3>1 DEF Leaf
  <2> QED
    BY <1>5, <2>2, <2>3
<1> QED
  BY <1>3, <1>4, <1>5

LEMMA FoundIsPath ==
  ASSUME NEW p \in Supported \cup {Base}
  PROVE  Found(p) \in Path /\ Found(p)[2] = p
  BY DEF Found, Path, Dirs

(* What LoadConfig serves with. *)
LEMMA LoadServes ==
  ASSUME TypeOK, EnvInv, LoadConfig, ~Panic
  PROVE  /\ WantedProfile \in Supported
         /\ \A k \in Keys : Text(k) = WantedText(k)
         /\ UNCHANGED <<inputs, environ>> /\ at' = "serving"
         /\ \E doc \in Document :
              /\ config' = ExpandEnv(doc)
              /\ flag = NoFile =>
                   LET own == disk[Found(WantedProfile)]
                       common == disk[Found(Base)]
                   IN  /\ own # Malformed
                       /\ own = NoFile => doc = common
                       /\ own # NoFile => /\ own \in Document /\ common \in Document
                                          /\ doc = mergeMaps(common, own)
<1> DEFINE own == disk[Found(WantedProfile)]
           common == disk[Found(Base)]
           alone == IF flag # NoFile THEN flag ELSE ResolveConfigFile
<1>1. /\ at = "config" /\ WantedProfile \in Supported
      /\ \A k \in Keys : environ[k] = Wanted(k)
  BY DEF LoadConfig, EnvInv, Precedence
<1>2. currentEnv = WantedProfile
  <2>1. environ[APP_ENV] = Wanted(APP_ENV)
    BY <1>1, KeysAssumption
  <2>2. Wanted(APP_ENV) # Unset
    BY KeysAssumption DEF Wanted, Sources, FirstText
  <2> QED
    BY <2>1, <2>2 DEF currentEnv, WantedProfile
<1>3. \A k \in Keys : Text(k) = WantedText(k)
  BY <1>1 DEF Text, WantedText
<1>4. /\ disk \in [Path -> Document \cup {NoFile, Malformed}] /\ flag \in Path \cup {NoFile}
      /\ Found(WantedProfile) \in Path /\ Found(Base) \in Path
      /\ Found(WantedProfile)[2] = WantedProfile /\ Found(Base)[2] = Base
  BY <1>1, FoundIsPath, FilesAssumption DEF TypeOK
<1>5. Found(WantedProfile) # Found(Base)
  BY <1>1, <1>4, KeysAssumption
<1>6. ASSUME NEW doc, Use(doc)
      PROVE  config' = ExpandEnv(doc) /\ UNCHANGED <<inputs, environ>> /\ at' = "serving"
  BY <1>6 DEF Use
<1>7. CASE flag # NoFile
  <2>1. disk[flag] \notin {NoFile, Malformed} /\ Use(disk[flag])
    BY <1>7 DEF LoadConfig
  <2>2. disk[flag] \in Document
    BY <1>4, <1>7, <2>1
  <2> QED
    BY <1>1, <1>3, <1>6, <1>7, <2>1, <2>2
<1>8. CASE flag = NoFile /\ own # NoFile
  <2>1. ResolveConfigFile = Found(WantedProfile)
    BY <1>2, <1>8 DEF ResolveConfigFile
  <2>2. /\ own # Malformed /\ common \notin {NoFile, Malformed}
        /\ Use(mergeMaps(common, own))
    BY <1>5, <1>8, <2>1 DEF LoadConfig, resolveBaseConfigFile
  <2>3. own \in Document /\ common \in Document
    BY <1>4, <1>8, <2>2
  <2>4. mergeMaps(common, own) \in Document
    BY <2>3, MergeKeeps
  <2> QED
    BY <1>1, <1>3, <1>6, <1>8, <2>2, <2>3, <2>4
<1>9. CASE flag = NoFile /\ own = NoFile
  <2>1. common # NoFile
    <3>1. CASE common = NoFile
      <4>1. ResolveConfigFile = <<"etc", WantedProfile>>
        BY <1>2, <1>9, <3>1 DEF ResolveConfigFile
      <4>2. ResolveConfigFile # Found(Base)
        BY <1>1, <1>4, <4>1, KeysAssumption
      <4> QED
        BY <1>9, <3>1, <4>2 DEF LoadConfig, resolveBaseConfigFile
    <3> QED
      BY <3>1
  <2>2. ResolveConfigFile = Found(Base)
    BY <1>2, <1>9, <2>1 DEF ResolveConfigFile
  <2>3. common # Malformed /\ Use(common)
    BY <1>9, <2>1, <2>2 DEF LoadConfig, resolveBaseConfigFile
  <2>4. common \in Document
    BY <1>4, <2>1, <2>3
  <2> QED
    BY <1>1, <1>3, <1>6, <1>9, <2>3, <2>4, FilesAssumption
<1> QED
  BY <1>7, <1>8, <1>9

LEMMA FileStep == FileInv /\ [Next]_vars => FileInv'
<1> SUFFICES ASSUME FileInv, [Next]_vars PROVE FileInv'
  OBVIOUS
<1>1. EnvInv' /\ TypeOK /\ EnvInv
  BY EnvStep DEF FileInv
<1>2. environ \in Environments /\ config \in [Names -> Setting]
  BY <1>1 DEF TypeOK
<1>3. CASE Panic
  BY <1>1, <1>3 DEF Panic, inputs, FileInv, TypeOK, ServesItsProfile, NothingLost
<1>4. CASE (LoadDotEnv \/ LoadJobEnv \/ CheckAppEnv) /\ ~Panic
  <2>1. /\ UNCHANGED <<inputs, config>> /\ at' \in {".env.job", "APP_ENV", "config"}
        /\ \E values \in Environments : environ' = apply(values)
    <3>1. CASE LoadDotEnv
      BY <1>1, <1>4, <3>1, ReadFileType, FilesAssumption DEF LoadDotEnv, TypeOK
    <3>2. CASE LoadJobEnv
      BY <1>1, <1>4, <3>2, ReadFileType, FilesAssumption DEF LoadJobEnv, TypeOK
    <3>3. CASE CheckAppEnv
      <4>1. [defaultValues EXCEPT ![APP_ENV] = Dev] \in Environments
        BY KeysAssumption DEF Environments
      <4> QED
        BY <1>4, <3>3, <4>1 DEF CheckAppEnv
    <3> QED
      BY <1>4, <3>1, <3>2, <3>3
  <2>2. environ' \in Environments
    BY <1>2, <2>1, ApplyType
  <2> QED
    BY <1>1, <2>1, <2>2 DEF inputs, FileInv, TypeOK, ServesItsProfile, NothingLost
<1>5. CASE LoadConfig /\ ~Panic
  <2> DEFINE own == disk[Found(WantedProfile)]
             common == disk[Found(Base)]
  <2>1. /\ WantedProfile \in Supported
        /\ \A k \in Keys : Text(k) = WantedText(k)
        /\ UNCHANGED <<inputs, environ>> /\ at' = "serving"
    BY <1>1, <1>5, LoadServes
  <2>2. PICK doc \in Document :
              /\ config' = ExpandEnv(doc)
              /\ flag = NoFile =>
                   /\ own # Malformed
                   /\ own = NoFile => doc = common
                   /\ own # NoFile => /\ own \in Document /\ common \in Document
                                      /\ doc = mergeMaps(common, own)
    BY <1>1, <1>5, LoadServes
  <2>3. /\ config' \in [Names -> Setting]
        /\ \A n \in Names, f \in Fields : Leaf(doc, n, f) # Absent =>
             Shown(n, f)' = Text(Leaf(doc, n, f)) /\ Shown(n, f)' # Absent
    BY <1>2, <2>2, ExpandShows, KeysAssumption DEF Shown
  <2>4. TypeOK'
    BY <1>1, <2>1, <2>3 DEF inputs, TypeOK
  <2>5. /\ WantedProfile' = WantedProfile /\ \A k : WantedText(k)' = WantedText(k)
        /\ disk' = disk /\ flag' = flag
        /\ Found(WantedProfile)' = Found(WantedProfile) /\ Found(Base)' = Found(Base)
    BY <2>1, InputsStay DEF inputs, Found
  <2>6. ServesItsProfile'
    <3> SUFFICES ASSUME flag = NoFile
                 PROVE  /\ own # Malformed
                        /\ own # NoFile => \A n \in Names, f \in Fields :
                             Leaf(own, n, f) # Absent =>
                               Shown(n, f)' = WantedText(Leaf(own, n, f))
      BY <2>1, <2>5 DEF ServesItsProfile, Leaf
    <3>1. ASSUME own # NoFile, NEW n \in Names, NEW f \in Fields, Leaf(own, n, f) # Absent
          PROVE  Shown(n, f)' = WantedText(Leaf(own, n, f))
      <4>1. own \in Document /\ common \in Document /\ doc = mergeMaps(common, own)
        BY <2>2, <3>1
      <4>2. Leaf(doc, n, f) = Leaf(own, n, f)
        BY <3>1, <4>1, MergeKeeps
      <4>3. Leaf(own, n, f) \in Keys
        <5> HIDE DEF own
        <5> QED
          BY <3>1, <4>1 DEF Leaf, Document, Maps
      <4> QED
        BY <2>1, <2>3, <3>1, <4>2, <4>3
    <3> QED
      BY <2>2, <3>1
  <2>7. NothingLost'
    <3> SUFFICES ASSUME flag = NoFile, common # NoFile, NEW n \in Names, NEW f \in Fields,
                        Leaf(common, n, f) # Absent,
                        own # NoFile => own[n] \in Maps \cup {Absent}
                 PROVE  Shown(n, f)' # Absent
      BY <2>5 DEF NothingLost, Leaf
    <3>1. CASE own = NoFile
      BY <2>2, <2>3, <3>1
    <3>2. CASE own # NoFile
      <4>1. own \in Document /\ common \in Document /\ doc = mergeMaps(common, own)
        BY <2>2, <3>2
      <4>2. Leaf(doc, n, f) # Absent
        BY <3>2, <4>1, MergeKeeps
      <4> QED
        BY <2>3, <4>2
    <3> QED
      BY <3>1, <3>2
  <2> QED
    BY <1>1, <2>4, <2>6, <2>7 DEF FileInv
<1>6. CASE UNCHANGED vars
  <2>1. UNCHANGED inputs /\ at' = at /\ config' = config /\ environ' = environ
    BY <1>6 DEF vars
  <2>2. TypeOK'
    BY <1>1, <2>1 DEF inputs, TypeOK
  <2>3. /\ WantedProfile' = WantedProfile /\ \A k : WantedText(k)' = WantedText(k)
        /\ disk' = disk /\ flag' = flag
        /\ Found(WantedProfile)' = Found(WantedProfile) /\ Found(Base)' = Found(Base)
    BY <2>1, InputsStay DEF inputs, Found
  <2>4. ServesItsProfile' = ServesItsProfile /\ NothingLost' = NothingLost
    BY <2>1, <2>3 DEF ServesItsProfile, NothingLost, Leaf, Shown
  <2> QED
    BY <1>1, <2>2, <2>4 DEF FileInv
<1> QED
  BY <1>3, <1>4, <1>5, <1>6 DEF Next

(* Every value read from a file or built in is a text, and so is every     *)
(* setting.                                                                *)
THEOREM EnvTypes == Spec => []TypeOK
<1>1. FileInv => TypeOK
  BY DEF FileInv
<1> QED
  BY <1>1, FileInit, FileStep, PTL DEF Spec

(* A process without -f goes by the file of the profile it was told to     *)
(* use, with the texts that precedence gives.                              *)
THEOREM ProfileHolds == Spec => []ServesItsProfile
<1>1. FileInv => ServesItsProfile
  BY DEF FileInv
<1> QED
  BY <1>1, FileInit, FileStep, PTL DEF Spec

(* Overrides take no other setting away.                                   *)
THEOREM SettingsStay == Spec => []NothingLost
<1>1. FileInv => NothingLost
  BY DEF FileInv
<1> QED
  BY <1>1, FileInit, FileStep, PTL DEF Spec

(***************************************************************************)
(* PeriodicTasks.                                                          *)
(***************************************************************************)

(* Why tasks are on time: what has passed since the last run and what is   *)
(* left on the timer never come to more than the delay and one tick; a     *)
(* task without an entry has changed since the last sync.                  *)
Timely ==
    process = "up" => \A p \in Patterns :
        Enabled(p) /\ tasks[p].spec \in Delays =>
            LET c == ConfigOf(p) IN
            IF timer[c] # Idle THEN since[p] + timer[c] <= tasks[p].spec + 1
            ELSE since[p] <= IF synced THEN 0 ELSE 1

PeriodicInv == PeriodicTypeOK /\ OneEntryPerPattern

-----------------------------------------------------------------------------
LEMMA DelaysAreNumbers ==
  /\ Delays \subseteq Nat \ {0}
  /\ MaxDelay \in Delays
  /\ \A e \in Delays : e <= MaxDelay
<1>1. ASSUME NEW s \in Specs, s > 0
      PROVE  s \in Nat \ {0}
  <2>1. s \in {0, -1} \cup (Nat \ {0})
    BY SpecsAssumption DEF Empty, Bad
  <2> QED
    BY <1>1, <2>1
<1>2. \E d \in Delays : \A e \in Delays : e <= d
  BY SpecsAssumption
<1>3. MaxDelay \in Delays /\ \A e \in Delays : e <= MaxDelay
  BY <1>2 DEF MaxDelay
<1> QED
  BY <1>1, <1>3 DEF Delays

(* A configuration is a pattern, a delay and a payload. *)
LEMMA Configs ==
  ASSUME NEW c \in Config
  PROVE  c = <<c[1], c[2], c[3]>> /\ c[1] \in Patterns /\ c[2] \in Nat \ {0}
<1>1. PICK p \in Patterns, d \in Delays, l \in Payloads : c = <<p, d, l>>
  BY DEF Config
<1> QED
  BY <1>1, DelaysAreNumbers

(* Reconcile keeps the timers in range. *)
LEMMA ReconcileType ==
  ASSUME PeriodicTypeOK, NEW configs, Reconcile(configs)
  PROVE  /\ timer' \in [Config -> Int]
         /\ \A c \in Config : timer'[c] \in {Idle} \cup 0 .. c[2]
<1>1. ASSUME NEW c \in Config
      PROVE  timer'[c] \in Int /\ timer'[c] \in {Idle} \cup 0 .. c[2]
  <2>1. timer'[c] \in {Idle, c[2], timer[c]}
    BY DEF Reconcile
  <2>2. timer[c] \in Int /\ timer[c] \in {Idle} \cup 0 .. c[2]
    BY DEF PeriodicTypeOK
  <2> QED
    BY <2>1, <2>2, Configs DEF Idle
<1>2. timer' = [c \in Config |-> timer'[c]]
  BY DEF Reconcile
<1> QED
  BY <1>1, <1>2

(* Configs with one entry per pattern leave one entry per pattern. *)
LEMMA ReconcileOne ==
  ASSUME NEW configs, Reconcile(configs),
         \A c, d \in Config : c \in configs /\ d \in configs /\ c[1] = d[1] => c = d
  PROVE  OneEntryPerPattern'
<1>1. \A c \in Config : timer'[c] # Idle => c \in configs
  BY DEF Reconcile
<1> QED
  BY <1>1 DEF OneEntryPerPattern, Registered

(* The pattern of a task is unique. *)
LEMMA GetConfigsOne ==
  \A c, d \in Config : c \in GetConfigs /\ d \in GetConfigs /\ c[1] = d[1] => c = d
  BY DEF GetConfigs, ConfigOf

-----------------------------------------------------------------------------
LEMMA PeriodicStarts == PeriodicInit => PeriodicInv
<1> SUFFICES ASSUME PeriodicInit PROVE PeriodicInv
  OBVIOUS
<1>1. MaxDelay \in Nat
  BY DelaysAreNumbers
<1>2. /\ timer \in [Config -> Int]
      /\ \A c \in Config : timer[c] \in {Idle} \cup 0 .. c[2]
  BY DEF PeriodicInit, NoTimers, Idle
<1>4. since \in [Patterns -> 0 .. MaxDelay + 2]
  BY <1>1 DEF PeriodicInit
<1>5. tasks \in [Patterns -> Row \cup {NoTask}]
  BY DEF PeriodicInit
<1>7. errors \in 0 .. MaxErrors /\ stops \in 0 .. MaxStops
  BY BoundsAssumption DEF PeriodicInit
<1>8. process \in {"down", "starting", "up"} /\ synced \in BOOLEAN
  BY DEF PeriodicInit
<1>6. PeriodicTypeOK
  BY <1>2, <1>4, <1>5, <1>7, <1>8 DEF PeriodicTypeOK
<1>3. OneEntryPerPattern
  BY DEF PeriodicInit, OneEntryPerPattern, Registered, NoTimers
<1> QED
  BY <1>3, <1>6 DEF PeriodicInv

LEMMA PeriodicSteps == PeriodicInv /\ [PeriodicNext]_periodicVars => PeriodicInv'
<1> SUFFICES ASSUME PeriodicInv, [PeriodicNext]_periodicVars PROVE PeriodicInv'
  OBVIOUS
<1> USE DEF PeriodicInv
<1>0. MaxDelay \in Nat
  BY DelaysAreNumbers
<1>1. ASSUME NEW written \in [Patterns -> Row \cup {NoTask}], WriteTask(written)
      PROVE  PeriodicInv'
  <2>1. PeriodicTypeOK'
    BY <1>1, <1>0 DEF WriteTask, PeriodicTypeOK
  <2> QED
    BY <1>1, <2>1 DEF WriteTask, OneEntryPerPattern, Registered
<1>12. ASSUME NEW p \in Patterns, NEW row \in Rows, CreateTask(p, row) PROVE PeriodicInv'
  BY <1>1, <1>12, RowsAssumption DEF CreateTask, PeriodicTypeOK
<1>13. ASSUME NEW p \in Patterns, NEW q \in Patterns, NEW row \in Rows, UpdateTask(p, q, row)
       PROVE  PeriodicInv'
  BY <1>1, <1>13, RowsAssumption DEF UpdateTask, PeriodicTypeOK
<1>14. ASSUME NEW p \in Patterns, DeleteTask(p) PROVE PeriodicInv'
  BY <1>1, <1>14 DEF DeleteTask, PeriodicTypeOK
<1>2. ASSUME NEW p \in Patterns, Run(p) PROVE PeriodicInv'
  <2>1. PICK c \in Registered :
          timer[c] = 0 /\ timer' = [timer EXCEPT ![c] = c[2]]
    BY <1>2 DEF Run
  <2>2. c \in Config /\ c[2] \in Nat
    BY Configs DEF Registered
  <2>5. timer' \in [Config -> Int] /\ \A d \in Config : timer'[d] \in {Idle} \cup 0 .. d[2]
    BY <2>1, <2>2, Configs DEF PeriodicTypeOK
  <2>6. since' \in [Patterns -> 0 .. MaxDelay + 2]
    BY <1>2, <1>0 DEF Run, PeriodicTypeOK
  <2>3. PeriodicTypeOK'
    BY <1>2, <2>5, <2>6 DEF Run, PeriodicTypeOK
  <2>4. \A d \in Config : timer'[d] # Idle => timer[d] # Idle
    BY <2>1, <2>2 DEF PeriodicTypeOK, Idle
  <2> QED
    BY <2>3, <2>4 DEF OneEntryPerPattern, Registered
<1>3. CASE Boot \/ StartFatal
  BY <1>3 DEF Boot, StartFatal, PeriodicTypeOK, OneEntryPerPattern, Registered
<1>4. ASSUME NEW configs, Reconcile(configs),
             configs = GetConfigs \/ configs = {},
             process' = "up" /\ synced' = TRUE,
             since' \in {since, [p \in Patterns |-> 0]},
             errors' \in 0 .. MaxErrors, UNCHANGED <<tasks, stops>>
      PROVE  PeriodicInv'
  <2>1. since' \in [Patterns -> 0 .. MaxDelay + 2]
    BY <1>4, <1>0 DEF PeriodicTypeOK
  <2>2. PeriodicTypeOK'
    BY <1>4, <2>1, ReconcileType DEF PeriodicTypeOK
  <2>3. OneEntryPerPattern'
    BY <1>4, ReconcileOne, GetConfigsOne
  <2> QED
    BY <2>2, <2>3
<1>5. CASE Start
  BY <1>5, <1>4, BoundsAssumption DEF Start, Started, PeriodicTypeOK
<1>6. CASE StartWithoutDatabase
  BY <1>6, <1>4, BoundsAssumption DEF StartWithoutDatabase, Started, DatabaseFails, PeriodicTypeOK
<1>7. CASE Sync
  BY <1>7, <1>4, BoundsAssumption DEF Sync, PeriodicTypeOK
<1>15. CASE SyncRefused
  <2>1. since' \in [Patterns -> 0 .. MaxDelay + 2]
    BY <1>15, <1>0 DEF SyncRefused, PeriodicTypeOK
  <2> QED
    BY <1>15, <2>1, BoundsAssumption DEF SyncRefused, PeriodicTypeOK, OneEntryPerPattern, Registered
<1>8. CASE SyncWithoutDatabase
  BY <1>8, <1>4, BoundsAssumption DEF SyncWithoutDatabase, DatabaseFails, PeriodicTypeOK
<1>9. CASE Tick
  <2>1. \A c \in Config : timer'[c] = IF timer[c] = Idle THEN Idle ELSE timer[c] - 1
    BY <1>9 DEF Tick
  <2>2. ASSUME NEW c \in Config
        PROVE  /\ timer'[c] \in Int /\ timer'[c] \in {Idle} \cup 0 .. c[2]
               /\ timer'[c] # Idle => timer[c] # Idle
    <3>1. timer[c] # 0 /\ timer[c] \in {Idle} \cup 0 .. c[2] /\ c[2] \in Nat
      BY <1>9, Configs DEF Tick, PeriodicTypeOK
    <3> QED
      BY <2>1, <3>1 DEF Idle
  <2>4. timer' \in [Config -> Int]
    BY <1>9, <2>2 DEF Tick
  <2>5. since' \in [Patterns -> 0 .. MaxDelay + 2]
    <3>1. since' = [p \in Patterns |->
              IF since[p] = MaxDelay + 2 THEN since[p] ELSE since[p] + 1]
      BY <1>9 DEF Tick
    <3>2. \A p \in Patterns : since[p] \in 0 .. MaxDelay + 2
      BY DEF PeriodicTypeOK
    <3> QED
      BY <3>1, <3>2, <1>0
  <2>3. PeriodicTypeOK'
    BY <1>9, <2>2, <2>4, <2>5 DEF Tick, PeriodicTypeOK
  <2> QED
    BY <2>2, <2>3 DEF OneEntryPerPattern, Registered
<1>10. CASE Stop
  <2>2. /\ timer' \in [Config -> Int]
        /\ \A c \in Config : timer'[c] \in {Idle} \cup 0 .. c[2]
    BY <1>10 DEF Stop, NoTimers, Idle
  <2>1. PeriodicTypeOK'
    BY <1>10, <2>2, BoundsAssumption DEF Stop, PeriodicTypeOK
  <2> QED
    BY <1>10, <2>1 DEF Stop, OneEntryPerPattern, Registered, NoTimers
<1>11. CASE UNCHANGED periodicVars
  BY <1>11 DEF periodicVars, PeriodicTypeOK, OneEntryPerPattern, Registered
<1> QED
  BY <1>2, <1>3, <1>5, <1>6, <1>7, <1>8, <1>9, <1>10, <1>11, <1>12, <1>13, <1>14,
     <1>15
     DEF PeriodicNext

(* Every variable of PeriodicTasks keeps its type. *)
THEOREM PeriodicTypes == PeriodicSpec => []PeriodicTypeOK
<1>1. PeriodicInv => PeriodicTypeOK
  BY DEF PeriodicInv
<1> QED
  BY PeriodicStarts, PeriodicSteps, <1>1, PTL DEF PeriodicSpec

(* An entry that a change of GetConfigs' answer replaces is gone before    *)
(* the new one is there, whatever fails or stops in between.               *)
THEOREM OneEntry == PeriodicSpec => []OneEntryPerPattern
<1>1. PeriodicInv => OneEntryPerPattern
  BY DEF PeriodicInv
<1> QED
  BY PeriodicStarts, PeriodicSteps, <1>1, PTL DEF PeriodicSpec

-----------------------------------------------------------------------------
LEMMA TimelyAtFirst == PeriodicInit => Timely
  BY DEF PeriodicInit, Timely

(* What is made of a row with a delay is a configuration. *)
LEMMA DueConfig ==
  ASSUME NEW p \in Patterns, NEW row \in Row, row.spec \in Delays
  PROVE  /\ <<p, row.spec, row.payload>> \in Config
         /\ row.spec \in Nat \ {0} /\ row.spec <= MaxDelay /\ MaxDelay \in Nat
<1>1. row.payload \in Payloads
  BY DEF Row
<1> QED
  BY <1>1, DelaysAreNumbers DEF Config

LEMMA TimelySteps ==
  ASSUME PeriodicInv, PeriodicInv', Timely, [PeriodicNext]_periodicVars
  PROVE  Timely'
<1> SUFFICES ASSUME process' = "up",
                    NEW p \in Patterns, Enabled(p)', tasks'[p].spec \in Delays
             PROVE  LET c == ConfigOf(p)' IN
                    IF timer'[c] # Idle THEN since'[p] + timer'[c] <= tasks'[p].spec + 1
                    ELSE since'[p] <= IF synced' THEN 0 ELSE 1
  BY DEF Timely
<1> DEFINE d == tasks'[p].spec
           c == ConfigOf(p)'
<1>0. /\ PeriodicTypeOK /\ PeriodicTypeOK'
      /\ c \in Config /\ c[1] = p /\ c[2] = d
      /\ d \in Nat \ {0} /\ d <= MaxDelay /\ MaxDelay \in Nat
      /\ since'[p] \in Nat
      /\ timer'[c] \in {Idle} \cup 0 .. d
  <2>1. PeriodicTypeOK /\ PeriodicTypeOK'
    BY DEF PeriodicInv
  <2>2. /\ c \in Config
        /\ d \in Nat \ {0} /\ d <= MaxDelay /\ MaxDelay \in Nat
        /\ c[1] = p /\ c[2] = d
    <3>1. tasks'[p] \in Row
      BY <2>1 DEF Enabled, PeriodicTypeOK
    <3> QED
      BY <3>1, DueConfig DEF ConfigOf
  <2>3. since'[p] \in 0 .. MaxDelay + 2
    BY <2>1 DEF PeriodicTypeOK
  <2>4. timer'[c] \in {Idle} \cup 0 .. c[2]
    BY <2>1, <2>2 DEF PeriodicTypeOK
  <2> QED
    BY <2>1, <2>2, <2>3, <2>4
<1> HIDE DEF c, d
<1>1. CASE since'[p] = 0
  BY <1>0, <1>1 DEF c, d, Idle
<1>2. ASSUME tasks'[p] = tasks[p], process = "up"
      PROVE  /\ c = ConfigOf(p) /\ c \in GetConfigs /\ since[p] \in Nat
             /\ timer[c] \in {Idle} \cup 0 .. d
             /\ IF timer[c] # Idle THEN since[p] + timer[c] <= d + 1
                ELSE since[p] <= IF synced THEN 0 ELSE 1
  <2>1. Enabled(p) /\ tasks[p].spec \in Delays /\ c = ConfigOf(p)
    BY <1>2 DEF Enabled, ConfigOf, c, d
  <2>2. c \in GetConfigs
    BY <2>1 DEF GetConfigs
  <2>3. since[p] \in Nat /\ timer[c] \in {Idle} \cup 0 .. c[2]
    BY <1>0 DEF PeriodicTypeOK
  <2>4. d = tasks[p].spec
    BY <1>2 DEF d
  <2> QED
    BY <1>0, <1>2, <2>1, <2>2, <2>3, <2>4 DEF Timely
<1>3. ASSUME tasks'[p] = tasks[p], process = "up", timer'[c] = timer[c],
             since'[p] = since[p], synced' = synced
      PROVE  IF timer'[c] # Idle THEN since'[p] + timer'[c] <= d + 1
             ELSE since'[p] <= IF synced' THEN 0 ELSE 1
  BY <1>2, <1>3
<1>4. CASE Sync
  <2>1. Reconcile(GetConfigs)
    BY <1>4 DEF Sync
  <2>2. tasks' = tasks /\ process = "up" /\ ~synced /\ since' = since
    BY <1>4 DEF Sync
  <2>3. timer'[c] = IF timer[c] = Idle THEN c[2] ELSE timer[c]
    BY <1>0, <1>2, <2>1, <2>2 DEF Reconcile
  <2> QED
    BY <1>0, <1>2, <2>2, <2>3 DEF Idle, c, d
<1>17. CASE SyncRefused
  <2>1. tasks' = tasks /\ process = "up" /\ timer' = timer
        /\ since'[p] = IF HasEntry(p) THEN since[p] ELSE 0
    BY <1>0, <1>17 DEF SyncRefused, PeriodicTypeOK
  <2>2. CASE HasEntry(p)
    <3>1. timer[c] # Idle /\ since'[p] = since[p]
      BY <1>2, <2>1, <2>2 DEF HasEntry, Registered
    <3> QED
      BY <1>2, <2>1, <3>1 DEF c, d
  <2> QED
    BY <1>1, <2>1, <2>2
<1>5. CASE Tick
  <2>1. tasks' = tasks /\ process = "up" /\ synced /\ ~synced' /\ timer[c] # 0
    BY <1>0, <1>5 DEF Tick
  <2>2. timer'[c] = IF timer[c] = Idle THEN Idle ELSE timer[c] - 1
    BY <1>0, <1>5 DEF Tick
  <2>3. since'[p] <= since[p] + 1
    BY <1>0, <1>2, <1>5, <2>1 DEF Tick
  <2> QED
    BY <1>0, <1>2, <2>1, <2>2, <2>3 DEF Idle, c, d
<1>6. ASSUME NEW written \in [Patterns -> Row \cup {NoTask}], WriteTask(written)
      PROVE  IF timer'[c] # Idle THEN since'[p] + timer'[c] <= d + 1
             ELSE since'[p] <= IF synced' THEN 0 ELSE 1
  <2>1. since'[p] = 0 \/ (tasks'[p] = tasks[p] /\ since'[p] = since[p])
    BY <1>6 DEF WriteTask
  <2>2. process = "up" /\ timer' = timer /\ synced' = synced
    BY <1>6 DEF WriteTask
  <2> QED
    BY <1>1, <1>3, <2>1, <2>2 DEF c, d
<1>7. ASSUME NEW q \in Patterns, Run(q)
      PROVE  IF timer'[c] # Idle THEN since'[p] + timer'[c] <= d + 1
             ELSE since'[p] <= IF synced' THEN 0 ELSE 1
  <2>1. CASE q = p
    BY <1>1, <1>7, <2>1 DEF Run, PeriodicTypeOK, PeriodicInv, c, d
  <2>2. CASE q # p
    <3>1. PICK e \in Registered : e[1] = q /\ timer' = [timer EXCEPT ![e] = e[2]]
      BY <1>7 DEF Run
    <3>2. e # c /\ timer'[c] = timer[c]
      BY <1>0, <2>2, <3>1 DEF c, PeriodicTypeOK
    <3>3. since'[p] = since[p] /\ tasks' = tasks /\ process = "up" /\ synced' = synced
      BY <1>0, <1>7, <2>2 DEF Run, PeriodicTypeOK
    <3> QED
      BY <1>3, <3>2, <3>3
  <2> QED
    BY <2>1, <2>2
<1>8. CASE Start
  BY <1>1, <1>8 DEF Start, Started, c, d
<1>9. CASE StartWithoutDatabase \/ SyncWithoutDatabase
  BY <1>1, <1>9 DEF StartWithoutDatabase, SyncWithoutDatabase, Started, c, d
<1>10. CASE Boot \/ StartFatal \/ Stop
  BY <1>10 DEF Boot, StartFatal, Stop
<1>11. CASE UNCHANGED periodicVars
  BY <1>3, <1>11 DEF periodicVars, c, d
<1>12. ASSUME NEW q \in Patterns, NEW row \in Rows, CreateTask(q, row)
       PROVE  IF timer'[c] # Idle THEN since'[p] + timer'[c] <= d + 1
              ELSE since'[p] <= IF synced' THEN 0 ELSE 1
  BY <1>0, <1>6, <1>12, RowsAssumption DEF CreateTask, PeriodicTypeOK
<1>13. ASSUME NEW q \in Patterns, NEW r \in Patterns, NEW row \in Rows, UpdateTask(q, r, row)
       PROVE  IF timer'[c] # Idle THEN since'[p] + timer'[c] <= d + 1
              ELSE since'[p] <= IF synced' THEN 0 ELSE 1
  BY <1>0, <1>6, <1>13, RowsAssumption DEF UpdateTask, PeriodicTypeOK
<1>14. ASSUME NEW q \in Patterns, DeleteTask(q)
       PROVE  IF timer'[c] # Idle THEN since'[p] + timer'[c] <= d + 1
              ELSE since'[p] <= IF synced' THEN 0 ELSE 1
  BY <1>0, <1>6, <1>14 DEF DeleteTask, PeriodicTypeOK
<1>15. IF timer'[c] # Idle THEN since'[p] + timer'[c] <= d + 1
       ELSE since'[p] <= IF synced' THEN 0 ELSE 1
  BY <1>4, <1>5, <1>7, <1>8, <1>9, <1>10, <1>11, <1>12, <1>13, <1>14, <1>17 DEF PeriodicNext, c, d
<1> QED
  BY <1>15 DEF c, d

(* An enabled task runs within its delay and a tick of its last run or     *)
(* change, of a start, of a sync without the database or, if it has no     *)
(* entry yet, of a refused sync.                                           *)
THEOREM TasksAreOnTime == PeriodicSpec => []OnTime
<1>1. PeriodicInv /\ Timely => OnTime
  <2> SUFFICES ASSUME PeriodicTypeOK, Timely, process = "up",
                      NEW p \in Patterns, Enabled(p), tasks[p].spec \in Delays
               PROVE  since[p] <= tasks[p].spec + 1
    BY DEF PeriodicInv, OnTime
  <2> DEFINE d == tasks[p].spec
             c == ConfigOf(p)
  <2>1. c \in Config /\ c[2] = d /\ d \in Nat \ {0} /\ MaxDelay \in Nat
    <3>1. tasks[p] \in Row
      BY DEF Enabled, PeriodicTypeOK
    <3> QED
      BY <3>1, DueConfig DEF ConfigOf
  <2>2. since[p] \in Nat /\ timer[c] \in {Idle} \cup 0 .. c[2]
    BY <2>1 DEF PeriodicTypeOK
  <2>3. IF timer[c] # Idle THEN since[p] + timer[c] <= d + 1
        ELSE since[p] <= IF synced THEN 0 ELSE 1
    BY DEF Timely
  <2> HIDE DEF c, d
  <2>4. since[p] <= d + 1
    BY <2>1, <2>2, <2>3 DEF Idle
  <2> QED
    BY <2>4 DEF d
<1>2. PeriodicInv /\ Timely /\ PeriodicInv' /\ [PeriodicNext]_periodicVars => Timely'
  BY TimelySteps
<1> QED
  BY PeriodicStarts, PeriodicSteps, TimelyAtFirst, <1>1, <1>2, PTL DEF PeriodicSpec
=============================================================================
