---------------------------- MODULE LoaderProofs ----------------------------
(***************************************************************************)
(* Proofs about the loader of the configuration: Settings, for every set   *)
(* of lines, of files and of exported variables, and Identity, the         *)
(* agent_id it resolves.                                                   *)
(*                                                                         *)
(* Three arguments.  RunsUsably: what a number is set to could always be   *)
(* read, so it is enough that validate and the constructors look for what  *)
(* is too low.  Precedence: parseYAML keeps one section and one map, and   *)
(* for a plain file they always are what the lines so far say (ParsedSays) *)
(* - the section is the key of the last heading, if no value closed it,    *)
(* and the map holds the last value of each path; from there on the loop   *)
(* over the map replaces the defaults one by one (Layered).  The identity: *)
(* while a start would find the one the agent ran under, no other is being *)
(* generated (IdentityKept), so a kill between truncating the file and     *)
(* writing it loses nothing that was used.                                 *)
(***************************************************************************)
EXTENDS Settings, Identity, SequenceTheorems, WellFoundedInduction, TLAPS

-----------------------------------------------------------------------------
(* The invariants.                                                         *)

UsableInv ==
  /\ \A key \in Numbers : settings[key] \in Readable
  /\ pc \in {"loaded", "running"} => Valid
  /\ pc = "running" =>
       \A key \in {<<"collect_timeout">>, <<"api", "timeout">>, <<"buffer_capacity">>} :
         settings[key] # "low"

\* The section an indented line would go to.
OpenSection ==
  IF TopLevel = {} THEN <<>>
  ELSE LET last == Heading(Len(file))
       IN  IF file[last].value = "none" THEN file[last].key ELSE <<>>

ParsedSays ==
  /\ section = OpenSection
  /\ \A key \in Keys : Says(key) = IF key \in DOMAIN parsed THEN parsed[key] ELSE "none"

FromFile(key) == IF Says(key) # "none" THEN Says(key) ELSE defaults[key]

Layered ==
  /\ pc = "open" => DOMAIN parsed = {}
  /\ pc \in {"open", "read"} => settings = defaults
  /\ pc = "apply" =>
       \A key \in Keys : settings[key] = IF key \in pending THEN defaults[key] ELSE FromFile(key)
  /\ pc = "env" => \A key \in Keys : settings[key] = FromFile(key)
  /\ pc \in {"validate", "loaded"} =>
       \A key \in Keys :
         settings[key] = IF Overrides(key, env) THEN env[key] ELSE FromFile(key)

PrecedenceInv == Plain => ParsedSays /\ Layered
-----------------------------------------------------------------------------
(* Types.                                                                  *)

LEMMA DefaultsTyped == defaults \in [Keys -> Values \union {"default"}]
BY DEF defaults, Values

\* What is assumed of one line a file may have.
LEMMA LineTyped ==
  ASSUME NEW line \in Lines
  PROVE  line.depth \in Nat /\ line.key \in Seq(STRING) /\ line.value \in Values
BY SettingsAssumption

LEMMA TypeStep == TypeOK /\ [Next]_vars => TypeOK'
<1> SUFFICES ASSUME TypeOK, [Next]_vars PROVE TypeOK'
  OBVIOUS
<1>1. CASE OpenFile
  BY <1>1 DEF TypeOK, OpenFile, GoTo
<1>2. ASSUME NEW line \in Lines, ReadLine(line) PROVE TypeOK'
  <2>1. file' \in Seq(Lines) /\ Len(file') <= MaxLines
    BY <1>2, SettingsAssumption DEF TypeOK, ReadLine
  <2>2. section' \in {<<>>} \union {l.key : l \in Lines}
    BY <1>2 DEF TypeOK, ReadLine, NextSection
  <2>3. Uncommented(line.value) \in Values \ {Hashed}
    BY LineTyped DEF Uncommented, Values, Hashed
  <2>4. (\A key \in DOMAIN parsed' : parsed'[key] \in Values \ {Hashed})
        /\ DOMAIN parsed \subseteq DOMAIN parsed'
    BY <1>2, <2>3 DEF TypeOK, ReadLine, With
  <2> QED BY <1>2, <2>1, <2>2, <2>4 DEF TypeOK, ReadLine
<1>3. CASE LineTooLong
  BY <1>3 DEF TypeOK, LineTooLong, GoTo
<1>4. CASE ReadEnds
  BY <1>4 DEF TypeOK, ReadEnds, GoTo
<1>5. ASSUME NEW key \in DOMAIN parsed, SkipKey(key) \/ KeyFails(key) PROVE TypeOK'
  BY <1>5 DEF TypeOK, SkipKey, KeyFails, GoTo
<1>6. ASSUME NEW key \in DOMAIN parsed, SetKey(key) PROVE TypeOK'
  BY <1>6 DEF TypeOK, SetKey, Relevant
<1>7. CASE ApplyEnds
  BY <1>7 DEF TypeOK, ApplyEnds, GoTo
<1>8. CASE ApplyEnv
  <2>1. settings' \in [Keys -> Values \union {"default"}]
    BY <1>8 DEF TypeOK, ApplyEnv, Overrides
  <2> QED BY <1>8, <2>1 DEF TypeOK, ApplyEnv, GoTo
<1>9. CASE Validate \/ RedisRefuses
  BY <1>9 DEF TypeOK, Validate, RedisRefuses, GoTo
<1>10. CASE Construct
  <2>1. settings' \in [Keys -> Values \union {"default"}]
    BY <1>10 DEF TypeOK, Construct, Positive
  <2> QED BY <1>10, <2>1 DEF TypeOK, Construct, GoTo
<1>11. CASE UNCHANGED vars
  BY <1>11 DEF TypeOK, vars
<1> QED
  BY <1>1, <1>2, <1>3, <1>4, <1>5, <1>6, <1>7, <1>8, <1>9, <1>10, <1>11 DEF Next

\* The loader's state has its type, whatever file and environment it reads.
THEOREM LoaderTyped == Spec => []TypeOK
<1>1. Init => TypeOK
  BY DefaultsTyped, SettingsAssumption DEF Init, TypeOK, Unset, Values
<1> QED BY <1>1, TypeStep, PTL DEF Spec

-----------------------------------------------------------------------------
(* RunsUsably.                                                             *)

LEMMA NumbersAreKeys == Numbers \subseteq Keys /\ Numbers \intersect Texts = {}
BY DEF Keys, Numbers, Texts

LEMMA UsableStep == TypeOK /\ UsableInv /\ [Next]_vars => UsableInv'
<1> SUFFICES ASSUME TypeOK, UsableInv, [Next]_vars PROVE UsableInv'
  OBVIOUS
<1>1. CASE OpenFile \/ LineTooLong \/ ReadEnds \/ ApplyEnds \/ RedisRefuses
  BY <1>1 DEF UsableInv, OpenFile, LineTooLong, ReadEnds, ApplyEnds, RedisRefuses, GoTo,
              Valid, Blank
<1>2. ASSUME NEW line \in Lines, ReadLine(line) PROVE UsableInv'
  BY <1>2 DEF UsableInv, ReadLine, Valid, Blank
<1>3. ASSUME NEW key \in DOMAIN parsed, SkipKey(key) \/ KeyFails(key) PROVE UsableInv'
  BY <1>3 DEF UsableInv, SkipKey, KeyFails, GoTo, Valid, Blank
<1>4. ASSUME NEW key \in DOMAIN parsed, SetKey(key) PROVE UsableInv'
  <2>1. \A k \in Numbers : settings'[k] \in Readable
    BY <1>4, NumbersAreKeys DEF TypeOK, UsableInv, SetKey, Relevant, Parses
  <2> QED BY <1>4, <2>1 DEF UsableInv, SetKey
<1>5. CASE ApplyEnv
  <2>1. \A k \in Numbers : settings'[k] \in Readable
    BY <1>5, NumbersAreKeys DEF UsableInv, ApplyEnv, Overrides, Parses
  <2> QED BY <1>5, <2>1 DEF UsableInv, ApplyEnv, GoTo
<1>6. CASE Validate
  BY <1>6 DEF UsableInv, Validate, GoTo, Valid, Blank
<1>7. CASE Construct
  <2>1. \A k \in Keys :
          settings'[k] = IF k = <<"collect_timeout">> THEN "default"
                         ELSE IF k \in {<<"api", "timeout">>, <<"buffer_capacity">>}
                           THEN Positive(settings[k])
                         ELSE settings[k]
    BY <1>7 DEF TypeOK, Construct, Positive
  <2>2. \A k \in Numbers : settings'[k] \in Readable
    BY <2>1, NumbersAreKeys DEF UsableInv, Positive, Readable
  <2>3. \A k \in {<<"collect_timeout">>, <<"api", "timeout">>, <<"buffer_capacity">>} :
          settings'[k] # "low"
    BY <2>1, NumbersAreKeys DEF Numbers, Positive
  <2>4. \A k \in {<<"api", "api_key">>, <<"redis", "addr">>, <<"collect_interval">>,
                  <<"retry", "max_attempts">>} : settings'[k] = settings[k]
    BY <2>1 DEF Keys, Numbers, Texts
  <2>5. Valid'
    BY <1>7, <2>4 DEF UsableInv, Construct, Valid, Blank
  <2> QED BY <1>7, <2>2, <2>3, <2>5 DEF UsableInv, Construct, GoTo
<1>8. CASE UNCHANGED vars
  BY <1>8 DEF UsableInv, vars, Valid, Blank
<1> QED
  BY <1>1, <1>2, <1>3, <1>4, <1>5, <1>6, <1>7, <1>8 DEF Next

\* Whatever the file and the environment say, an agent that runs has no interval,
\* timeout, capacity or number of attempts that is zero or negative, and an API
\* key and a Redis address that are not blank (loader.go:217-231 and the
\* constructors).
THEOREM RunningIsUsable == Spec => []RunsUsably
<1>1. Init => UsableInv
  BY NumbersAreKeys DEF Init, UsableInv, defaults, Readable, Numbers
<1>2. UsableInv => RunsUsably
  BY DEF UsableInv, RunsUsably, Valid, Numbers
<1> QED BY <1>1, <1>2, UsableStep, LoaderTyped, PTL DEF Spec
-----------------------------------------------------------------------------
(* The last line of a set of lines.                                        *)

\* A set of naturals that is not empty has a least element: what stands for
\* induction here.
LEMMA LeastNat ==
  ASSUME NEW S, S \subseteq Nat, S # {}
  PROVE  \E n \in S : \A m \in S : n <= m
<1>1. \E n \in S : \A m \in S : <<m, n>> \notin OpToRel(<, Nat)
  BY NatLessThanWellFounded, WFMin, Zenon
<1>2. \A m, n \in Nat : <<m, n>> \notin OpToRel(<, Nat) => n <= m
  BY DEF OpToRel
<1> QED BY <1>1, <1>2

LEMMA LastOf ==
  ASSUME NEW n \in Nat, NEW S, S \subseteq 1 .. n, S # {}
  PROVE  \E h \in S : \A t \in S : t <= h
<1> DEFINE Distances == {n - t : t \in S}
<1>1. \A t \in S : t \in Nat /\ n - t \in Nat
  OBVIOUS
<1>2. Distances \subseteq Nat /\ Distances # {}
  BY <1>1
<1>3. PICK d \in Distances : \A e \in Distances : d <= e
  BY <1>2, LeastNat
<1>4. PICK h \in S : d = n - h
  OBVIOUS
<1>5. ASSUME NEW t \in S PROVE t <= h
  <2>1. n - h <= n - t
    BY <1>3, <1>4
  <2> QED BY <1>1, <2>1
<1> QED BY <1>5

LEMMA HeadingIs ==
  ASSUME TypeOK, NEW i \in Nat, \E t \in TopLevel : t <= i
  PROVE  /\ Heading(i) \in TopLevel /\ Heading(i) <= i
         /\ \A t \in TopLevel : t <= i => t <= Heading(i)
<1> DEFINE Above == {t \in TopLevel : t <= i}
<1>1. Above \subseteq 1 .. i /\ Above # {}
  BY DEF TypeOK, TopLevel, Keyed
<1>2. \E h \in Above : \A t \in Above : t <= h
  BY <1>1, LastOf
<1>3. \E h \in TopLevel : h <= i /\ \A t \in TopLevel : t <= i => t <= h
  BY <1>2
<1> QED BY <1>3 DEF Heading

\* A line's heading, and the last line about a key, are the only such lines.
LastIsUnique ==
  /\ \A i \in Nat : \A h \in TopLevel :
       h <= i /\ (\A t \in TopLevel : t <= i => t <= h) => Heading(i) = h
  /\ \A key \in Keys : \A i \in About(key) :
       (\A j \in About(key) : j <= i) => Says(key) = file[i].value

LEMMA LastUnique == TypeOK => LastIsUnique
<1> SUFFICES ASSUME TypeOK PROVE LastIsUnique
  OBVIOUS
<1>1. ASSUME NEW i \in Nat, NEW h \in TopLevel,
             h <= i, \A t \in TopLevel : t <= i => t <= h
      PROVE  Heading(i) = h
  <2>1. /\ Heading(i) \in TopLevel /\ Heading(i) <= i
        /\ \A t \in TopLevel : t <= i => t <= Heading(i)
    BY <1>1, HeadingIs
  <2>2. Heading(i) <= h /\ h <= Heading(i)
    BY <1>1, <2>1
  <2>3. h \in Nat /\ Heading(i) \in Nat
    BY <2>1 DEF TypeOK, TopLevel, Keyed
  <2> QED BY <2>2, <2>3
<1>2. ASSUME NEW key \in Keys, NEW i \in About(key), \A j \in About(key) : j <= i
      PROVE  Says(key) = file[i].value
  <2>1. About(key) \subseteq Nat
    BY DEF TypeOK, About, Keyed
  <2>2. PICK l \in About(key) : /\ \A j \in About(key) : j <= l
                                /\ Says(key) = file[l].value
    BY <1>2 DEF Says
  <2>3. i <= l /\ l <= i /\ i \in Nat /\ l \in Nat
    BY <1>2, <2>1, <2>2
  <2> QED BY <2>2, <2>3
<1> QED BY <1>1, <1>2 DEF LastIsUnique

LEMMA AboutHasLast ==
  ASSUME TypeOK, NEW key, About(key) # {}
  PROVE  \E i \in About(key) : \A j \in About(key) : j <= i
<1>1. Len(file) \in Nat /\ About(key) \subseteq 1 .. Len(file)
  BY DEF TypeOK, About, Keyed
<1> QED BY <1>1, LastOf

LEMMA SaysStays ==
  ASSUME TypeOK, TypeOK', NEW key \in Keys, About(key)' = About(key),
         \A i \in About(key) : file'[i] = file[i]
  PROVE  Says(key)' = Says(key)
<1>1. CASE About(key) = {}
  BY <1>1 DEF Says
<1>2. CASE About(key) # {}
  <2>1. PICK i \in About(key) : \A j \in About(key) : j <= i
    BY <1>2, AboutHasLast
  <2>2. LastIsUnique /\ LastIsUnique'
    BY LastUnique, PTL
  <2>3. Says(key) = file[i].value /\ Says(key)' = file'[i].value
    BY <2>1, <2>2 DEF LastIsUnique
  <2> QED BY <2>1, <2>3
<1> QED BY <1>1, <1>2

-----------------------------------------------------------------------------
(* One more line.                                                          *)

LEMMA OneMoreLine ==
  ASSUME TypeOK, NEW line \in Lines, ReadLine(line)
  PROVE  /\ Len(file) \in Nat /\ Len(file') = Len(file) + 1
         /\ DOMAIN file = 1 .. Len(file) /\ DOMAIN file' = 1 .. Len(file) + 1
         /\ \A i \in DOMAIN file : file'[i] = file[i]
         /\ file'[Len(file) + 1] = line
BY DEF TypeOK, ReadLine

\* The lines before it keep their places, their levels and their headings.
LEMMA EarlierLinesStay ==
  ASSUME TypeOK, TypeOK', NEW line \in Lines, ReadLine(line)
  PROVE  /\ Keyed' = IF line.key # <<>> THEN Keyed \union {Len(file) + 1} ELSE Keyed
         /\ TopLevel' = IF line.key # <<>> /\ line.depth = 0
                          THEN TopLevel \union {Len(file) + 1} ELSE TopLevel
         /\ \A i \in DOMAIN file : (\E t \in TopLevel : t <= i) => Heading(i)' = Heading(i)
<1> DEFINE n == Len(file)
<1>1. Keyed' = IF line.key # <<>> THEN Keyed \union {n + 1} ELSE Keyed
  BY OneMoreLine DEF Keyed
<1>2. TopLevel' = IF line.key # <<>> /\ line.depth = 0 THEN TopLevel \union {n + 1} ELSE TopLevel
  BY <1>1, OneMoreLine DEF TopLevel, Keyed
<1>3. ASSUME NEW i \in DOMAIN file, \E t \in TopLevel : t <= i
      PROVE  Heading(i)' = Heading(i)
  <2>1. i \in Nat /\ i <= n /\ n \in Nat
    BY OneMoreLine
  <2>2. /\ Heading(i) \in TopLevel /\ Heading(i) <= i
        /\ \A t \in TopLevel : t <= i => t <= Heading(i)
    BY <1>3, <2>1, HeadingIs
  <2> DEFINE h == Heading(i)
  <2>3. /\ h \in TopLevel' /\ h <= i
        /\ \A t \in TopLevel' : t <= i => t <= h
    BY <1>2, <2>1, <2>2
  <2> HIDE DEF h
  <2>4. LastIsUnique'
    BY LastUnique, PTL
  <2>5. Heading(i)' = h
    BY <2>1, <2>3, <2>4 DEF LastIsUnique
  <2> QED BY <2>5 DEF h
<1> QED BY <1>1, <1>2, <1>3

\* A file that is plain with the line was plain before it, and in a plain file
\* the line leaves alone what the earlier ones are about.
LEMMA EarlierPathsStay ==
  ASSUME TypeOK, TypeOK', NEW line \in Lines, ReadLine(line), Plain'
  PROVE  Plain /\ \A i \in Keyed : Path(i)' = Path(i)
<1> DEFINE n == Len(file)
<1>1. /\ \A i \in Keyed : i \in 1 .. n /\ i \in Keyed' /\ file'[i] = file[i]
      /\ \A i \in Keyed : i \in TopLevel' <=> i \in TopLevel
      /\ n \in Nat
  BY OneMoreLine, EarlierLinesStay DEF Keyed, TopLevel
<1>2. ASSUME NEW i \in Keyed, i \notin TopLevel
      PROVE  /\ file[i].depth = 1
             /\ \E t \in TopLevel : t < i
             /\ Heading(i)' = Heading(i)
             /\ file'[Heading(i)] = file[Heading(i)]
             /\ file[Heading(i)].value = "none"
  <2>1. file[i] \in Lines /\ file[i].depth \in Nat /\ file[i].depth # 0
    BY <1>2, LineTyped DEF TypeOK, Keyed, TopLevel
  <2>2. file[i].depth = 1
    BY <1>1, <2>1 DEF Plain
  <2>3. PICK t \in TopLevel' : t < i /\ file'[Heading(i)'].value = "none"
    BY <1>1, <2>2 DEF Plain
  <2>4. t \in TopLevel
    BY <1>1, <2>3, EarlierLinesStay
  <2>5. i \in DOMAIN file /\ i \in Nat /\ \E u \in TopLevel : u <= i
    BY <1>1, <2>3, <2>4, OneMoreLine DEF TopLevel
  <2>6. Heading(i)' = Heading(i) /\ Heading(i) \in TopLevel
    BY <2>5, EarlierLinesStay, HeadingIs
  <2>7. file'[Heading(i)] = file[Heading(i)]
    BY <1>1, <2>6 DEF TopLevel
  <2> QED BY <2>2, <2>3, <2>4, <2>6, <2>7
<1>3. Plain
  <2> SUFFICES ASSUME NEW i \in Keyed
      PROVE  /\ Len(file[i].key) = 1 /\ file[i].value # Hashed /\ file[i].depth <= 1
             /\ file[i].depth = 1 =>
                  \E t \in TopLevel : t < i /\ file[Heading(i)].value = "none"
    BY DEF Plain
  <2>1. Len(file[i].key) = 1 /\ file[i].value # Hashed /\ file[i].depth <= 1
    BY <1>1 DEF Plain
  <2>2. file[i].depth = 1 => i \notin TopLevel
    BY DEF TopLevel
  <2> QED BY <1>2, <2>1, <2>2
<1>4. \A i \in Keyed : Path(i)' = Path(i)
  BY <1>1, <1>2 DEF Path
<1> QED BY <1>3, <1>4

\* The heading of what comes at the end.
LEMMA LastHeading ==
  ASSUME TypeOK, TypeOK', NEW line \in Lines, ReadLine(line), NEW n, n = Len(file)
  PROVE  IF line.key # <<>> /\ line.depth = 0
           THEN Heading(n + 1)' = n + 1
           ELSE TopLevel # {} => /\ Heading(n + 1)' = Heading(n)
                                 /\ file'[Heading(n)] = file[Heading(n)]
<1>1. n \in Nat /\ n + 1 \in Nat /\ TopLevel \subseteq 1 .. n
  BY OneMoreLine DEF TopLevel, Keyed
<1>2. LastIsUnique'
  BY LastUnique, PTL
<1>3. CASE line.key # <<>> /\ line.depth = 0
  <2>1. TopLevel' = TopLevel \union {n + 1}
    BY <1>3, EarlierLinesStay
  <2>2. n + 1 \in TopLevel' /\ \A t \in TopLevel' : t <= n + 1
    BY <1>1, <2>1
  <2>3. Heading(n + 1)' = n + 1
    BY <1>1, <1>2, <2>2 DEF LastIsUnique
  <2> QED BY <1>3, <2>3
<1>4. ASSUME ~(line.key # <<>> /\ line.depth = 0), TopLevel # {}
      PROVE  /\ Heading(n + 1)' = Heading(n)
             /\ file'[Heading(n)] = file[Heading(n)]
  <2>1. PICK h \in TopLevel : h = Heading(n) /\ \A t \in TopLevel : t <= h
    <3>1. \A t \in TopLevel : t \in Nat /\ t <= n
      BY <1>1
    <3>2. \E t \in TopLevel : t <= n
      BY <1>4, <3>1
    <3>3. Heading(n) \in TopLevel /\ \A t \in TopLevel : t <= n => t <= Heading(n)
      BY <1>1, <3>2, HeadingIs
    <3> QED BY <3>1, <3>3
  <2>2. TopLevel' = TopLevel
    BY <1>4, EarlierLinesStay
  <2>3. Heading(n + 1)' = h
    <3>1. h \in TopLevel' /\ h <= n + 1 /\ \A t \in TopLevel' : t <= h
      BY <1>1, <2>1, <2>2
    <3> QED BY <1>1, <1>2, <3>1 DEF LastIsUnique
  <2>4. file'[h] = file[h]
    BY <2>1, <1>1, OneMoreLine
  <2> QED BY <2>1, <2>3, <2>4
<1> QED BY <1>3, <1>4

LEMMA SectionStep ==
  ASSUME TypeOK, TypeOK', NEW line \in Lines, ReadLine(line), section = OpenSection
  PROVE  section' = OpenSection'
<1>1. PICK n \in Nat : n = Len(file) /\ n + 1 = Len(file') /\ file'[n + 1] = line
  BY OneMoreLine
<1>2. OpenSection' = IF TopLevel' = {} THEN <<>>
                     ELSE IF file'[Heading(n + 1)'].value = "none"
                            THEN file'[Heading(n + 1)'].key ELSE <<>>
  BY <1>1 DEF OpenSection
<1>3. CASE line.key # <<>> /\ line.depth = 0
  <2>1. Heading(n + 1)' = n + 1 /\ TopLevel' # {}
    BY <1>1, <1>3, LastHeading, EarlierLinesStay
  <2>2. section' = IF line.value = "none" THEN line.key ELSE <<>>
    BY <1>3 DEF ReadLine, NextSection
  <2> QED BY <1>1, <1>2, <2>1, <2>2
<1>4. CASE ~(line.key # <<>> /\ line.depth = 0)
  <2>1. section' = section
    BY <1>4, LineTyped DEF ReadLine, NextSection
  <2>2. TopLevel' = TopLevel
    BY <1>4, EarlierLinesStay
  <2>3. TopLevel # {} => /\ Heading(n + 1)' = Heading(n)
                         /\ file'[Heading(n)] = file[Heading(n)]
    BY <1>1, <1>4, LastHeading
  <2>4. section = IF TopLevel = {} THEN <<>>
                  ELSE IF file[Heading(n)].value = "none" THEN file[Heading(n)].key ELSE <<>>
    BY <1>1 DEF OpenSection
  <2> QED BY <1>2, <2>1, <2>2, <2>3, <2>4
<1> QED BY <1>3, <1>4

\* The loop over the lines: the map says what the lines say.
LEMMA ReadLineSays ==
  ASSUME TypeOK, TypeOK', NEW line \in Lines, ReadLine(line), Plain', ParsedSays
  PROVE  ParsedSays'
<1> DEFINE Written == line.key # <<>> /\ ~(line.depth = 0 /\ line.value = "none")
           path == section' \o line.key
<1>1. PICK n \in Nat : /\ n = Len(file) /\ file'[n + 1] = line
                       /\ \A i \in Keyed : i \in 1 .. n /\ i <= n + 1
                       /\ \A i \in 1 .. n : file'[i] = file[i]
  BY OneMoreLine DEF Keyed
<1>2. section' = OpenSection'
  BY SectionStep DEF ParsedSays
<1>3. ASSUME Written PROVE Path(n + 1)' = path
  <2>1. n + 1 \in Keyed' /\ (n + 1 \in TopLevel' <=> line.depth = 0)
    BY <1>1, <1>3, EarlierLinesStay DEF TopLevel
  <2>2. CASE line.depth = 0
    <3>1. section' = <<>>
      BY <1>3, <2>2 DEF ReadLine, NextSection
    <3>2. <<>> \o line.key = line.key
      BY LineTyped, ConcatEmptySeq
    <3>3. Path(n + 1)' = line.key
      BY <1>1, <2>1, <2>2 DEF Path
    <3> QED BY <3>1, <3>2, <3>3
  <2>3. CASE line.depth # 0
    <3>1. line.depth = 1
      BY <1>1, <2>1, <2>3, LineTyped DEF Plain
    <3>2. \E t \in TopLevel' : t < n + 1 /\ file'[Heading(n + 1)'].value = "none"
      BY <1>1, <2>1, <3>1 DEF Plain
    <3>3. OpenSection' = file'[Heading(n + 1)'].key
      BY <1>1, <3>2, OneMoreLine DEF OpenSection
    <3>4. Path(n + 1)' = file'[Heading(n + 1)'].key \o line.key
      BY <1>1, <2>1, <2>3 DEF Path
    <3> QED BY <1>2, <3>3, <3>4
  <2> QED BY <2>2, <2>3
<1>4. ASSUME NEW key \in Keys
      PROVE  /\ \A i \in Keyed : i \in About(key)' <=> i \in About(key)
             /\ n + 1 \in About(key)' <=> Written /\ path = key
             /\ About(key)' \subseteq Keyed \union {n + 1}
  <2>1. \A i \in Keyed : i \in Keyed' /\ (i \in TopLevel' <=> i \in TopLevel)
    BY <1>1, EarlierLinesStay
  <2>2. \A i \in Keyed : i \in About(key)' <=> i \in About(key)
    BY <1>1, <2>1, EarlierPathsStay DEF About
  <2>3. About(key)' \subseteq Keyed \union {n + 1}
    BY <1>1, EarlierLinesStay DEF About
  <2>4. /\ n + 1 \in Keyed' <=> line.key # <<>>
        /\ n + 1 \in TopLevel' <=> line.key # <<>> /\ line.depth = 0
    BY <1>1, EarlierLinesStay DEF TopLevel
  <2>5. n + 1 \in About(key)' <=> Written /\ path = key
    BY <1>1, <1>3, <2>4 DEF About
  <2> QED BY <2>2, <2>3, <2>5
<1>5. LastIsUnique /\ LastIsUnique'
  BY LastUnique, PTL
<1>6. ASSUME NEW key \in Keys, Written, path = key
      PROVE  Says(key)' = parsed'[key] /\ key \in DOMAIN parsed'
  <2>1. n + 1 \in About(key)' /\ About(key)' \subseteq Keyed \union {n + 1}
    BY <1>4, <1>6
  <2>2. \A j \in About(key)' : j <= n + 1
    <3>1. \A j \in About(key)' : j \in Keyed \/ j = n + 1
      BY <2>1
    <3>2. n + 1 <= n + 1
      OBVIOUS
    <3> QED BY <1>1, <3>1, <3>2
  <2>3. Says(key)' = line.value
    BY <1>1, <1>5, <2>1, <2>2 DEF LastIsUnique
  <2>4. line.value # Hashed
    BY <1>1, <1>6, EarlierLinesStay DEF Plain
  <2>5. parsed' = With(parsed, path, Uncommented(line.value))
    BY <1>6 DEF ReadLine
  <2> QED BY <1>6, <2>3, <2>4, <2>5 DEF With, Uncommented
<1>7. ASSUME NEW key \in Keys, ~(Written /\ path = key)
      PROVE  Says(key)' = IF key \in DOMAIN parsed' THEN parsed'[key] ELSE "none"
  <2>1. About(key)' = About(key)
    BY <1>4, <1>7 DEF About
  <2>2. Says(key)' = Says(key)
    <3>1. \A i \in About(key) : file'[i] = file[i]
      BY <1>1 DEF About
    <3> QED BY <2>1, <3>1, SaysStays
  <2>3. /\ key \in DOMAIN parsed' <=> key \in DOMAIN parsed
        /\ key \in DOMAIN parsed => parsed'[key] = parsed[key]
    BY <1>7 DEF ReadLine, With
  <2> QED BY <2>2, <2>3 DEF ParsedSays
<1> QED BY <1>2, <1>6, <1>7 DEF ParsedSays

-----------------------------------------------------------------------------
(* Precedence.                                                             *)

\* What the file says depends on nothing else.
LEMMA FileUnchanged ==
  ASSUME TypeOK, TypeOK', UNCHANGED file
  PROVE  /\ Plain' = Plain
         /\ \A key \in Keys : Says(key)' = Says(key) /\ FromFile(key)' = FromFile(key)
         /\ UNCHANGED <<section, parsed>> /\ ParsedSays => ParsedSays'
<1>1. Keyed' = Keyed /\ TopLevel' = TopLevel
  BY DEF Keyed, TopLevel
<1>2. \A i : Heading(i)' = Heading(i)
  BY <1>1 DEF Heading
<1>3. \A i : Path(i)' = Path(i)
  BY <1>1, <1>2 DEF Path
<1>4. \A key : About(key)' = About(key)
  BY <1>1, <1>3 DEF About
<1>5. \A key \in Keys : Says(key)' = Says(key)
  BY <1>4, SaysStays
<1>6. \A key \in Keys : FromFile(key)' = FromFile(key)
  BY <1>5 DEF FromFile, defaults
<1>7. Plain' = Plain
  BY <1>1, <1>2 DEF Plain
<1>8. OpenSection' = OpenSection
  BY <1>1, <1>2 DEF OpenSection
<1> QED BY <1>5, <1>6, <1>7, <1>8 DEF ParsedSays

LEMMA PrecedenceStep ==
  TypeOK /\ TypeOK' /\ PrecedenceInv /\ [Next]_vars => PrecedenceInv'
<1> SUFFICES ASSUME TypeOK, TypeOK', PrecedenceInv, [Next]_vars, Plain'
             PROVE  ParsedSays' /\ Layered'
  BY DEF PrecedenceInv
<1>1. ASSUME NEW line \in Lines, ReadLine(line) PROVE ParsedSays' /\ Layered'
  <2>1. Plain
    BY <1>1, EarlierPathsStay
  <2>2. ParsedSays'
    BY <1>1, <2>1, ReadLineSays DEF PrecedenceInv
  <2> QED BY <1>1, <2>1, <2>2 DEF PrecedenceInv, Layered, ReadLine
<1>2. ASSUME UNCHANGED file
      PROVE  /\ Plain /\ ParsedSays /\ Layered
             /\ \A key \in Keys : Says(key)' = Says(key) /\ FromFile(key)' = FromFile(key)
             /\ UNCHANGED <<section, parsed>> => ParsedSays'
  BY <1>2, FileUnchanged DEF PrecedenceInv
<1>3. CASE OpenFile
  <2>1. \A key \in Keys : FromFile(key) = defaults[key]
    BY <1>2, <1>3 DEF OpenFile, FromFile, ParsedSays, Layered
  <2> QED BY <1>2, <1>3, <2>1 DEF OpenFile, GoTo, Layered
<1>4. CASE LineTooLong \/ RedisRefuses
  BY <1>2, <1>4 DEF LineTooLong, RedisRefuses, GoTo, Layered
<1>5. CASE ReadEnds
  <2>1. \A key \in Keys : key \notin DOMAIN parsed => FromFile(key) = defaults[key]
    BY <1>2, <1>5 DEF ReadEnds, FromFile, ParsedSays
  <2> QED BY <1>2, <1>5, <2>1 DEF ReadEnds, GoTo, Layered
<1>6. ASSUME NEW key \in DOMAIN parsed, SkipKey(key) PROVE ParsedSays' /\ Layered'
  <2>1. key \in Keys => FromFile(key) = defaults[key]
    BY <1>2, <1>6 DEF SkipKey, Relevant, FromFile, ParsedSays
  <2> QED BY <1>2, <1>6, <2>1 DEF SkipKey, Layered
<1>7. ASSUME NEW key \in DOMAIN parsed, SetKey(key) PROVE ParsedSays' /\ Layered'
  <2>1. key \in Keys /\ FromFile(key) = parsed[key]
    BY <1>2, <1>7 DEF SetKey, Relevant, FromFile, ParsedSays
  <2>2. \A k \in Keys : settings'[k] = IF k = key THEN parsed[key] ELSE settings[k]
    BY <1>7 DEF SetKey, TypeOK
  <2> QED BY <1>2, <1>7, <2>1, <2>2 DEF SetKey, Layered
<1>8. ASSUME NEW key \in DOMAIN parsed, KeyFails(key) PROVE ParsedSays' /\ Layered'
  BY <1>2, <1>8 DEF KeyFails, GoTo, Layered
<1>9. CASE ApplyEnds
  BY <1>2, <1>9 DEF ApplyEnds, GoTo, Layered
<1>10. CASE ApplyEnv
  <2>1. \A k \in Keys :
          settings'[k] = IF Overrides(k, env') THEN env'[k] ELSE FromFile(k)
    BY <1>2, <1>10 DEF ApplyEnv, Layered
  <2> QED BY <1>2, <1>10, <2>1 DEF ApplyEnv, GoTo, Layered
<1>11. CASE Validate
  BY <1>2, <1>11 DEF Validate, GoTo, Layered
<1>12. CASE Construct
  BY <1>2, <1>12 DEF Construct, GoTo, Layered
<1>13. CASE UNCHANGED vars
  BY <1>2, <1>13 DEF vars, Layered, Overrides
<1> QED
  BY <1>1, <1>3, <1>4, <1>5, <1>6, <1>7, <1>8, <1>9, <1>10, <1>11, <1>12, <1>13 DEF Next

\* "Precedence (highest to lowest)" (config/loader.go:4): for every plain file,
\* however long, every environment and every order in which the map is visited.
THEOREM PrecedenceHolds == Spec => []Precedence
<1>1. Init => PrecedenceInv
  <2> SUFFICES ASSUME Init PROVE ParsedSays /\ Layered
    BY DEF PrecedenceInv
  <2>1. Keyed = {} /\ TopLevel = {} /\ DOMAIN parsed = {}
    BY DEF Init, Keyed, TopLevel
  <2>2. \A key : About(key) = {}
    BY <2>1 DEF About
  <2>3. ParsedSays
    BY <2>1, <2>2 DEF Init, ParsedSays, Says, OpenSection
  <2> QED BY <2>3 DEF Init, Layered
<1>2. PrecedenceInv => Precedence
  BY DEF PrecedenceInv, Layered, Precedence, FromFile
<1>3. TypeOK /\ PrecedenceInv /\ [Next]_vars => PrecedenceInv'
  BY TypeStep, PrecedenceStep
<1> QED BY <1>1, <1>2, <1>3, LoaderTyped, PTL DEF Spec

-----------------------------------------------------------------------------
(* The identity (resolveAgentID).                                            *)

\* What is written to the file was generated for it: nobody saves a pinned
\* identity.
Resolving == phase \in {"open", "write"} => pinned = NoID /\ agentID \in UUIDs

\* Every step of a start, a crash or the operator preserves the types.
LEMMA IdentityTypeStep == IDTypeOK /\ Resolving /\ [IDNext]_idVars => IDTypeOK' /\ Resolving'
<1> SUFFICES ASSUME IDTypeOK, Resolving, [IDNext]_idVars PROVE IDTypeOK' /\ Resolving'
  OBVIOUS
<1> USE DEF Resolving
<1>1. /\ MaxUUIDs \in Nat /\ generated \in 0 .. MaxUUIDs
      /\ PinnedID # NoID /\ NoID \notin UUIDs
      /\ explained \in BOOLEAN /\ Writable \in BOOLEAN
  BY IdentityAssumption DEF IDTypeOK, PinnedID, NoID, UUIDs
<1>2. explained' \in BOOLEAN
  <2>1. \/ explained' = explained \/ explained' = TRUE \/ explained' = FALSE
        \/ explained' = Writable \/ explained' = (explained \/ disk # idFile)
    BY DEF IDNext, StartPinned, StartFromFile, Generate, GenerateUnread, OpenFails,
           OpenTruncates, Write, WriteFails, Stop, Sync, PowerFailure, EditConfig, RunAs, idVars
  <2> QED BY <1>1, <2>1, Zenon
<1>3. CASE StartPinned \/ StartFromFile
  BY <1>1, <1>2, <1>3 DEF IDTypeOK, StartPinned, StartFromFile, RunAs
<1>4. CASE Generate \/ GenerateUnread
  <2>1. generated + 1 \in UUIDs /\ generated + 1 \in 0 .. MaxUUIDs
    BY <1>1, <1>4 DEF Generate, GenerateUnread, NewIdentity, UUIDs
  <2>2. NewIdentity
    BY <1>4 DEF Generate, GenerateUnread
  <2> QED BY <1>1, <1>2, <2>1, <2>2 DEF IDTypeOK, NewIdentity
<1>5. CASE OpenFails \/ OpenTruncates \/ WriteFails
  BY <1>1, <1>2, <1>5 DEF IDTypeOK, OpenFails, OpenTruncates, WriteFails, RunUnsaved
<1>6. CASE Write
  <2>1. agentID \in UUIDs /\ agentID' = agentID /\ idFile' = agentID /\ lastID' = agentID
    BY <1>6 DEF Write, RunAs
  <2> QED BY <1>1, <1>2, <1>6, <2>1 DEF IDTypeOK, Write, RunAs
<1>7. CASE Stop \/ Sync \/ PowerFailure \/ EditConfig
  BY <1>1, <1>2, <1>7 DEF IDTypeOK, Stop, Sync, PowerFailure, EditConfig
<1>8. CASE UNCHANGED idVars
  BY <1>8 DEF IDTypeOK, idVars
<1> QED BY <1>3, <1>4, <1>5, <1>6, <1>7, <1>8 DEF IDNext

\* The types hold in every reachable state.
LEMMA IdentityInvariant == IDSpec => [](IDTypeOK /\ Resolving)
<1>1. IDInit => IDTypeOK /\ Resolving
  <2> SUFFICES ASSUME IDInit PROVE IDTypeOK /\ Resolving
    OBVIOUS
  <2>1. explained \in BOOLEAN
    BY Zenon DEF IDInit
  <2> QED BY <2>1, IdentityAssumption DEF IDInit, IDTypeOK, Resolving, NoID, UUIDs
<1> QED BY <1>1, IdentityTypeStep, PTL DEF IDSpec

\* Type correctness: the file never holds a pinned identity, and an agent that is
\* up has an identity whether or not it could save it.
THEOREM IdentityTyped == IDSpec => []IDTypeOK
BY IdentityInvariant, PTL

\* The identity the agent ran under is where the next start looks for it, unless
\* there is an explanation; and then no other is being generated.
IdentityKept ==
  lastID # NoID /\ ~explained =>
    /\ IF pinned = NoID THEN idFile = lastID ELSE lastID = pinned
    /\ phase \in {"down", "running"}

\* Every step preserves IdentityKept, where the agent may write its file.
LEMMA KeptStep ==
  Writable /\ IDTypeOK /\ Resolving /\ IdentityKept /\ [IDNext]_idVars => IdentityKept'
<1> SUFFICES ASSUME Writable, IDTypeOK, Resolving, IdentityKept, [IDNext]_idVars
             PROVE  IdentityKept'
  OBVIOUS
<1> USE DEF IdentityKept
<1>1. CASE StartPinned \/ StartFromFile
  BY <1>1 DEF StartPinned, StartFromFile, RunAs
<1>2. CASE Generate \/ GenerateUnread
  \* Without a pinned and without a saved identity there is none to keep, and a
  \* saved one that could not be read explains the change.
  <2>1. lastID = NoID \/ explained \/ explained'
    BY <1>2 DEF Generate, GenerateUnread, NewIdentity
  <2>2. lastID' = lastID /\ (explained' = explained \/ explained' = TRUE)
    BY <1>2 DEF Generate, GenerateUnread, NewIdentity
  <2> QED BY <2>1, <2>2
<1>3. CASE OpenFails \/ WriteFails
  BY <1>3 DEF OpenFails, WriteFails
<1>4. CASE OpenTruncates
  <2>1. lastID = NoID \/ explained
    BY <1>4 DEF OpenTruncates
  <2> QED BY <1>4, <2>1 DEF OpenTruncates
<1>5. CASE Write
  BY <1>5 DEF Write, RunAs, Resolving
<1>6. CASE Stop \/ Sync
  BY <1>6 DEF Stop, Sync
<1>7. CASE PowerFailure
  <2>1. ~explained' => ~explained /\ disk = idFile
    BY <1>7, Zenon DEF PowerFailure
  <2> QED BY <1>7, <2>1 DEF PowerFailure
<1>8. CASE EditConfig
  BY <1>8 DEF EditConfig
<1>9. CASE UNCHANGED idVars
  BY <1>9 DEF idVars
<1> QED BY <1>1, <1>2, <1>3, <1>4, <1>5, <1>6, <1>7, <1>8, <1>9 DEF IDNext

\* Where the agent may write its file, it comes back under the identity it ran
\* under before, over stops, kills within resolveAgentID and power failures,
\* unless a failed read or write of the file, lost data or the operator explain
\* the change.
THEOREM IdentityStays == ASSUME Writable PROVE IDSpec => IdentityIsStable
<1>1. IDInit => IdentityKept
  BY DEF IDInit, IdentityKept
<1>2. IDTypeOK /\ Resolving /\ IdentityKept /\ [IDNext]_idVars
      => [phase # "running" /\ phase' = "running" /\ lastID # NoID /\ ~explained
            => agentID' = lastID]_idVars
  <2> SUFFICES ASSUME IdentityKept, IDNext, phase # "running", phase' = "running",
                      lastID # NoID, ~explained
               PROVE  agentID' = lastID
    OBVIOUS
  <2>1. phase = "down" /\ (IF pinned = NoID THEN idFile = lastID ELSE lastID = pinned)
    BY DEF IdentityKept
  <2>2. StartPinned \/ StartFromFile
    BY <2>1 DEF IDNext, Generate, GenerateUnread, NewIdentity, OpenFails, OpenTruncates, Write,
                WriteFails, Stop, Sync, PowerFailure, EditConfig
  <2> QED BY <2>1, <2>2 DEF StartPinned, StartFromFile, RunAs
<1>3. Writable
  OBVIOUS
<1> QED BY <1>1, <1>2, <1>3, KeptStep, IdentityInvariant, PTL DEF IDSpec, IdentityIsStable
=============================================================================
