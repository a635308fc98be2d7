------------------------------ MODULE Settings ------------------------------
(***************************************************************************)
(* From config.yaml and the environment to the settings the agent runs     *)
(* with: Load, parseYAML, applyParsed, applyEnvOverrides and validate of   *)
(* config/, and the constructors that main hands the settings to.          *)
(* resolveAgentID is in Identity.                                          *)
(*                                                                         *)
(* A dotted key is a sequence, <<"api", "timeout">>, so that a section is  *)
(* prepended by \o.  A line is its depth of indentation, its key and its   *)
(* value without the quotes; comments, blank lines and lines without a     *)
(* colon have no key.                                                      *)
(***************************************************************************)
EXTENDS Naturals, Sequences

CONSTANTS
  Lines,      \* the lines a file may have
  MaxLines,   \* bound on their number
  Exported    \* the variables that are set in the environment

Texts == {<<"agent_id">>, <<"server_label">>, <<"redis", "addr">>, <<"redis", "password">>,
          <<"api", "endpoint">>, <<"api", "api_key">>, <<"log", "level">>, <<"log", "format">>}
Numbers == {<<"redis", "db">>, <<"api", "timeout">>, <<"collect_interval">>,
            <<"collect_timeout">>, <<"buffer_capacity">>, <<"retry", "max_attempts">>,
            <<"retry", "base_delay">>, <<"retry", "max_delay">>}
Keys == Texts \union Numbers

Overridable == {<<"api", "api_key">>, <<"api", "endpoint">>, <<"server_label">>,
                <<"redis", "addr">>, <<"redis", "password">>, <<"collect_interval">>,
                <<"log", "level">>, <<"log", "format">>, <<"retry", "max_attempts">>}

\* What values are told apart by: absent; nothing but blanks; a number that is
\* zero, negative or too short; two good ones; no number; one with " #" in it.
Hashed == "good # better"
Values == {"none", "blank", "low", "good", "better", "bad", Hashed}
Readable == {"low", "good", "better", "default"}   \* by Atoi or ParseDuration

Parses(key, value) == key \in Texts \/ value \in Readable

ASSUME SettingsAssumption ==
  /\ Lines \subseteq [depth : Nat, key : Seq(STRING), value : Values]
  /\ MaxLines \in Nat
  /\ Exported \subseteq Overridable

VARIABLES
  pc,         \* what main and Load are doing
  file,       \* history: the lines read
  section,    \* parseYAML: the open section, empty if none
  parsed,     \* parseYAML's result, a map
  pending,    \* applyParsed: the keys its loop has yet to visit, in any order
  settings,   \* File, and what the constructors make of it
  env         \* the environment, as it was read

vars == <<pc, file, section, parsed, pending, settings, env>>

defaults == [key \in Keys |-> IF key \in {<<"agent_id">>, <<"redis", "password">>,
                                          <<"api", "api_key">>}
                                THEN "none" ELSE "default"]

Unset == [key \in Exported |-> "none"]

Init ==
  /\ pc = "open"
  /\ file = <<>> /\ section = <<>> /\ parsed = <<>> /\ pending = {}
  /\ settings = defaults
  /\ env = Unset
-----------------------------------------------------------------------------
(* Load: the file.                                                         *)

GoTo(next) == pc' = next

\* A file that is not there leaves the defaults.
OpenFile ==
  /\ pc = "open"
  /\ GoTo("read") \/ GoTo("env") \/ GoTo("failed")
  /\ UNCHANGED <<file, section, parsed, pending, settings, env>>

BadUncommented(value) == value   \* mutant: comments after a value are kept
\* Everything from " #" on is cut off, within quotes too.
Uncommented(value) == IF value = Hashed THEN "good" ELSE value

BadNextSection(line) ==   \* mutant: a top-level value leaves the section open
  IF line.depth = 0 /\ line.value = "none" THEN line.key ELSE section
NextSection(line) ==
  IF line.depth > 0 THEN section
  ELSE IF line.value = "none" THEN line.key ELSE <<>>

\* The map with another entry, or with another value for one it has.
With(map, key, value) ==
  [k \in DOMAIN map \union {key} |-> IF k = key THEN value ELSE map[k]]

ReadLine(line) ==
  /\ pc = "read" /\ Len(file) < MaxLines
  /\ file' = Append(file, line)
  /\ \/ /\ line.key = <<>>
        /\ UNCHANGED <<section, parsed>>
     \/ /\ line.key # <<>>
        /\ section' = NextSection(line)
        /\ parsed' = IF line.depth = 0 /\ line.value = "none" THEN parsed
                     ELSE With(parsed, section' \o line.key, Uncommented(line.value))
  /\ UNCHANGED <<pc, pending, settings, env>>

\* The scanner stops at a line longer than its buffer.
LineTooLong ==
  /\ pc = "read"
  /\ GoTo("failed")
  /\ UNCHANGED <<file, section, parsed, pending, settings, env>>

ReadEnds ==
  /\ pc = "read"
  /\ GoTo("apply")
  /\ pending' = DOMAIN parsed
  /\ UNCHANGED <<file, section, parsed, settings, env>>

\* An empty value is as good as none.
Relevant(key) == parsed[key] # "none" /\ key \in Keys

SkipKey(key) ==
  /\ pc = "apply" /\ key \in pending
  /\ ~Relevant(key)
  /\ pending' = pending \ {key}
  /\ UNCHANGED <<pc, file, section, parsed, settings, env>>

SetKey(key) ==
  /\ pc = "apply" /\ key \in pending
  /\ Relevant(key) /\ Parses(key, parsed[key])
  /\ pending' = pending \ {key}
  /\ settings' = [settings EXCEPT ![key] = parsed[key]]
  /\ UNCHANGED <<pc, file, section, parsed, env>>

KeyFails(key) ==
  /\ pc = "apply" /\ key \in pending
  /\ Relevant(key) /\ ~Parses(key, parsed[key])
  /\ GoTo("failed")
  /\ UNCHANGED <<file, section, parsed, pending, settings, env>>

ApplyEnds ==
  /\ pc = "apply" /\ pending = {}
  /\ GoTo("env")
  /\ UNCHANGED <<file, section, parsed, pending, settings, env>>
-----------------------------------------------------------------------------
(* Load: the environment and validate; main: the constructors.             *)

\* A variable that is empty, or no number where one is needed, is ignored.
Overrides(key, values) ==
  key \in Exported /\ values[key] # "none" /\ Parses(key, values[key])

ApplyEnv ==
  /\ pc = "env"
  /\ env' \in [Exported -> Values]
  /\ settings' = [key \in Keys |-> IF Overrides(key, env') THEN env'[key] ELSE settings[key]]
  /\ GoTo("validate")
  /\ UNCHANGED <<file, section, parsed, pending>>

Blank(key) == settings[key] \in {"none", "blank"}

BadValid ==   \* mutant: the attempts are not looked at
  /\ ~Blank(<<"api", "api_key">>) /\ ~Blank(<<"redis", "addr">>)
  /\ settings[<<"collect_interval">>] # "low"
Valid ==
  /\ ~Blank(<<"api", "api_key">>) /\ ~Blank(<<"redis", "addr">>)
  /\ settings[<<"collect_interval">>] # "low"
  /\ settings[<<"retry", "max_attempts">>] # "low"

Validate ==
  /\ pc = "validate"
  /\ GoTo(IF Valid THEN "loaded" ELSE "failed")
  /\ UNCHANGED <<file, section, parsed, pending, settings, env>>

Positive(value) == IF value = "low" THEN "default" ELSE value

\* redis.New is given no timeout and takes its default, the HTTP shipper and
\* the ring replace what is not positive.
Construct ==
  /\ pc = "loaded"
  /\ settings' = [settings EXCEPT ![<<"collect_timeout">>] = "default",
                                  ![<<"api", "timeout">>] = Positive(@),
                                  ![<<"buffer_capacity">>] = Positive(@)]
  /\ GoTo("running")
  /\ UNCHANGED <<file, section, parsed, pending, env>>

\* redis.New fails: INFO is denied (Capabilities).
RedisRefuses ==
  /\ pc = "loaded"
  /\ GoTo("failed")
  /\ UNCHANGED <<file, section, parsed, pending, settings, env>>

Next ==
  \/ OpenFile
  \/ (\E line \in Lines : ReadLine(line)) \/ LineTooLong \/ ReadEnds
  \/ \E key \in DOMAIN parsed : SkipKey(key) \/ SetKey(key) \/ KeyFails(key)
  \/ ApplyEnds \/ ApplyEnv \/ Validate
  \/ Construct \/ RedisRefuses

Spec == Init /\ [][Next]_vars
-----------------------------------------------------------------------------
TypeOK ==
  /\ pc \in {"open", "read", "apply", "env", "validate", "loaded", "running", "failed"}
  /\ file \in Seq(Lines) /\ Len(file) <= MaxLines
  /\ section \in {<<>>} \union {line.key : line \in Lines}
  /\ \A key \in DOMAIN parsed : parsed[key] \in Values \ {Hashed}
  /\ pending \subseteq DOMAIN parsed
  /\ settings \in [Keys -> Values \union {"default"}]
  /\ env \in [Exported -> Values]

(* What the file says as a YAML document of sections and scalars, line by    *)
(* line and without a memory of the lines before.                            *)
Keyed == {i \in DOMAIN file : file[i].key # <<>>}
TopLevel == {i \in Keyed : file[i].depth = 0}
Heading(i) == CHOOSE h \in TopLevel : h <= i /\ \A t \in TopLevel : t <= i => t <= h
Path(i) == IF i \in TopLevel THEN file[i].key ELSE file[Heading(i)].key \o file[i].key

\* Such a document: each indented line is one step below a line without a
\* value, keys have one part, and no quoted value contains " #".
Plain ==
  \A i \in Keyed :
    /\ Len(file[i].key) = 1
    /\ file[i].value # Hashed
    /\ file[i].depth = 1 => \E t \in TopLevel : t < i /\ file[Heading(i)].value = "none"
    /\ file[i].depth <= 1

\* The last line with a key is the one that counts.  A top-level key without a
\* value is the heading of a section, and leaves a value it had before alone.
About(key) == {i \in Keyed : Path(i) = key /\ (i \in TopLevel => file[i].value # "none")}
Says(key) ==
  IF About(key) = {} THEN "none"
  ELSE file[CHOOSE i \in About(key) : \A j \in About(key) : j <= i].value

\* "Precedence (highest to lowest)" (config/loader.go:4): the environment, then
\* the file as YAML has it, then the default; in whatever order the map is
\* visited, and never with a value in the file that could not be read.
Precedence ==
  pc = "loaded" /\ Plain =>
    \A key \in Keys :
      settings[key] = IF Overrides(key, env) THEN env[key]
                      ELSE IF Says(key) # "none" THEN Says(key) ELSE defaults[key]

\* Between them validate and the constructors let no agent run, whatever the file
\* and the environment say, with an interval, a timeout, a capacity or a number
\* of attempts that is zero, negative or no number, or without an API key or a
\* Redis address.  Nothing is said of what neither looks at: the endpoint may be
\* blank (loader.go:217), and then every request fails.
RunsUsably ==
  pc = "running" =>
    /\ \A key \in {<<"collect_interval">>, <<"collect_timeout">>, <<"api", "timeout">>,
                   <<"buffer_capacity">>, <<"retry", "max_attempts">>} :
         settings[key] \in Readable \ {"low"}
    /\ ~Blank(<<"api", "api_key">>) /\ ~Blank(<<"redis", "addr">>)
=============================================================================
