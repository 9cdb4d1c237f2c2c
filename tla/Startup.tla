------------------------------- MODULE Startup -------------------------------
(***************************************************************************)
(* From the command line to a running process: the settings come from the  *)
(* defaults, a file, environment variables and flags, in this order, are   *)
(* validated for the mode, and server.New or client.New use them.          *)
(*                                                                         *)
(* Of each setting only what the code tells apart is kept.  Each step      *)
(* chooses what it finds (a file, variables, flags) when it looks.         *)
(***************************************************************************)
EXTENDS Naturals, FiniteSets, FiniteSetsExt

CONSTANT MaxSet    \* bound: values found in file, environment and flags together

Settings == {"key", "max", "level", "log", "addr"}

Values(s) ==
  CASE s = "key"   -> {"empty", "short", "long"}
    [] s = "max"   -> {"negative", "zero", "positive"}
    [] s = "level" -> {"inRange", "outOfRange"}
    [] s = "log"   -> {"unknown", "known"}
    [] s = "addr"  -> {"empty", "malformed", "given"}

Modes == {"server", "client"}

VARIABLES
  stage, mode,
  found,     \* what each source holds, as <<setting, value>> pairs
  path,      \* where the name of a configuration file came from
  file,      \* that file: "none" was named, or it is "good", "missing" or
             \* "broken" (unreadable, or with a value of the wrong type)
  cfg        \* *config.Config, for the mode

vars == <<stage, mode, found, path, file, cfg>>

Stages == {"new", "read", "fallback", "noConfig", "loaded", "flagged",
           "rejected", "valid", "failed", "running", "panicked"}

Sources == {"file", "env", "flag"}

TypeOK ==
  /\ stage \in Stages /\ mode \in Modes
  /\ \A s \in Settings : cfg[s] \in Values(s)
  /\ \A o \in Sources : \A f \in found[o] : f[1] \in Settings /\ f[2] \in Values(f[1]) \cup {"garbage"}
  /\ path \in {"none", "flag", "env"}
  /\ file \in {"none", "good", "missing", "broken"}

DefaultConfig ==
  [s \in Settings |-> CASE s = "key" -> "empty" [] s = "max" -> "positive"
                        [] s = "level" -> "inRange" [] s = "log" -> "known"
                        [] s = "addr" -> "given"]

Init ==
  /\ stage = "new" /\ mode = "server"
  /\ found = [o \in Sources |-> {}]
  /\ path = "none" /\ file = "none"
  /\ cfg = DefaultConfig

AllValues == UNION {{s} \X Values(s) : s \in Settings}

(* A source holds at most one value per setting, within the bound.         *)
Finds(o, mayHold) ==
  \E n \in 0 .. (MaxSet - Cardinality(found["file"]) - Cardinality(found["env"])) :
    \E f \in kSubset(n, mayHold) :
      /\ \A v, w \in f : v[1] = w[1] => v = w
      /\ found' = [found EXCEPT ![o] = f]

(* Mutant: a number that does not parse is not ignored.                     *)
OverrideUnparsed(c, f) ==
  [s \in Settings |-> IF \E v \in f : v[1] = s THEN (CHOOSE v \in f : v[1] = s)[2] ELSE c[s]]

(* The settings in c with those that f holds a usable value for replaced.  *)
Override(c, f) ==
  [s \in Settings |-> IF \E v \in Values(s) : <<s, v>> \in f
                       THEN CHOOSE v \in Values(s) : <<s, v>> \in f
                       ELSE c[s]]

(* Load: -c, or else LLAMA_PROXY_CONFIG, names a file.  A missing or       *)
(* broken one is an error.                                                 *)
Load ==
  /\ stage = "new"
  /\ mode' \in Modes
  /\ \/ /\ path' = "none" /\ file' = "none" /\ stage' = "read"
        /\ UNCHANGED <<found, cfg>>
     \/ /\ path' \in {"flag", "env"} /\ file' = "good" /\ stage' = "read"
        /\ Finds("file", AllValues)
        /\ cfg' = Override(cfg, found'["file"])
     \/ /\ path' \in {"flag", "env"} /\ file' \in {"missing", "broken"}
        /\ stage' = "fallback"
        /\ UNCHANGED <<found, cfg>>

(* loadFromEnv: empty variables count as unset, numbers that do not parse  *)
(* are ignored, and for the client no variable sets the two numbers.       *)
EnvMayHold ==
  LET numbers == {"max", "level"} IN
    {f \in AllValues : f[2] # "empty" /\ (f[1] \in numbers => mode = "server")}
      \cup {f \in numbers \X {"garbage"} : mode = "server"}

LoadFromEnv ==
  /\ stage = "read"
  /\ Finds("env", EnvMayHold)
  /\ cfg' = Override(cfg, found'["env"])
  /\ stage' = "loaded"
  /\ UNCHANGED <<mode, path, file>>

(* loadConfig: the defaults are used when -c named no file, and what the   *)
(* environment holds is not looked at.  os.IsNotExist does not look into   *)
(* the error Load has wrapped, so a file named by -c that does not exist   *)
(* is an error like any other.                                             *)
FallBack ==
  /\ stage = "fallback"
  /\ \/ /\ path = "env" /\ stage' = "loaded"
        /\ Finds("env", EnvMayHold)
        /\ cfg' = DefaultConfig
     \/ /\ path = "flag" /\ stage' = "noConfig"
        /\ UNCHANGED <<found, cfg>>
  /\ UNCHANGED <<mode, path, file>>

FlagMayHold == {f \in AllValues : f[1] # "log"}

(* Mutant: the flags are applied to the defaults, and the rest over them.  *)
WeakFlags ==
  /\ stage = "loaded"
  /\ Finds("flag", FlagMayHold)
  /\ cfg' = Override(Override(cfg, found'["flag"]), found'["env"])
  /\ stage' = "flagged"
  /\ UNCHANGED <<mode, path, file>>

ApplyFlags ==
  /\ stage = "loaded"
  /\ Finds("flag", FlagMayHold)
  /\ cfg' = Override(cfg, found'["flag"])
  /\ stage' = "flagged"
  /\ UNCHANGED <<mode, path, file>>

(* Mutant: the client is validated like the server.                        *)
ValidAsServer == cfg["key"] = "long" /\ cfg["level"] = "inRange" /\ cfg["log"] = "known"

(* ValidateServer, ValidateClient: the number of concurrent requests is    *)
(* not looked at.                                                          *)
Valid ==
  /\ cfg["key"] = "long" /\ cfg["level"] = "inRange" /\ cfg["log"] = "known"
  /\ mode = "client" => cfg["addr"] # "empty"

Validate ==
  /\ stage = "flagged"
  /\ stage' = IF Valid THEN "valid" ELSE "rejected"
  /\ UNCHANGED <<mode, found, path, file, cfg>>

(* client.New parses the server's URL.  make(chan struct{}, n) panics for  *)
(* a negative n: in server.New, or in messageProcessor as soon as the      *)
(* client is started.                                                      *)
Run ==
  /\ stage = "valid"
  /\ stage' = IF mode = "client" /\ cfg["addr"] = "malformed" THEN "failed"
              ELSE IF cfg["max"] = "negative" THEN "panicked" ELSE "running"
  /\ UNCHANGED <<mode, found, path, file, cfg>>

Next ==
  \/ Load \/ LoadFromEnv \/ FallBack \/ ApplyFlags \/ Validate \/ Run
  \/ stage \in {"noConfig", "rejected", "failed", "running", "panicked"} /\ UNCHANGED vars

Spec == Init /\ [][Next]_vars

-----------------------------------------------------------------------------
(* Properties                                                              *)

Loaded == stage \in {"flagged", "rejected", "valid", "running", "panicked"}

(* Each setting has the value of the last of default, file, environment    *)
(* and flag that holds a usable one.                                       *)
LastWins ==
  LET order == <<"flag", "env", "file">>
      sets(o, s) == \E v \in Values(s) : <<s, v>> \in found[o]
  IN \A s \in Settings :
       IF \E i \in DOMAIN order : sets(order[i], s)
         THEN \E i \in DOMAIN order :
                /\ <<s, cfg[s]>> \in found[order[i]]
                /\ \A j \in 1 .. (i - 1) : ~sets(order[j], s)
         ELSE cfg[s] = DefaultConfig[s]

(* The last source wins in a process that needs no file, or has read it,   *)
(* although some values are empty, garbage or looked at for one mode only. *)
Precedence == Loaded /\ file \in {"none", "good"} => LastWins

(* main.go:283: when the configuration file does not exist, the defaults   *)
(* are used: the process goes on, and by README.md:255 the environment     *)
(* still overrides every setting.                                          *)
MissingFileIgnored ==
  file = "missing" => stage # "noConfig" /\ (Loaded => LastWins)

(* A process that runs has a key of at least 16 characters and, as far as  *)
(* the models of the two processes assume it (their CapacityAssumption), a *)
(* number of slots; one that came this far with a negative number has      *)
(* panicked, and zero is accepted (config.go:177).                         *)
RunsAsAssumed ==
  /\ stage = "running" => /\ cfg["key"] = "long" /\ cfg["level"] = "inRange"
                          /\ cfg["max"] # "negative"
                          /\ mode = "client" => cfg["addr"] = "given"
  /\ stage = "panicked" => cfg["max"] = "negative"

=============================================================================
