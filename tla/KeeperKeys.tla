----------------------------- MODULE KeeperKeys -----------------------------
(***************************************************************************)
(* The keeper process, its environment and its key file.  The N key pairs  *)
(* are read from the file when the process starts, or drawn and written to *)
(* it when there is none.  Pages encrypt to public keys of a generation;   *)
(* only the private keys of that generation decrypt.                       *)
(***************************************************************************)
EXTENDS Integers

CONSTANTS
  Settings,       \* THRESHOLD_N and THRESHOLD_K of the deployments considered
  MaxGenerations, \* bound on the generations of keys drawn
  MaxCrashes,     \* bound on the crashes of the process
  NoFile, TornFile

KeyFiles == [gen : 1..MaxGenerations, n : {s.n : s \in Settings}]

ASSUME KeysAssumption ==
  /\ \A s \in Settings : s.n \in Nat \ {0} /\ s.k \in 1..s.n
  /\ MaxGenerations \in Nat /\ MaxCrashes \in Nat
  /\ NoFile \notin KeyFiles /\ TornFile \notin KeyFiles /\ NoFile # TornFile

VARIABLES
  process,     \* "down", "writing" the key file, or "up" and listening
  setting,     \* the environment variables of the last start
  keyFile,     \* THRESHOLD_KEYS_FILE: the generation and number of its keys
  keys,        \* _keys: the generation in memory
  generations, \* generations drawn so far
  crashes

keyVars == <<process, setting, keyFile, keys, generations, crashes>>

KeysTypeOK ==
  /\ process \in {"down", "writing", "up"} /\ setting \in Settings
  /\ keyFile \in KeyFiles \cup {NoFile, TornFile}
  /\ keys \in 0..MaxGenerations /\ generations \in 0..MaxGenerations
  /\ crashes \in 0..MaxCrashes

KeysInit ==
  /\ process = "down" /\ setting \in Settings /\ keyFile = NoFile
  /\ keys = 0 /\ generations = 0 /\ crashes = 0

\* The file is there and has THRESHOLD_N keys: otherwise the start fails.
LoadKeys(s) ==
  /\ process = "down"
  /\ keyFile \in KeyFiles /\ keyFile.n = s.n
  /\ setting' = s /\ keys' = keyFile.gen /\ process' = "up"
  /\ UNCHANGED <<keyFile, generations, crashes>>

\* Variant with a fault: keys of the wrong number are replaced.
DrawKeysAnyway(s) ==
  /\ process = "down" /\ generations < MaxGenerations
  /\ keyFile = NoFile \/ (keyFile \in KeyFiles /\ keyFile.n # s.n)
  /\ setting' = s /\ generations' = generations + 1 /\ keys' = generations + 1
  /\ keyFile' = TornFile /\ process' = "writing"
  /\ UNCHANGED crashes

\* There is no file: fresh keys are drawn and the file is opened.
DrawKeys(s) ==
  /\ process = "down" /\ generations < MaxGenerations
  /\ keyFile = NoFile
  /\ setting' = s /\ generations' = generations + 1 /\ keys' = generations + 1
  /\ keyFile' = TornFile /\ process' = "writing"
  /\ UNCHANGED crashes

\* The file is written; only then does the server listen.
WriteKeys ==
  /\ process = "writing"
  /\ keyFile' = [gen |-> keys, n |-> setting.n]
  /\ process' = "up"
  /\ UNCHANGED <<setting, keys, generations, crashes>>

\* The process ends between any two of its steps.
Stop == /\ process # "down" /\ crashes < MaxCrashes
        /\ process' = "down" /\ keys' = 0 /\ crashes' = crashes + 1
        /\ UNCHANGED <<setting, keyFile, generations>>

\* What the error about the number of keys asks the operator to do.
DeleteKeyFile == /\ process = "down" /\ keyFile # NoFile
                 /\ keyFile' = NoFile
                 /\ UNCHANGED <<process, setting, keys, generations, crashes>>
=============================================================================
