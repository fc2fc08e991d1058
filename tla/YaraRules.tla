----------------------------- MODULE YaraRules -----------------------------
(***************************************************************************)
(* The compiled-rules cache of YaraScanner (pre_sanitization.py), shared   *)
(* by the scans of all turns, each in a thread of its own, while rule      *)
(* files are edited, added and removed under it. A scan lists the rule     *)
(* files, reads their modification times one by one without the lock, and  *)
(* under the lock takes the cached rules of that very signature or         *)
(* compiles the listed files, reading them one by one.                     *)
(*                                                                         *)
(* A file's content is the number of the edit that wrote it, which stands  *)
(* for its modification time too: two edits never share one. Listing the   *)
(* directory is one step. What rules match is left out.                    *)
(***************************************************************************)
EXTENDS Naturals

CONSTANTS
  Scans,     \* threads that scan, again and again
  Files,     \* paths of rule files
  MaxEdits   \* bound on the edits of the directory

ASSUME YaraAssumption == MaxEdits \in Nat \ {0} /\ "nobody" \notin Scans

VARIABLES
  disk,       \* per path, the edit its content is of; 0 when there is no file
  edits,      \* number of edits so far
  compiled,   \* the cache: rules, and the signature they are kept under
  lock,       \* the scan that holds _compile_lock
  scan,       \* per scan, where it stands
  listed,     \* per scan, the rule files it found
  signature,  \* per scan, the modification times it read
  rules,      \* per scan, what it compiled or took from the cache
  began       \* history: the directory when the scan began

vars == <<disk, edits, compiled, lock, scan, listed, signature, rules, began>>

Versions == 0 .. MaxEdits

\* Rules are per path the edit they were compiled from, 0 where the path is
\* not among them.
Blank  == [f \in Files |-> 0]
Absent == [rules |-> Blank, signature |-> Blank]

---------------------------------------------------------------------------
\* The directory

Edit(f) ==
  /\ edits < MaxEdits
  /\ edits' = edits + 1
  /\ \/ disk' = [disk EXCEPT ![f] = edits + 1]
     \/ disk[f] # 0 /\ disk' = [disk EXCEPT ![f] = 0]
  /\ UNCHANGED <<compiled, lock, scan, listed, signature, rules, began>>

---------------------------------------------------------------------------
\* _scan_sync

\* Without rule files a scan is skipped, or fails where rules are required.
List(s) ==
  /\ scan[s] = "idle"
  /\ listed' = [listed EXCEPT ![s] = {f \in Files : disk[f] # 0}]
  /\ scan' = [scan EXCEPT ![s] = IF disk = Blank THEN "ended" ELSE "stat"]
  /\ signature' = [signature EXCEPT ![s] = Blank]
  /\ rules' = [rules EXCEPT ![s] = Blank]
  /\ began' = [began EXCEPT ![s] = disk]
  /\ UNCHANGED <<disk, edits, compiled, lock>>

\* A file that is gone fails the scan.
Stat(s) ==
  /\ scan[s] = "stat"
  /\ \E f \in listed[s] :
       /\ signature[s][f] = 0
       /\ signature' = [signature EXCEPT ![s][f] = disk[f]]
       /\ scan' = [scan EXCEPT ![s] = IF disk[f] = 0 THEN "ended" ELSE "stat"]
  /\ UNCHANGED <<disk, edits, compiled, lock, listed, rules, began>>

Signed(s) == \A f \in listed[s] : signature[s][f] # 0

Free == lock = "nobody"

Acquire(s) ==
  /\ scan[s] = "stat" /\ Signed(s)
  /\ Free /\ lock' = s
  /\ scan' = [scan EXCEPT ![s] = "locked"]
  /\ UNCHANGED <<disk, edits, compiled, listed, signature, rules, began>>

Cached(s) == compiled.rules # Blank /\ compiled.signature = signature[s]

TakeCached(s) ==
  /\ scan[s] = "locked" /\ Cached(s)
  /\ rules' = [rules EXCEPT ![s] = compiled.rules]
  /\ scan' = [scan EXCEPT ![s] = "match"]
  /\ lock' = "nobody"
  /\ UNCHANGED <<disk, edits, compiled, listed, signature, began>>

\* yara.compile reads the next file.
CompileFile(s) ==
  /\ scan[s] = "locked" /\ ~Cached(s)
  /\ \E f \in listed[s] :
       /\ rules[s][f] = 0 /\ disk[f] # 0
       /\ rules' = [rules EXCEPT ![s][f] = disk[f]]
  /\ UNCHANGED <<disk, edits, compiled, lock, scan, listed, signature, began>>

\* The cache gets the rules, then their signature.
KeepRules(s) ==
  /\ scan[s] = "locked" /\ ~Cached(s)
  /\ \A f \in listed[s] : rules[s][f] # 0
  /\ compiled' = [compiled EXCEPT !.rules = rules[s]]
  /\ scan' = [scan EXCEPT ![s] = "kept"]
  /\ UNCHANGED <<disk, edits, lock, listed, signature, rules, began>>

\* Mutant of Kept: the modification times are read again after compiling.
KeptLate(s) == [f \in Files |-> IF f \in listed[s] THEN disk[f] ELSE 0]

Kept(s) == signature[s]

KeepSignature(s) ==
  /\ scan[s] = "kept"
  /\ compiled' = [compiled EXCEPT !.signature = Kept(s)]
  /\ scan' = [scan EXCEPT ![s] = "match"]
  /\ lock' = "nobody"
  /\ UNCHANGED <<disk, edits, listed, signature, rules, began>>

\* Mutant of CompileFails: the compilation is tried again, holding the lock.
CompileRetries(s) ==
  /\ scan[s] = "locked" /\ ~Cached(s)
  /\ rules' = [rules EXCEPT ![s] = Blank]
  /\ UNCHANGED <<disk, edits, compiled, lock, scan, listed, signature, began>>

\* Invalid rules, or a file that is gone: the scan fails, the cache stays.
CompileFails(s) ==
  /\ scan[s] = "locked" /\ ~Cached(s)
  /\ scan' = [scan EXCEPT ![s] = "ended"]
  /\ lock' = "nobody"
  /\ UNCHANGED <<disk, edits, compiled, listed, signature, rules, began>>

\* rules.match, outside the lock, returns or raises.
Match(s) ==
  /\ scan[s] = "match"
  /\ scan' = [scan EXCEPT ![s] = "ended"]
  /\ UNCHANGED <<disk, edits, compiled, lock, listed, signature, rules, began>>

\* The thread scans the payload of another turn.
Again(s) ==
  /\ scan[s] = "ended"
  /\ scan' = [scan EXCEPT ![s] = "idle"]
  /\ UNCHANGED <<disk, edits, compiled, lock, listed, signature, rules, began>>

---------------------------------------------------------------------------

\* The program starts with an empty cache, on whatever the directory holds.
Init ==
  /\ disk \in [Files -> {0, 1}] /\ edits = 1
  /\ compiled = Absent
  /\ lock = "nobody"
  /\ scan = [s \in Scans |-> "idle"]
  /\ listed = [s \in Scans |-> {}]
  /\ signature = [s \in Scans |-> Blank]
  /\ rules = [s \in Scans |-> Blank]
  /\ began = [s \in Scans |-> Blank]

Work(s) ==
  \/ Stat(s) \/ Acquire(s) \/ TakeCached(s) \/ CompileFile(s) \/ KeepRules(s)
  \/ KeepSignature(s) \/ CompileFails(s) \/ Match(s)

Next ==
  \/ \E f \in Files : Edit(f)
  \/ \E s \in Scans : List(s) \/ Work(s) \/ Again(s)

\* A thread that has begun to scan goes on.
Spec == Init /\ [][Next]_vars /\ \A s \in Scans : WF_vars(Work(s))

---------------------------------------------------------------------------
\* Correctness

RulesOf == [Files -> Versions]

TypeOK ==
  /\ disk \in RulesOf /\ edits \in Versions
  /\ compiled \in [rules : RulesOf, signature : RulesOf]
  /\ lock \in Scans \cup {"nobody"}
  /\ scan \in [Scans -> {"idle", "stat", "locked", "kept", "match", "ended"}]
  /\ listed \in [Scans -> SUBSET Files]
  /\ signature \in [Scans -> RulesOf]
  /\ rules \in [Scans -> RulesOf]
  /\ began \in [Scans -> RulesOf]
  /\ \A s \in Scans : scan[s] \in {"locked", "kept"} <=> lock = s

RulesFresh ==
  \A s \in Scans : scan[s] = "match" =>
    \A f \in Files :
      /\ rules[s][f] >= began[s][f]
      /\ began[s][f] = 0 => rules[s][f] = 0

\* A payload is matched against rules no older than the directory was when its
\* scan began: every file that was there, as it was then or newer, and none
\* that was not, whatever other threads compiled, and kept, in the meantime;
\* and only the holder of the lock is where it is held.
RulesInv == TypeOK /\ RulesFresh

\* No scan keeps the compile lock, so no other waits for ever to look.
LockReleased == \A s \in Scans : lock = s ~> lock # s
============================================================================
