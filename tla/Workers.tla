------------------------------ MODULE Workers ------------------------------
(***************************************************************************)
(* What a modality worker of the sanitizer does with one payload           *)
(* (security/sanitizers/workers), and what the runner hands on. A worker   *)
(* runs its sub-workers in order on the same payload, each reporting a     *)
(* threat level, perhaps with a reason and a replacement payload; an       *)
(* exception of any of them ends the scan; the worst level decides. The    *)
(* threads, permits and timeouts around it are in Sanitizer. The proofs    *)
(* extend both modules, so they share no name.                             *)
(*                                                                         *)
(* A payload is its modality and the traits the workers tell apart, what   *)
(* they miss among them. How a library finds or removes a trait is left    *)
(* out.                                                                    *)
(***************************************************************************)
EXTENDS Naturals, Sequences, SequencesExt, Threat

CONSTANTS
  LibraryFaults,  \* whether a library may also raise for reasons of its own
  None            \* Python's None

\* "malformed": no parser accepts it, or it has no stream of its kind.
\* "encrypted": opens without a password; "locked": does not.
\* "oversized": more pages, pixels or seconds than allowed.
\* "undated": nothing in the container states a duration.
\* "veiled": personal data or a secret that shows only in canonical Unicode.
\* "active", "buried": actions, forms or attachments of a PDF where the walk
\* over its objects comes, and where it does not: in the dictionary of a stream,
\* below an object that raises, or behind one that shares an id.
Traits ==
  [text  |-> {"pii", "secret", "veiled pii", "veiled secret"},
   image |-> {"malformed", "oversized", "metadata"},
   pdf   |-> {"malformed", "encrypted", "locked", "oversized", "active", "buried"},
   audio |-> {"malformed", "oversized", "undated", "metadata"},
   video |-> {"malformed", "oversized", "undated", "metadata"}]

AllTraits == UNION {Traits[m] : m \in DOMAIN Traits}

\* shape: a value, a path of a file, or text that is the name of one.
\* altered: the bytes are no longer those that came in.
Payload == [modality : DOMAIN Traits, shape : {"value", "path", "name"},
            traits : SUBSET AllTraits, altered : BOOLEAN]

Raw == UNION {[modality : {m}, shape : {"value", "path"},
               traits : SUBSET Traits[m], altered : {FALSE}] : m \in DOMAIN Traits}

Without(p, traits) == [p EXCEPT !.traits = @ \ traits, !.altered = TRUE]

\* What reads p as text gets the name of a path; everything else reads the file.
Text(p) == IF p.shape = "path" THEN [p EXCEPT !.shape = "name", !.traits = {}] ELSE p

\* What a worker scans of p.
View(p) == IF p.modality = "text" THEN Text(p) ELSE p

\* stabilize_unicode: NFKC, without format characters, lifts the veil.
Veiled == [pii |-> "veiled pii", secret |-> "veiled secret"]

Stable(traits) == traits \cup {t \in DOMAIN Veiled : Veiled[t] \in traits}

\* What the normalizer will read of p: a text is stabilized only now, after it
\* was scanned.
Read(p) == IF p.modality = "text" THEN [Text(p) EXCEPT !.traits = Stable(@)] ELSE p

ASSUME WorkersAssumption == LibraryFaults \in BOOLEAN /\ None \notin Payload

Result == [threat : ThreatLevel, reason : BOOLEAN, sanitized : Payload \cup {None}]

Fine             == [threat |-> "none", reason |-> FALSE, sanitized |-> None]
Found(threat)    == [threat |-> threat, reason |-> TRUE, sanitized |-> None]
\* Replacements are bytes.
Made(threat, p)  == [threat |-> threat, reason |-> threat # "none",
                     sanitized |-> [p EXCEPT !.shape = "value"]]

VARIABLES
  raw,      \* the payload
  results,  \* what the sub-workers reported so far
  outcome,  \* "scanning", "raised", "blocked" or "passed"
  report,   \* what scan() returned to the runner
  handed    \* the payload the stage hands on

scanVars == <<raw, results, outcome, report, handed>>

---------------------------------------------------------------------------
\* The sub-workers: what each may report of payload p. The empty set is an
\* exception.

Secrets(p)  == {IF "secret" \in p.traits THEN Found("high") ELSE Fine}

Presidio(p) ==
  {IF "pii" \in p.traits THEN Made("medium", Without(p, {"pii"})) ELSE Fine}

\* Stripping that fails or times out keeps the validated original.
Image(p) ==
  IF p.traits \cap {"malformed", "oversized"} # {} THEN {}
  ELSE {Made("none", p)} \cup
       (IF "metadata" \in p.traits THEN {Made("low", Without(p, {"metadata"}))} ELSE {})

PdfStructure(p) ==
  IF "malformed" \in p.traits THEN {}
  ELSE {IF p.traits \cap {"encrypted", "locked"} # {} THEN Found("high") ELSE Fine}

PdfPages(p) ==
  IF "malformed" \in p.traits THEN {}
  ELSE {IF "oversized" \in p.traits THEN Found("high") ELSE Fine}

\* Mutant of PdfSanitize: re-saving alone is no reason to report anything.
PdfSanitizeQuietly(p) ==
  IF p.traits \cap {"malformed", "locked"} # {} THEN {}
  ELSE IF "active" \in p.traits
  THEN {Made("medium", Without(p, {"active", "encrypted"}))}
  ELSE {Made("none", Without(p, {"encrypted"}))}

\* Saved without encryption, so only what opens can be saved. What the walk
\* removes is reported; what it does not come to, or what raises, is passed
\* over in silence and stays.
PdfSanitize(p) ==
  IF p.traits \cap {"malformed", "locked"} # {} THEN {}
  ELSE IF "active" \in p.traits
  THEN {Made("medium", Without(p, {"active", "encrypted"}))}
  ELSE {Made("low", Without(p, {"encrypted"}))} \cup
       (IF "encrypted" \in p.traits THEN {} ELSE {Made("none", p)})

\* A duration nobody states is within the limit.
AudioProbe(p) ==
  IF "malformed" \in p.traits THEN {}
  ELSE {IF "oversized" \in p.traits /\ "undated" \notin p.traits
        THEN Found("high") ELSE Fine}

\* mutagen reads the tags of the formats it knows.
AudioTags(p) ==
  {Fine} \cup (IF "metadata" \in p.traits THEN {Found("low")} ELSE {})

\* A remux that fails or times out keeps the validated original.
AudioSanitize(p) == {Made("low", Without(p, {"metadata"})), Made("low", p)}

VideoProbe(p) ==
  IF "malformed" \in p.traits THEN {}
  ELSE {IF "oversized" \in p.traits /\ "undated" \notin p.traits
        THEN Found("high") ELSE Fine}

VideoTags(p) ==
  IF "malformed" \in p.traits THEN {}
  ELSE {IF "metadata" \in p.traits THEN Found("low") ELSE Fine}

VideoSanitize(p) == {Made("low", Without(p, {"metadata"})), Made("low", p)}

Scan(p) ==
  CASE p.modality = "text"  -> <<Secrets(Text(p)), Presidio(Text(p))>>
    [] p.modality = "image" -> <<Image(p)>>
    [] p.modality = "pdf"   -> <<PdfStructure(p), PdfPages(p), PdfSanitize(p)>>
    [] p.modality = "audio" -> <<AudioProbe(p), AudioTags(p), AudioSanitize(p)>>
    [] p.modality = "video" -> <<VideoProbe(p), VideoTags(p), VideoSanitize(p)>>

---------------------------------------------------------------------------
\* Merging

Rank == [none |-> 0, low |-> 1, medium |-> 2, high |-> 3, critical |-> 4]

\* Mutant of HighestThreat: the sub-worker that cleans has the last word.
LastThreat(rs) == rs[Len(rs)].threat

HighestThreat(rs) ==
  (CHOOSE r \in ToSet(rs) : \A s \in ToSet(rs) : Rank[s.threat] <= Rank[r.threat]).threat

Sanitized(rs) ==
  LET made == {i \in DOMAIN rs : rs[i].sanitized # None}
  IN IF made = {} THEN None ELSE rs[Min(made)].sanitized

Report(rs) ==
  [threat    |-> HighestThreat(rs),
   reason    |-> \E r \in ToSet(rs) : r.reason,
   sanitized |-> Sanitized(rs)]

---------------------------------------------------------------------------

ScanInit ==
  /\ raw \in Raw
  /\ results = <<>>
  /\ outcome = "scanning"
  /\ report = None
  /\ handed = None

\* The next sub-worker returns.
SubWorker ==
  /\ outcome = "scanning" /\ Len(results) < Len(Scan(raw))
  /\ \E r \in Scan(raw)[Len(results) + 1] : results' = Append(results, r)
  /\ UNCHANGED <<raw, outcome, report, handed>>

\* The runner finds the exception among the gathered results.
Raises ==
  /\ outcome = "scanning" /\ Len(results) < Len(Scan(raw))
  /\ LibraryFaults \/ Scan(raw)[Len(results) + 1] = {}
  /\ outcome' = "raised"
  /\ UNCHANGED <<raw, results, report, handed>>

\* The runner takes the report: block, or hand on the replacement if any.
Merge ==
  LET r == Report(results)
  IN /\ outcome = "scanning" /\ Len(results) = Len(Scan(raw))
     /\ report' = r
     /\ IF ShouldBlock(r.threat)
        THEN outcome' = "blocked" /\ UNCHANGED handed
        ELSE outcome' = "passed" /\ handed' = IF r.sanitized = None THEN raw ELSE r.sanitized
     /\ UNCHANGED <<raw, results>>

ScanNext == SubWorker \/ Raises \/ Merge

ScanSpec == ScanInit /\ [][ScanNext]_scanVars

---------------------------------------------------------------------------
\* Properties

\* What the scan can find does not pass. Whatever order the sub-workers report
\* in and whichever of them replaces the payload, what the stage hands on is,
\* as a worker sees it, well formed, within its limits as far as they can be
\* known, without secrets, personal data, reachable active content or a lock;
\* and the personal data and secrets that show in a text once the normalizer
\* has stabilized it are those that were veiled in what came in
\* (workers/*.py, runner.py:109-150, core/normalizer/utils.py:38-50).
PassedIsClean ==
  outcome = "passed" =>
    /\ View(handed).traits \cap {"malformed", "encrypted", "locked", "secret", "pii", "active"} = {}
    /\ "oversized" \in View(handed).traits => "undated" \in View(handed).traits
    /\ raw.modality = "text" =>
         \A t \in Read(handed).traits \cap {"pii", "secret"} : Veiled[t] \in raw.traits

\* The user's bytes are never changed or refused without a reason in the
\* report the context keeps (runner.py:132-150).
Explained ==
  /\ outcome = "blocked" => report.reason
  /\ outcome = "passed" /\ handed.altered => report.reason /\ report.threat # "none"

---------------------------------------------------------------------------
\* Claims of the documentation, checked on their own

\* workers/pdf.py:90: "Encrypted PDFs are blocked because this sanitizer cannot
\* inspect or clean their contents without a password". One that needs a
\* password is found so by the first sub-worker; the last one raises on it.
EncryptedIsBlocked ==
  raw.traits \cap {"encrypted", "locked"} # {} /\ "malformed" \notin raw.traits
    => outcome # "raised"

\* foundation/coercion.py:5-7: one place "decides how each shape becomes bytes",
\* "instead of being re-implemented per worker", and reads a path from disk.
\* The text worker and the normalizer's payload_to_text take its name instead.
FilesAreRead == outcome = "passed" => Read(handed).shape # "name"

\* core/normalizer/utils.py:23-25: texts are put in canonical form "so
\* deterministic downstream scans (verifier injection rules, secret/PII patterns)
\* see one canonical representation". The scan for secrets and personal data is
\* upstream of it.
CanonicalIsScanned == outcome = "passed" => Read(handed).traits \cap {"pii", "secret"} = {}

\* workers/pdf.py:197: "Dangerous action/form/attachment keys are stripped before
\* saving". Those the walk does not come to are saved, and nothing says so.
ActiveIsStripped == outcome = "passed" => handed.traits \cap {"active", "buried"} = {}
============================================================================
