----------------------------- MODULE Enrichment -----------------------------
(***************************************************************************)
(* Package vulnscan and the parts of package report that show its result.  *)
(* Run hands the written SBOM to Grype and correlates each match with a    *)
(* component through its BOM reference, which BomRef assigns.  The reports *)
(* then join matches, coverage and components again, each in its own way,  *)
(* two of them while they iterate over a map, that is in any order.        *)
(*                                                                         *)
(* A match is a vulnerability and a severity.                              *)
(* Grype knows a component under the name and version the SBOM gives it,   *)
(* so the package of a reference is that of its component.                 *)
(***************************************************************************)
EXTENDS BomRef, Integers, Sequences, FiniteSets

CONSTANTS
  Component,      \* what the joins read of a component: [package: its name
                  \*   and version, purl, cpe: the field is set, indexed: it
                  \*   is in the index of OccurrenceIndex]
  NotListed,      \* the key of the root, or of a component that was dropped
  Vulnerability,  \* the identifiers, numbers as they are sorted
  Severity,       \* the severities, in lower case and never empty
  MaxMatches      \* a bound on the matches that Grype finds

ASSUME EnrichmentAssumption ==
  /\ IsFiniteSet(Key)
  /\ NotListed \notin Component
  /\ Vulnerability \subseteq Nat
  /\ MaxMatches \in Nat

VARIABLES
  pc,         \* "assign", "run", "match", "render" or "done"
  comp,       \* the component of each key in the BOM
  read,       \* the matches of Grype's output read so far
  state,      \* Result.State
  matches,    \* Result.MatchesByBOMRef
  coverage,   \* Result.CoverageByBOMRef
  errors,     \* Result.Errors: the codes
  pending,    \* the references a report has not come to yet
  rows,       \* the table of the Markdown summary
  rules       \* the rules of the SARIF report

resultVars == <<state, matches, coverage, errors>>
reportVars == <<pending, rows, rules>>
vars == <<pc, refVars, comp, read, resultVars, reportVars>>

Listed == {k \in Key : comp[k] # NotListed}

(***************************************************************************)
(* collectBOMRefs and findBOMComponentByRef.                               *)
(***************************************************************************)
BOMRefs == {byKey[k] : k \in Listed}

KeyOf(ref) == CHOOSE k \in Listed : byKey[k] = ref

Init ==
  /\ pc = "assign"
  /\ RefInit
  /\ comp \in [Key -> Component \cup {NotListed}]
  /\ Listed \subseteq wanted
  /\ read = <<>>
  /\ state = ""
  /\ matches = [r \in Ref |-> <<>>]
  /\ coverage = [r \in Ref |-> "absent"]
  /\ errors = {}
  /\ pending = {}
  /\ rows = {}
  /\ rules = <<>>

(***************************************************************************)
(* Assemble: the references are assigned before anything is looked up.     *)
(***************************************************************************)
AssignRef ==
  /\ pc = "assign"
  /\ Preallocate
  /\ UNCHANGED <<pc, comp, read, resultVars, reportVars>>

Assembled ==
  /\ pc = "assign"
  /\ Unassigned = {}
  /\ pc' = "run"
  /\ UNCHANGED <<refVars, comp, read, resultVars, reportVars>>

-----------------------------------------------------------------------------
(***************************************************************************)
(* vulnscan.Run.                                                           *)
(***************************************************************************)
NotRequested ==
  /\ pc = "run"
  /\ state' = "not-requested"
  /\ pc' = "render"
  /\ UNCHANGED <<refVars, comp, read, matches, coverage, errors, reportVars>>

(***************************************************************************)
(* There is no SBOM, or Grype is not found, fails, or prints no JSON.      *)
(***************************************************************************)
Unavailable(code) ==
  /\ pc = "run"
  /\ state' = "unavailable"
  /\ errors' = {code}
  /\ coverage' =
       [r \in Ref |-> IF r \in BOMRefs THEN "not-assessable" ELSE "absent"]
  /\ pc' = "render"
  /\ UNCHANGED <<refVars, comp, read, matches, reportVars>>

Matched ==
  /\ pc = "run"
  /\ pc' = "match"
  /\ UNCHANGED <<refVars, comp, read, resultVars, reportVars>>

\* Mutant of Issues: a reference that is not in the BOM goes unnoticed.
IssuesMissingOnly(ref) == IF ref = NoRef THEN {"match-missing-artifact-id"} ELSE {}

(***************************************************************************)
(* What one match adds to the errors.  An unknown reference is only        *)
(* noticed if the BOM has components at all.                               *)
(***************************************************************************)
Issues(ref) ==
  IF ref = NoRef THEN {"match-missing-artifact-id"}
  ELSE IF BOMRefs # {} /\ ref \notin BOMRefs THEN {"unknown-bom-ref"} ELSE {}

(***************************************************************************)
(* A match without an artifact is skipped; one for an unknown reference is *)
(* kept.                                                                   *)
(***************************************************************************)
ReadMatch(ref, id, severity) ==
  /\ pc = "match"
  /\ Len(read) < MaxMatches
  /\ read' = Append(read, [ref |-> ref, id |-> id, severity |-> severity])
  /\ errors' = errors \cup Issues(ref)
  /\ matches' =
       [r \in Ref |-> IF r = ref
                      THEN Append(matches[r], [id |-> id, severity |-> severity])
                      ELSE matches[r]]
  /\ UNCHANGED <<pc, refVars, comp, state, coverage, reportVars>>

Ranks == [critical |-> 0, high |-> 1, medium |-> 2, low |-> 3, negligible |-> 4]

severityRank(s) == IF s \in DOMAIN Ranks THEN Ranks[s] ELSE 5

\* Mutant of Before: the identifier decides, as in buildSARIFResults.
BeforeById(m, n) == m.id < n.id

Before(m, n) ==
  \/ severityRank(m.severity) < severityRank(n.severity)
  \/ severityRank(m.severity) = severityRank(n.severity) /\ m.id < n.id

(***************************************************************************)
(* What sort.Slice can leave of s: it is free to swap equal matches.       *)
(***************************************************************************)
Sorted(s) ==
  {[i \in DOMAIN s |-> s[p[i]]] :
     p \in {p \in [DOMAIN s -> DOMAIN s] :
              /\ \A i \in DOMAIN s : \E j \in DOMAIN s : p[j] = i
              /\ \A i, j \in DOMAIN s : i < j => ~Before(s[p[j]], s[p[i]])}}

IsAssessable(k) == comp[k].purl \/ comp[k].cpe

(***************************************************************************)
(* applyCoverage.                                                          *)
(***************************************************************************)
Coverage(ref) ==
  IF ref \notin BOMRefs THEN "absent"
  ELSE IF matches[ref] # <<>> THEN "found"
  ELSE IF IsAssessable(KeyOf(ref)) THEN "none" ELSE "not-assessable"

Correlated ==
  /\ pc = "match"
  /\ matches' \in [Ref -> UNION {Sorted(matches[r]) : r \in Ref}]
  /\ \A r \in Ref : matches'[r] \in Sorted(matches[r])
  /\ coverage' = [r \in Ref |-> Coverage(r)]
  /\ state' = IF errors = {} THEN "completed" ELSE "completed-with-errors"
  /\ pending' = {r \in Ref : matches[r] # <<>>}
  /\ pc' = "render"
  /\ UNCHANGED <<refVars, comp, read, errors, rows, rules>>

-----------------------------------------------------------------------------
(***************************************************************************)
(* The reports.  Package is the name and version a row or group shows.     *)
(***************************************************************************)
Package(ref) == IF ref \in BOMRefs THEN comp[KeyOf(ref)].package ELSE ref

Indexed(ref) == ref \in BOMRefs /\ comp[KeyOf(ref)].indexed

\* Mutant of RowKey: packages are not told apart.
RowKeyById(row) == <<row.id, row.severity>>

\* Mutant of RowKey: the reference is part of the key.
RowKeyByRef(row) == <<row.ref, row.package, row.id, row.severity>>

(***************************************************************************)
(* The key that buildVulnerabilitySummaryRows has seen or not.  The fixed  *)
(* versions, which the key has too, are part of the vulnerability here.    *)
(***************************************************************************)
RowKey(row) == <<row.package, row.id, row.severity>>

(***************************************************************************)
(* The row of each match of a reference; where it comes from tells rows    *)
(* with one key apart.                                                     *)
(***************************************************************************)
RowsOf(ref) ==
  {[ref |-> ref, at |-> i, package |-> Package(ref), id |-> matches[ref][i].id,
    severity |-> matches[ref][i].severity] : i \in DOMAIN matches[ref]}

FirstRows(ref) ==
  {row \in RowsOf(ref) :
     \A earlier \in RowsOf(ref) : earlier.at < row.at => RowKey(earlier) # RowKey(row)}

(***************************************************************************)
(* buildSARIFRules keeps the severity it meets first.                      *)
(***************************************************************************)
RulesOf(ref) ==
  [id \in {matches[ref][i].id : i \in DOMAIN matches[ref]} |->
     LET first == CHOOSE i \in DOMAIN matches[ref] :
                    /\ matches[ref][i].id = id
                    /\ \A j \in 1..(i - 1) : matches[ref][j].id # id
     IN  matches[ref][first].severity]

FirstMet(met, new) ==
  [id \in DOMAIN met \cup DOMAIN new |->
     IF id \in DOMAIN met THEN met[id] ELSE new[id]]

(***************************************************************************)
(* One turn of the loops over MatchesByBOMRef.  A run writes one of the    *)
(* two reports, or the two loops take orders of their own.                 *)
(***************************************************************************)
RenderRef(ref) ==
  /\ pc = "render"
  /\ ref \in pending
  /\ pending' = pending \ {ref}
  /\ rows' = rows \cup {row \in FirstRows(ref) :
                            \A old \in rows : RowKey(old) # RowKey(row)}
  /\ rules' = FirstMet(rules, RulesOf(ref))
  /\ UNCHANGED <<pc, refVars, comp, read, resultVars>>

Rendered ==
  /\ pc = "render"
  /\ pending = {}
  /\ pc' = "done"
  /\ UNCHANGED <<refVars, comp, read, resultVars, reportVars>>

\* Mutant of Verdict: the state is looked at too late.
VerdictStateLast(ref) ==
  IF state = "not-requested" THEN "nothing"
  ELSE IF matches[ref] # <<>> THEN "found"
  ELSE IF IsAssessable(KeyOf(ref)) THEN "none"
  ELSE "not-assessable"

(***************************************************************************)
(* occurrenceVulnerabilityLines: what the index says of an occurrence.     *)
(***************************************************************************)
Verdict(ref) ==
  IF state = "not-requested" THEN "nothing"
  ELSE IF matches[ref] # <<>> THEN "found"
  ELSE IF state \in {"unavailable", "completed-with-errors"} THEN "not-assessable"
  ELSE IF IsAssessable(KeyOf(ref)) THEN "none"
  ELSE "not-assessable"

Lines(ref) == [verdict |-> Verdict(ref), matches |-> matches[ref]]

GroupOf(ref) == {r \in BOMRefs : Indexed(r) /\ Package(r) = Package(ref)}

(***************************************************************************)
(* resolvePackageVulnerabilityBlocks: lines that are the same for all the  *)
(* occurrences of a package are written once, below the package.           *)
(***************************************************************************)
Shared(group) == {Lines(r) : r \in group}

\* Mutant of Block: the lines of one occurrence stand for all of them.
BlockOfOne(ref) == CHOOSE lines \in Shared(GroupOf(ref)) : TRUE

Block(ref) ==
  IF Cardinality(Shared(GroupOf(ref))) = 1
  THEN CHOOSE lines \in Shared(GroupOf(ref)) : TRUE ELSE Lines(ref)

(***************************************************************************)
(* collectHTMLVulns: the first match of each reference and identifier.     *)
(***************************************************************************)
HTMLRows ==
  UNION {{[ref |-> r, id |-> id, severity |-> RulesOf(r)[id]] :
            id \in DOMAIN RulesOf(r)} : r \in Ref}

HTMLState ==
  IF state \in {"not-requested", "unavailable"} THEN state ELSE "assessed"

(***************************************************************************)
(* buildSARIFResults, as the number of equal results, and the flag of      *)
(* buildSARIFEnrichment.                                                   *)
(***************************************************************************)
SARIFResults(ref, m) == Cardinality({i \in DOMAIN matches[ref] : matches[ref][i] = m})

ExecutionSuccessful == state # "unavailable"

(***************************************************************************)
(* The numbers above the table, and those of collectVulnStats among the    *)
(* key findings: one counts rows and packages, the other matches and       *)
(* references, though it calls them packages as well.                      *)
(***************************************************************************)
SummaryCounts == [findings |-> Cardinality(rows),
                  unique |-> Cardinality({row.id : row \in rows}),
                  affected |-> Cardinality({row.package : row \in rows})]

VulnStats ==
  LET found == {r \in Ref : matches[r] # <<>>}
  IN  [matches |-> Cardinality(UNION {{r} \X DOMAIN matches[r] : r \in found}),
       unique |-> Cardinality(UNION {{matches[r][i].id : i \in DOMAIN matches[r]} : r \in found}),
       affected |-> Cardinality(found)]

-----------------------------------------------------------------------------
Terminated == pc = "done" /\ UNCHANGED vars

Next ==
  \/ AssignRef
  \/ Assembled
  \/ NotRequested
  \/ \E code \in {"sbom-missing", "grype-not-found", "grype-exec", "grype-parse"} :
       Unavailable(code)
  \/ Matched
  \/ \E ref \in Ref \cup {NoRef}, id \in Vulnerability, severity \in Severity :
       ReadMatch(ref, id, severity)
  \/ Correlated
  \/ \E ref \in Ref : RenderRef(ref)
  \/ Rendered
  \/ Terminated

Spec == Init /\ [][Next]_vars
-----------------------------------------------------------------------------
(***************************************************************************)
(* Every variable holds a value of its type.                               *)
(***************************************************************************)
Match == [id : Vulnerability, severity : Severity]

ReadMatches == [ref : Ref \cup {NoRef}, id : Vulnerability, severity : Severity]

TypeOK ==
  /\ RefTypeOK
  /\ pc \in {"assign", "run", "match", "render", "done"}
  /\ comp \in [Key -> Component \cup {NotListed}]
  /\ read \in Seq(ReadMatches)
  /\ state \in {"", "not-requested", "unavailable", "completed",
                "completed-with-errors"}
  /\ matches \in [Ref -> Seq(Match)]
  /\ coverage \in [Ref -> {"absent", "found", "none", "not-assessable"}]
  /\ pending \subseteq Ref

(***************************************************************************)
(* A result that is "completed" is exact: each match that Grype printed    *)
(* made one listed component count as affected, and no component counts as *)
(* affected or clean that was not looked up.  A BOM without components is  *)
(* the exception: the code does not notice any stray match.                *)
(***************************************************************************)
CompletedIsExact ==
  state = "completed" /\ BOMRefs # {} =>
    /\ \A i \in DOMAIN read : \E k \in Listed : read[i].ref = byKey[k]
    /\ \A k \in Listed :
         CASE \E i \in DOMAIN read : read[i].ref = byKey[k] ->
                coverage[byKey[k]] = "found"
           [] OTHER -> coverage[byKey[k]] =
                         IF IsAssessable(k) THEN "none" ELSE "not-assessable"

(***************************************************************************)
(* What the index says below a package is true of each of its occurrences, *)
(* and agrees with the coverage of its component: the reports derive their *)
(* verdicts anew, and write them once for several occurrences.  Only after *)
(* a scan without errors is a component called free of findings, and HTML  *)
(* and SARIF call a scan performed that was.                               *)
(***************************************************************************)
VerdictsAgree ==
  pc = "done" =>
    /\ \A ref \in BOMRefs : Indexed(ref) =>
         LET lines == Block(ref)
         IN  /\ lines.matches = matches[ref]
             /\ lines.verdict = "found" <=> coverage[ref] = "found"
             /\ lines.verdict = "none" => coverage[ref] = "none" /\ errors = {}
             /\ lines.verdict = "nothing" <=> coverage[ref] = "absent"
    /\ HTMLState = "unavailable" <=> ~ExecutionSuccessful
    /\ (\E r \in Ref : matches[r] # <<>>) \/ (\E r \in Ref : coverage[r] = "none")
         => HTMLState = "assessed"

(***************************************************************************)
(* No report loses, invents or repeats a finding, in whichever order it    *)
(* comes to the references: what Grype printed with a reference is in one  *)
(* row of the table of packages, in one row of HTML, and in SARIF as often *)
(* as it was printed, with a rule for it.  Each number printed is exact,   *)
(* by a rule of its own: the table counts its rows and packages, the key   *)
(* findings count matches and the references that have any.  The two agree *)
(* on the vulnerabilities only; two occurrences of one package are two of  *)
(* the affected in the one place and one in the other.                     *)
(***************************************************************************)
FindingsReported ==
  pc = "done" =>
    LET Reads(ref, m) == {i \in DOMAIN read :
                            /\ read[i].ref = ref /\ read[i].id = m.id
                            /\ read[i].severity = m.severity}
        found == {i \in DOMAIN read : read[i].ref # NoRef}
    IN  /\ {<<row.package, row.id, row.severity>> : row \in rows} =
              {<<Package(read[i].ref), read[i].id, read[i].severity>> : i \in found}
        /\ \A a, b \in rows : a.package = b.package /\ a.id = b.id
                                /\ a.severity = b.severity => a = b
        /\ {<<row.ref, row.id>> : row \in HTMLRows} =
              {<<read[i].ref, read[i].id>> : i \in found}
        /\ \A a, b \in HTMLRows : a.ref = b.ref /\ a.id = b.id => a = b
        /\ DOMAIN rules = {read[i].id : i \in found}
        /\ SummaryCounts.unique = VulnStats.unique
        /\ SummaryCounts.findings <= VulnStats.matches
        /\ VulnStats.matches = Cardinality(found)
        /\ SummaryCounts.affected = Cardinality({Package(read[i].ref) : i \in found})
        /\ VulnStats.affected = Cardinality({read[i].ref : i \in found})
        /\ \A ref \in Ref, m \in Match :
             SARIFResults(ref, m) = Cardinality(Reads(ref, m))

(***************************************************************************)
(* The one row that HTML has for a vulnerability of a component shows the  *)
(* worst of the severities under which Grype reported it, since Run sorts  *)
(* the matches that the report then takes the first of.                    *)
(***************************************************************************)
HtmlShowsWorst ==
  pc = "done" => \A row \in HTMLRows, i \in DOMAIN read :
    read[i].ref = row.ref /\ read[i].id = row.id =>
      severityRank(row.severity) <= severityRank(read[i].severity)
=============================================================================
