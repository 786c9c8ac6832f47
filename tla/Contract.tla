------------------------------ MODULE Contract ------------------------------
(***************************************************************************)
(* The contract a repository declares in OSS-RELEASE.md, as                *)
(* shipshape-core contract/normalize.rs reads it: absent keys take         *)
(* defaults, malformed values are errors, and `floors' refuse combinations *)
(* that a release could not honour, among them combinations with what the  *)
(* rest of the repository says (cargo-dist's configuration, the crates'    *)
(* own `publish' keys).                                                    *)
(*                                                                         *)
(* A YAML mapping is a function on its keys.  Malformed stands for any     *)
(* value its reader refuses; the wording of errors is left out and a       *)
(* problem is a name.  A scalar where a list is expected reads as a list   *)
(* of one, so lists are sequences.  Warnings that stop nothing are left    *)
(* out.                                                                    *)
(***************************************************************************)
EXTENDS Naturals, Sequences, FiniteSets, SequencesExt

CONSTANTS
  Documents,     \* the frontmatters considered, Malformed among them
  Repositories,  \* what else is in the repository, see Repository
  Null,          \* YAML null, Rust None
  Malformed      \* a value that does not parse as what its key wants

VARIABLES
  document,   \* the frontmatter, Null before one is written
  normalized  \* what normalize returned for it: the contract, the problems

contractVars == <<document, normalized>>

EmptyMap == [k \in {} |-> Null]
Declares(m, key) == key \in DOMAIN m
Present(m, key) == Declares(m, key) /\ m[key] # Null
Problem(name, condition) == IF condition THEN {name} ELSE {}
Or(value, default) == IF value = Null THEN default ELSE value

\* TLC's f @@ g and k :> v, as functions that can be reasoned about.
Merged(f, g) == [k \in DOMAIN f \cup DOMAIN g |-> IF k \in DOMAIN f THEN f[k] ELSE g[k]]
Only(key, value) == [k \in {key} |-> value]

-----------------------------------------------------------------------------
(* schema.rs: the closed enums                                              *)

EcosystemOrder == <<"rust", "node", "python", "go", "binary">>
InstallerOrder == <<"shell", "powershell", "homebrew", "msi", "npm">>
Ecosystems == ToSet(EcosystemOrder)
Registries == {"crates.io", "npm", "pypi", "testpypi", "gh-releases", "proxy.golang.org", "homebrew"}
Adapters == {"cargo-publish", "cargo-publish-ci", "cargo-dist", "release-please", "changesets",
             "gh-action-pypi-publish", "twine", "goreleaser", "homebrew-tap", "homebrew-core",
             "npm-publish", "manual"}
Maturities == {"spike", "mvp", "production"}
Badges == {"ci", "registry", "license", "coverage", "scorecard", "discord"}
DocsSites == {"none", "mkdocs", "vitepress", "docusaurus", "sphinx", "mintlify"}

DefaultRegistry ==
  [rust |-> "crates.io", node |-> "npm", python |-> "pypi",
   go |-> "proxy.golang.org", binary |-> "gh-releases"]

DefaultAdapter(ecosystem, layout) ==
  [rust |-> "cargo-publish",
   node |-> IF layout = "monorepo" THEN "changesets" ELSE "release-please",
   python |-> "gh-action-pypi-publish", go |-> "goreleaser", binary |-> "manual"][ecosystem]

\* enum_field!: an absent key takes the default, so does one that does not
\* parse, which is a problem too.
EnumField(m, key, valid, default) ==
  IF Declares(m, key) /\ m[key] \in valid THEN m[key] ELSE default

EnumProblem(m, key, valid) == Problem(key, Declares(m, key) /\ m[key] \notin valid)

\* as_list.
AsList(m, key) ==
  CASE ~Present(m, key) -> <<>>
    [] Present(m, key) /\ m[key] = Malformed -> <<Malformed>>
    [] OTHER -> m[key]

\* The elements of a list that are in S, in their order.
Keep(list, S) ==
  LET kept[i \in 0 .. Len(list)] ==
        IF i = 0 THEN <<>>
        ELSE IF list[i] \in S THEN Append(kept[i - 1], list[i]) ELSE kept[i - 1]
  IN kept[Len(list)]

\* A list of enum members, without repetition, in the canonical order.
Canonically(order, list) == Keep(order, ToSet(list))
ListProblem(m, key, valid) == Problem(key, ~(ToSet(AsList(m, key)) \subseteq valid))

\* A nested mapping: an absent or null one has no keys, nor has a malformed one.
Block(m, key) == IF Present(m, key) /\ m[key] # Malformed THEN m[key] ELSE EmptyMap
BlockProblem(m, key) == Problem(key, Present(m, key) /\ m[key] = Malformed)

-----------------------------------------------------------------------------
(* Forward compatibility: capture_unknown_fields, merge_reserved_extra_fields *)

KnownKeys ==
  {"schema_version", "status", "maturity", "ecosystems", "targets", "distribution",
   "distributions", "versioning", "changelog", "conventional_commits", "release",
   "contribution_provenance", "provenance_level", "dependency_bot", "health_badges",
   "license", "docs_site", "extra_fields", "warnings"}

KnownDistributionKeys ==
  {"package", "adapter", "gh_releases", "installers", "homebrew_tap", "platforms", "extra_fields"}

\* The key 42: or true:, legal in YAML and not in JSON.
NonStringKey == "a key that is not a string"

WellFormed(m) == [k \in {k \in DOMAIN m : k # NonStringKey /\ m[k] # Malformed} |-> m[k]]

\* Seeded fault: the reserved block's contents are dropped.
ExtraFieldsUnmerged(m, known) ==
  WellFormed([k \in DOMAIN m \ known |-> m[k]])

ExtraFields(m, known) ==
  Merged(WellFormed(Block(m, "extra_fields")), WellFormed([k \in DOMAIN m \ known |-> m[k]]))

ExtraProblems(m, known) ==
  LET reserved == Block(m, "extra_fields")
      unknown == DOMAIN m \ known
  IN BlockProblem(m, "extra_fields")
     \cup Problem("key is not a string", NonStringKey \in unknown \cup DOMAIN reserved)
     \cup Problem("value is not JSON", \/ \E k \in DOMAIN reserved : reserved[k] = Malformed
                                       \/ \E k \in unknown : m[k] = Malformed)
     \cup Problem("key is in both places", unknown \cap DOMAIN WellFormed(reserved) # {})

-----------------------------------------------------------------------------
(* targets                                                                  *)

ExpandTargets(ecosystems, layout) ==
  [i \in DOMAIN ecosystems |->
     [ecosystem |-> ecosystems[i], package |-> Null, registry |-> DefaultRegistry[ecosystems[i]],
      adapter |-> DefaultAdapter(ecosystems[i], layout)]]

\* One entry as far as it parses; validate_targets' placeholders for the rest.
ParsedTarget(entry, layout) ==
  LET ecosystem == EnumField(entry, "ecosystem", Ecosystems, Null)
  IN [ecosystem |-> ecosystem,
      package |-> IF Declares(entry, "package") /\ entry.package # Malformed
                  THEN entry.package ELSE Null,
      registry |-> EnumField(entry, "registry", Registries, Null),
      adapter |-> IF Declares(entry, "adapter") THEN EnumField(entry, "adapter", Adapters, Null)
                  ELSE IF ecosystem = Null THEN Null ELSE DefaultAdapter(ecosystem, layout)]

WithPlaceholders(t) ==
  [ecosystem |-> Or(t.ecosystem, "binary"), package |-> t.package,
   registry |-> Or(t.registry, "gh-releases"), adapter |-> Or(t.adapter, "manual")]

\* check_target_adapter_compat.
CompatProblems(t) ==
  Problem("adapter writes no formula",
          /\ t.registry = "homebrew" /\ t.adapter # Null
          /\ t.adapter \notin {"homebrew-tap", "homebrew-core", "cargo-dist"})
  \cup
  Problem("cargo-publish-ci is for crates.io and rust",
          /\ t.registry # Null /\ t.adapter = "cargo-publish-ci"
          /\ t.registry # "crates.io" \/ t.ecosystem \notin {Null, "rust"})

TargetEntries(m) == IF Present(m, "targets") /\ m.targets # Malformed THEN m.targets ELSE <<>>
MappingEntries(list) == Keep(list, ToSet(list) \ {Malformed})

\* An omitted list is expanded, an empty one is honoured.
Targets(m, ecosystems, layout) ==
  IF ~Present(m, "targets") THEN ExpandTargets(ecosystems, layout)
  ELSE LET entries == MappingEntries(TargetEntries(m))
       IN [i \in DOMAIN entries |-> WithPlaceholders(ParsedTarget(entries[i], layout))]

TargetProblems(m, ecosystems, layout) ==
  LET entries == MappingEntries(TargetEntries(m))
      parsed == [i \in DOMAIN entries |-> ParsedTarget(entries[i], layout)]
  IN BlockProblem(m, "targets")
     \cup Problem("target is no map", Malformed \in ToSet(TargetEntries(m)))
     \cup Problem("target does not parse",
                  \E i \in DOMAIN parsed : Null \in {parsed[i].ecosystem, parsed[i].registry,
                                                     parsed[i].adapter})
     \cup Problem("target's ecosystem is not declared",
                  /\ ecosystems # <<>>
                  /\ \E i \in DOMAIN parsed :
                       parsed[i].ecosystem \notin {Null} \cup ToSet(ecosystems))
     \cup UNION {CompatProblems(parsed[i]) : i \in DOMAIN parsed}

-----------------------------------------------------------------------------
(* distribution, distributions                                              *)

DefaultPlatforms == <<"macos", "linux">>
Triples == {"macos", "linux", "windows"}

\* parse_one_distribution.
ParsedDistribution(d) ==
  [package |-> IF Declares(d, "package") /\ d.package # Malformed THEN d.package ELSE Null,
   adapter |-> EnumField(d, "adapter", {"cargo-dist", "goreleaser", "manual"}, "cargo-dist"),
   gh_releases |-> EnumField(d, "gh_releases", BOOLEAN, TRUE),
   installers |-> Canonically(InstallerOrder, AsList(d, "installers")),
   homebrew_tap |-> IF Declares(d, "homebrew_tap") /\ d.homebrew_tap # Malformed
                    THEN d.homebrew_tap ELSE Null,
   platforms |-> IF ~Present(d, "platforms") \/ d.platforms \in {Malformed, <<>>}
                 THEN DefaultPlatforms
                 ELSE Keep(d.platforms, Triples),
   extra_fields |-> ExtraFields(d, KnownDistributionKeys)]

DistributionProblems(d) ==
  Problem("distribution.package", Present(d, "package") /\ d.package = Malformed)
  \cup Problem("distribution.adapter", ~Declares(d, "adapter"))
  \cup EnumProblem(d, "adapter", {"cargo-dist", "goreleaser", "manual"})
  \cup EnumProblem(d, "gh_releases", BOOLEAN)
  \cup ListProblem(d, "installers", ToSet(InstallerOrder))
  \cup BlockProblem(d, "homebrew_tap")
  \cup Problem("installer without a tap",
               LET parsed == ParsedDistribution(d)
               IN "homebrew" \in ToSet(parsed.installers) /\ parsed.homebrew_tap = Null)
  \cup BlockProblem(d, "platforms")
  \cup Problem("platforms", /\ Present(d, "platforms") /\ d.platforms # Malformed
                            /\ d.platforms = <<>> \/ ~(ToSet(d.platforms) \subseteq Triples))
  \cup ExtraProblems(d, KnownDistributionKeys)

\* parse_distributions: the plural key wins over the singular one.
DistributionEntries(m) ==
  CASE Present(m, "distributions") -> AsList(m, "distributions")
    [] ~Present(m, "distributions") /\ Present(m, "distribution") -> <<m.distribution>>
    [] OTHER -> <<>>

Distributions(m) ==
  LET entries == MappingEntries(DistributionEntries(m))
  IN [i \in DOMAIN entries |-> ParsedDistribution(entries[i])]

DistributionsProblems(m) ==
  LET entries == MappingEntries(DistributionEntries(m))
      packages == [i \in DOMAIN entries |-> ParsedDistribution(entries[i]).package]
  IN Problem("both distribution and distributions",
             Present(m, "distribution") /\ Present(m, "distributions"))
     \cup Problem("distribution is no map", Malformed \in ToSet(DistributionEntries(m)))
     \cup Problem("distributions are indistinguishable",
                  /\ Len(packages) >= 2
                  /\ Null \in ToSet(packages) \/ Cardinality(ToSet(packages)) < Len(packages))
     \cup UNION {DistributionProblems(entries[i]) : i \in DOMAIN entries}

-----------------------------------------------------------------------------
(* The other dials                                                          *)

\* parse_versioning: calver carries its pattern, which is split off.
CalverPattern == Only("calver:YYYY.MM", "YYYY.MM")

Versioning(m) ==
  LET declared == IF Declares(m, "versioning") THEN m.versioning ELSE "semver"
  IN CASE declared = Malformed -> [versioning |-> "semver", versioning_pattern |-> Null]
       [] declared \in DOMAIN CalverPattern ->
            [versioning |-> "calver", versioning_pattern |-> CalverPattern[declared]]
       [] OTHER -> [versioning |-> declared, versioning_pattern |-> Null]

VersioningProblems(m) ==
  Problem("versioning", Declares(m, "versioning") /\ m.versioning \in {Malformed, "calver"})

DefaultFragmentDir == "changelog.d"
ChangelogModes == {"curated", "automated", "fragment"}
ChangelogSources == {"issuectl-trailers", "conventional-commits", "manual"}

\* changelog.fragment_dir stays inside the repository (path_inside_repo).
Escaping == "../elsewhere"

Changelog(m) ==
  LET block == Block(m, "changelog")
  IN [mode |-> EnumField(block, "mode", ChangelogModes, "curated"),
      source |-> EnumField(block, "source", ChangelogSources, "manual"),
      fragment_dir |-> IF Declares(block, "fragment_dir") /\ block.fragment_dir # Malformed
                       THEN block.fragment_dir ELSE DefaultFragmentDir]

ChangelogProblems(m) ==
  LET block == Block(m, "changelog")
  IN BlockProblem(m, "changelog")
     \cup EnumProblem(block, "mode", ChangelogModes)
     \cup EnumProblem(block, "source", ChangelogSources)
     \cup BlockProblem(block, "fragment_dir")
     \cup Problem("fragment_dir", Changelog(m).fragment_dir = Escaping)

ReleaseBlock(m) ==
  LET block == Block(m, "release")
  IN [model |-> EnumField(block, "model", {"gated", "auto"}, "gated"),
      layout |-> EnumField(block, "layout", {"single", "monorepo"}, "single"),
      bump_hook |-> IF Present(block, "bump_hook") /\ block.bump_hook # Malformed
                    THEN block.bump_hook ELSE Null]

ReleaseProblems(m) ==
  LET block == Block(m, "release")
  IN BlockProblem(m, "release")
     \cup EnumProblem(block, "model", {"gated", "auto"})
     \cup EnumProblem(block, "layout", {"single", "monorepo"})
     \cup BlockProblem(block, "bump_hook")

DefaultHealthBadges(maturity, targets) ==
  (IF maturity \in {"mvp", "production"} THEN <<"ci">> ELSE <<>>)
  \o (IF targets # <<>> THEN <<"registry">> ELSE <<>>)
  \o <<"license">>

HealthBadges(m, maturity, targets) ==
  IF Declares(m, "health_badges")
  THEN Keep(AsList(m, "health_badges"), Badges)
  ELSE DefaultHealthBadges(maturity, targets)

KnownSchemaVersion == 2
SchemaProblems(m) ==
  Problem("schema_version", /\ Declares(m, "schema_version")
                            /\ m.schema_version \notin 1 .. KnownSchemaVersion)

\* license: Malformed is what spdx_valid refuses.
License(m) == IF Declares(m, "license") THEN m.license ELSE "MIT"

-----------------------------------------------------------------------------
(* build                                                                    *)

\* The contract of frontmatter m; only meaningful without problems.
Built(m) ==
  LET maturity == EnumField(m, "maturity", Maturities, "mvp")
      ecosystems == Canonically(EcosystemOrder, AsList(m, "ecosystems"))
      release == ReleaseBlock(m)
      targets == Targets(m, ecosystems, release.layout)
  IN [schema_version |-> KnownSchemaVersion,
      status |-> EnumField(m, "status", {"draft", "approved"}, "draft"),
      maturity |-> maturity,
      ecosystems |-> ecosystems,
      targets |-> targets,
      distributions |-> Distributions(m),
      changelog |-> Changelog(m),
      conventional_commits |-> EnumField(m, "conventional_commits", BOOLEAN, FALSE),
      release |-> release,
      contribution_provenance |->
        EnumField(m, "contribution_provenance", {"dco", "cla", "none"}, "none"),
      provenance_level |->
        EnumField(m, "provenance_level", {"none", "keyless", "slsa-l3"}, "none"),
      dependency_bot |->
        EnumField(m, "dependency_bot", {"dependabot", "renovate", "none"},
                  IF maturity = "spike" THEN "none" ELSE "dependabot"),
      health_badges |-> HealthBadges(m, maturity, targets),
      license |-> License(m),
      docs_site |-> EnumField(m, "docs_site", DocsSites, "none"),
      extra_fields |-> ExtraFields(m, KnownKeys),
      versioning |-> Versioning(m).versioning,
      versioning_pattern |-> Versioning(m).versioning_pattern]

\* What is wrong with the frontmatter field by field.
FieldProblems(m) ==
  LET c == Built(m)
  IN SchemaProblems(m)
     \cup EnumProblem(m, "status", {"draft", "approved"})
     \cup Problem("maturity", ~Declares(m, "maturity"))
     \cup EnumProblem(m, "maturity", Maturities)
     \cup ListProblem(m, "ecosystems", Ecosystems)
     \cup TargetProblems(m, c.ecosystems, c.release.layout)
     \cup DistributionsProblems(m)
     \cup VersioningProblems(m) \cup ChangelogProblems(m) \cup ReleaseProblems(m)
     \cup EnumProblem(m, "conventional_commits", BOOLEAN)
     \cup EnumProblem(m, "contribution_provenance", {"dco", "cla", "none"})
     \cup EnumProblem(m, "provenance_level", {"none", "keyless", "slsa-l3"})
     \cup EnumProblem(m, "dependency_bot", {"dependabot", "renovate", "none"})
     \cup EnumProblem(m, "docs_site", DocsSites)
     \cup ListProblem(m, "health_badges", Badges)
     \cup Problem("license", c.license = Malformed)
     \cup ExtraProblems(m, KnownKeys)

-----------------------------------------------------------------------------
(* The cross-field floors                                                   *)

HomebrewTargets(c, adapters) ==
  {i \in DOMAIN c.targets : c.targets[i].registry = "homebrew" /\ c.targets[i].adapter \in adapters}

InstallsByHomebrew(c) ==
  \E i \in DOMAIN c.distributions : "homebrew" \in ToSet(c.distributions[i].installers)

\* The first tap a distribution declares.
DeclaredTap(c) ==
  LET tapped == {i \in DOMAIN c.distributions : c.distributions[i].homebrew_tap # Null}
  IN IF tapped = {} THEN Null ELSE c.distributions[Min(tapped)].homebrew_tap

BadgeProblems(c) ==
  LET shown == ToSet(c.health_badges)
  IN Problem("no CI", "ci" \in shown /\ c.maturity = "spike")
     \cup Problem("no registry", "registry" \in shown /\ c.targets = <<>>)
     \cup Problem("no coverage", "coverage" \in shown /\ c.maturity # "production")
     \cup Problem("no scorecard", "scorecard" \in shown /\ c.maturity # "production")

\* check_homebrew_configuration.
HomebrewProblems(c) ==
  Problem("no tap to write or to observe",
          HomebrewTargets(c, {"homebrew-tap", "cargo-dist"}) # {} /\ DeclaredTap(c) = Null)
  \cup Problem("cargo-dist writes no formula",
               HomebrewTargets(c, {"cargo-dist"}) # {} /\ ~InstallsByHomebrew(c))
  \cup Problem("two formula producers",
               HomebrewTargets(c, {"homebrew-tap"}) # {} /\ InstallsByHomebrew(c))

\* check_publisher_conflicts: only for targets that name their package.
PublisherProblems(c) ==
  Problem("two publishers",
    \E i, j \in DOMAIN c.targets :
      /\ c.targets[i].adapter = "cargo-publish-ci" /\ c.targets[j].adapter = "cargo-publish"
      /\ c.targets[i].package # Null /\ c.targets[j].package = c.targets[i].package
      /\ c.targets[j].registry = c.targets[i].registry)

ReleaseFloors(c) ==
  Problem("auto spike", c.release.model = "auto" /\ c.maturity = "spike")
  \cup Problem("slsa-l3", c.provenance_level = "slsa-l3" /\ c.maturity # "production")
  \cup Problem("a registry wants a license", c.targets # <<>> /\ c.license = Malformed)
  \cup Problem("publishes nothing and ships binaries", c.targets = <<>> /\ c.distributions # <<>>)
  \cup Problem("a spike ships binaries", c.distributions # <<>> /\ c.maturity = "spike")

-----------------------------------------------------------------------------
(* The floors that read the repository                                      *)

\* What the normalizer reads beside the frontmatter: dist-workspace.toml (Null
\* when there is none to read), and per Cargo manifest its package and its
\* `publish' policy (facts::cargo_publish_evidence).
Repository ==
  [dist : {Null} \cup [tap : {Null} \cup STRING, publishJob : BOOLEAN],
   evidence : SUBSET [package : STRING, policy : {"allowed", "forbidden", "unknown"}]]

\* check_dist_workspace_homebrew.
DistWorkspaceProblems(c, repo) ==
  LET dist == repo.dist
      delegated == HomebrewTargets(c, {"cargo-dist"}) # {}
  IN IF dist = Null THEN {} ELSE
     Problem("CI writes a formula nobody observes", dist.publishJob /\ ~delegated)
     \cup Problem("CI and the engine write the formula",
                  dist.publishJob /\ HomebrewTargets(c, {"homebrew-tap"}) # {})
     \cup Problem("CI writes another tap",
                  delegated /\ Null \notin {dist.tap, DeclaredTap(c)} /\ dist.tap # DeclaredTap(c))

CrateTargets(c) ==
  {i \in DOMAIN c.targets : /\ c.targets[i].ecosystem = "rust" /\ c.targets[i].registry = "crates.io"
                            /\ c.targets[i].adapter \in {"cargo-publish", "cargo-publish-ci"}}

\* check_cargo_publish_evidence: a target that names no package is contradicted
\* only by every manifest.
EvidenceProblems(c, repo) ==
  Problem("the manifest forbids publishing",
    /\ "rust" \in ToSet(c.ecosystems) /\ repo.evidence # {}
    /\ \E i \in CrateTargets(c) :
         IF c.targets[i].package = Null
         THEN \A e \in repo.evidence : e.policy = "forbidden"
         ELSE \E e \in repo.evidence : e.package = c.targets[i].package /\ e.policy = "forbidden")

Problems(m, repo) ==
  LET c == Built(m)
  IN FieldProblems(m) \cup ReleaseFloors(c) \cup BadgeProblems(c) \cup HomebrewProblems(c)
     \cup PublisherProblems(c) \cup EvidenceProblems(c, repo) \cup DistWorkspaceProblems(c, repo)

\* normalize_str: frontmatter that is missing, unclosed or no mapping reads as
\* an empty mapping, and is a problem.
NormalizedStr(m, repo) ==
  IF m = Malformed
  THEN [contract |-> Built(EmptyMap), problems |-> {"frontmatter"} \cup Problems(EmptyMap, repo)]
  ELSE [contract |-> Built(m), problems |-> Problems(m, repo)]

-----------------------------------------------------------------------------
(* The canonical JSON, which is YAML too                                    *)

CanonicalDistribution(d) ==
  [k \in DOMAIN d \ (IF d.extra_fields = EmptyMap THEN {"extra_fields"} ELSE {}) |-> d[k]]

CanonicalRelease(r) ==
  [k \in DOMAIN r \ (IF r.bump_hook = Null THEN {"bump_hook"} ELSE {}) |-> r[k]]

\* Serialize for Contract: empty optional parts are left out.
Canonical(c) ==
  [[k \in (DOMAIN c \cup {"warnings"}) \ (IF c.extra_fields = EmptyMap THEN {"extra_fields"} ELSE {}) |->
     IF k = "warnings" THEN <<>> ELSE c[k]]
   EXCEPT !.distributions = [i \in DOMAIN c.distributions |-> CanonicalDistribution(c.distributions[i])],
          !.release = CanonicalRelease(c.release)]

-----------------------------------------------------------------------------

(* What a frontmatter may be, as far as it parses as YAML                   *)

IsData(x) == x \notin {Null, Malformed}
Holds(m, key) == Present(m, key) /\ m[key] # Malformed

IsFrontmatter(m) ==
  /\ \A key \in {"targets", "distributions", "health_badges"} :
       Holds(m, key) => m[key] \in Seq(ToSet(m[key]))
  /\ \A d \in ToSet(DistributionEntries(m)) \ {Malformed} :
       Holds(d, "platforms") => d.platforms \in Seq(ToSet(d.platforms))
  /\ \A entry \in ToSet(TargetEntries(m)) \ {Malformed} :
       Holds(entry, "package") => entry.package \in STRING
  /\ Declares(m, "versioning") =>
       m.versioning \in {"semver", "zerover", "calver", Malformed} \cup DOMAIN CalverPattern

\* Null and Malformed are no mapping and no list.
IsStructured(c) ==
  /\ IsData(Canonical(c)) /\ IsData(Canonical(c).distributions)
  /\ IsData(c.ecosystems) /\ IsData(c.targets) /\ IsData(c.health_badges)
  /\ IsData(c.changelog) /\ IsData(CanonicalRelease(c.release)) /\ IsData(c.extra_fields)
  /\ Malformed \notin ToSet(c.targets)
  /\ \A i \in DOMAIN c.distributions :
       LET d == c.distributions[i]
       IN /\ CanonicalDistribution(d) # Malformed
          /\ IsData(d.installers) /\ IsData(d.platforms) /\ IsData(d.extra_fields)

ASSUME ContractAssumption ==
  /\ Null # Malformed
  /\ {Null, Malformed} \cap (Ecosystems \cup Registries \cup Adapters
                            \cup {"semver", DefaultFragmentDir}) = {}
  /\ Repositories \subseteq Repository
  /\ \A m \in {EmptyMap} \cup (Documents \ {Malformed}) : IsFrontmatter(m) /\ IsStructured(Built(m))

-----------------------------------------------------------------------------

ContractInit == document = Null /\ normalized = Null

\* Somebody writes OSS-RELEASE.md.
WriteDocument ==
  /\ document = Null
  /\ document' \in Documents
  /\ UNCHANGED normalized

\* normalize.
Normalize ==
  /\ document # Null /\ normalized = Null
  /\ \E repo \in Repositories :
       LET read == NormalizedStr(document, repo)
       IN normalized' = [contract |-> read.contract, problems |-> read.problems, repository |-> repo]
  /\ UNCHANGED document

ContractNext == WriteDocument \/ Normalize
ContractSpec == ContractInit /\ [][ContractNext]_contractVars

-----------------------------------------------------------------------------
(* Properties                                                               *)

Accepted == normalized # Null /\ normalized.problems = {}
TheContract == normalized.contract
TheRepository == normalized.repository

\* Whatever the problems, the contract that was built has its type: no
\* placeholder is outside the enums a reader of the JSON knows.
ContractTypeOK ==
  normalized # Null =>
    /\ TheRepository \in Repository
    /\ TheContract.maturity \in Maturities /\ TheContract.versioning \in {"semver", "zerover", "calver"}
    /\ ToSet(TheContract.targets) \subseteq
         [ecosystem : Ecosystems, package : {Null} \cup STRING, registry : Registries, adapter : Adapters]
    /\ \A i \in DOMAIN TheContract.distributions : TheContract.distributions[i].platforms # Malformed
    /\ Malformed \notin {TheContract.extra_fields[k] : k \in DOMAIN TheContract.extra_fields}

\* Keys whose values no floor relates to another's.
FreeKeys == {"schema_version", "status", "maturity", "ecosystems", "versioning", "changelog",
             "conventional_commits", "contribution_provenance", "dependency_bot", "docs_site",
             "license", "future", "extra_fields"}

\* The defaults never trip a floor: a frontmatter that leaves the rest out and
\* is well-formed where it speaks is accepted at every maturity, in a
\* repository that says nothing to the contrary.
DefaultsPassTheFloors ==
  (/\ normalized # Null /\ document # Malformed
   /\ DOMAIN document \subseteq FreeKeys /\ FieldProblems(document) = {}
   /\ TheRepository = [dist |-> Null, evidence |-> {}])
    => Accepted

\* An accepted contract leaves the formula one writer: never the engine beside
\* cargo-dist's job, and a job that cargo-dist runs on the tag is one the
\* verify barrier observes, at the tap the job writes.
OneFormulaWriter ==
  LET engineWrites == HomebrewTargets(TheContract, {"homebrew-tap"}) # {}
      ciWrites == TheRepository.dist # Null /\ TheRepository.dist.publishJob
  IN Accepted =>
       /\ ~(engineWrites /\ (ciWrites \/ InstallsByHomebrew(TheContract)))
       /\ ciWrites => /\ HomebrewTargets(TheContract, {"cargo-dist"}) # {}
                      /\ DeclaredTap(TheContract) # Null
                      /\ TheRepository.dist.tap \in {Null, DeclaredTap(TheContract)}

\* An accepted contract that publishes nothing declares nothing that publishes:
\* the coordinator may take its empty list of targets for a tag-only release.
PublishNoneIsNone ==
  (Accepted /\ TheContract.targets = <<>>) =>
    /\ TheContract.distributions = <<>>
    /\ "registry" \notin ToSet(TheContract.health_badges)
    /\ TheRepository.dist # Null => ~TheRepository.dist.publishJob

\* normalize.rs 1508: `A declared crates.io target whose crate forbids
\* publishing can never publish.  Refusing at normalization keeps that failure
\* before the irreversible tag'.
AcceptedCrateMayPublish ==
  Accepted =>
    \A i \in CrateTargets(TheContract), e \in TheRepository.evidence :
      e.package = TheContract.targets[i].package => e.policy # "forbidden"

\* Fed back as frontmatter, the canonical form of an accepted contract is
\* accepted and reads as the same contract; only the key versioning_pattern,
\* which no frontmatter has, comes back as an extra field.  So a contract that
\* has it there is left out: its canonical form has the key in two places and is
\* refused.  And so is a calver contract, whose canonical form splits what the
\* frontmatter writes together.
CanonicalReadsBack ==
  (/\ Accepted /\ TheContract.versioning # "calver"
   /\ "versioning_pattern" \notin DOMAIN TheContract.extra_fields) =>
    LET again == NormalizedStr(Canonical(TheContract), TheRepository)
    IN /\ again.problems = {}
       /\ again.contract =
            [TheContract EXCEPT !.extra_fields = Merged(@, Only("versioning_pattern", Null))]

\* The normalizer refuses neither what it wrote itself nor what was left out, and
\* what it accepts the release can carry out.
ContractInv ==
  /\ ContractTypeOK
  /\ DefaultsPassTheFloors
  /\ OneFormulaWriter
  /\ PublishNoneIsNone
  /\ CanonicalReadsBack
=============================================================================
