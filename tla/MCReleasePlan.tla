--------------------------- MODULE MCReleasePlan ---------------------------
(* Workspaces, contracts about them and facts that change between plan and   *)
(* cut.                                                                     *)
EXTENDS ReleasePlan, TLC

Rust(package, adapter) ==
  [ecosystem |-> "rust", package |-> package, registry |-> "crates.io", adapter |-> adapter]
Channel(registry) == [ecosystem |-> "rust", package |-> "app", registry |-> registry, adapter |-> "cargo-dist"]
Formula(adapter) == [ecosystem |-> "rust", package |-> "app", registry |-> "homebrew", adapter |-> adapter]

Frontmatter(targets) ==
  [status |-> "approved", maturity |-> "mvp", ecosystems |-> <<"rust">>, targets |-> targets]

Shipping(d) == [adapter |-> "cargo-dist"] @@ d

PlanDocuments ==
  {Frontmatter(<<>>),
   Frontmatter(<<Rust("app", "cargo-publish")>>),
   Frontmatter(<<Rust("app", "cargo-publish"), Rust("lib", "cargo-publish")>>) @@ [license |-> "ISC"],
   Frontmatter(<<Rust(Null, "cargo-publish")>>) @@ [changelog |-> [source |-> "issuectl-trailers"]],
   Frontmatter(<<Rust(Null, "cargo-publish"), Rust("app", "cargo-publish-ci")>>),
   Frontmatter(<<Rust("app", "cargo-publish"), Rust("base", "cargo-publish-ci")>>),
   Frontmatter(<<Rust("app", "cargo-publish"), Rust("app", "cargo-publish")>>),
   Frontmatter(<<Channel("gh-releases"), Rust("app", "cargo-publish"), Formula("homebrew-tap"),
                 Formula("homebrew-core")>>)
     @@ [distribution |-> Shipping([homebrew_tap |-> "us/tap", installers |-> <<"shell">>])],
   [Frontmatter(<<Rust("app", "cargo-publish")>>) EXCEPT !.status = "draft"]}

Older == <<0, 1, 0>>
Newer == <<0, 2, 0>>
Package(name, version) == [ecosystem |-> "rust", package |-> name, version |-> version, root |-> FALSE]
Member(name, deps) == [package |-> name, deps |-> deps]
Pins(owner, dep, reqs) == [owner |-> owner, dep |-> dep, reqs |-> reqs]

FactsOf(packages, workspace, description, tagged) ==
  [packages |-> packages, workspace |-> workspace, description |-> description,
   tags |-> {Older}, publishesOnTag |-> tagged]

\* app on lib on base, declared in the opposite order, with xtask unpublished.
Layered(pins) ==
  [members |-> <<Member("app", {"lib"}), Member("lib", {"base"}), Member("base", {}), Member("extra", {})>>,
   pins |-> pins]
Circular ==
  [members |-> <<Member("app", {"lib"}), Member("lib", {"base", "extra"}), Member("base", {"lib"}), Member("extra", {})>>,
   pins |-> {}]

Three(v, u) == <<Package("app", v), Package("lib", v), Package("base", u), Package("extra", v)>>

PlanFacts ==
  {FactsOf(<<Package("app", Older)>>, Null, "short", FALSE),
   FactsOf(<<Package("app", Older)>>, Null, "longer", FALSE),
   FactsOf(<<Package("tool", Older)>>, Null, "short", FALSE),
   FactsOf(Three(Older, Older), Layered({Pins("app", "lib", {Exact(Older), Null}), Pins("xtask", "lib", {Exact(Older)})}), "short", FALSE),
   FactsOf(Three(Older, Older), Layered({Pins("workspace", "base", {Exact(Newer)})}), "short", FALSE),
   FactsOf(Three(Older, Older), Layered({Pins("app", "lib", {Exact(Older), [caret |-> Older]})}), "short", TRUE),
   FactsOf(Three(Older, Null), Layered({}), "short", TRUE),
   FactsOf(Three(Newer, Older), Circular, "short", FALSE),
   FactsOf(Three(Newer, Newer), Circular, "short", FALSE)}

PlanSources ==
  {[document |-> d, repository |-> [dist |-> Null, evidence |-> {}], facts |-> f] :
     d \in PlanDocuments, f \in PlanFacts}
=============================================================================
