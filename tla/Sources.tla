------------------------------- MODULE Sources -------------------------------
(***************************************************************************)
(* Update sources (src/src/updates_sources.rs): which source an app has,   *)
(* what of the information inside an AppImage becomes its configuration,   *)
(* and which file of a release a check picks.                              *)
(***************************************************************************)
EXTENDS Versions

CONSTANTS
  Word,          \* letters of names, hosts, architectures and digests
  PatternLimit,  \* MAX_GLOB_PATTERN_LENGTH
  NameLimit      \* MAX_GLOB_TEXT_LENGTH

ASSUME SourcesAssumption ==
  {"none", "unsaid", "forge"} \subseteq Word /\ {PatternLimit, NameLimit} \subseteq Nat

\* A configuration, by what the checks tell apart.  `at` stands for the keys
\* that name the project or the URL, `host` for where that is, `control` for
\* a URL of a zsync control file, `package` for the GitLab package keys, and
\* `local` and `anyHost` are the two opt-ins.
NoConfig == [manager |-> "none"]

\* Names and patterns, letter by letter.
Letters == Seq(Word)

Config == [manager : STRING, at : Word, host : Word, control : BOOLEAN,
           pattern : Letters, package : BOOLEAN, version : Version,
           local : BOOLEAN, anyHost : BOOLEAN]

\* What a source publishes.  `arch` is what the name of a file says, if it
\* says so; `host` is the one of its URL, and `direct` the one of a link of
\* GitLab's to the AppImage itself, each "none" when there is no such URL.
Asset == [name : Letters, arch : Word \ {"unknown"}, host : Word, direct : Word, digest : Word]
Release == [tag : Version, assets : Seq(Asset)]

Managers == {"static", "github", "gitlab", "codeberg", "forgejo", "ftp"}

(* `config_from_embedded` of each source takes the keys it lists: never an *)
(* opt-in, and no version.  `parse_upd_info` has names for the keys of      *)
(* three sources only: of any other format, and from the information of     *)
(* another source, what names the project or the URL is not taken.          *)
ConfigFromEmbedded(manager, fields) ==
  [manager |-> manager,
   at |-> IF manager = fields.manager /\ manager \in {"static", "github", "ftp"}
          THEN fields.at ELSE "none",
   host |-> fields.host, control |-> fields.control,
   pattern |-> IF manager \in {"static", "ftp"} THEN <<>> ELSE fields.pattern,
   package |-> FALSE, version |-> NoVersion, local |-> FALSE, anyHost |-> FALSE]

(* What is typed for a source may be nothing at all: then it comes from the *)
(* file, if that carries update information.                               *)
EmptyConfig(manager) ==
  [manager |-> manager, at |-> "none", host |-> "public", control |-> FALSE, pattern |-> <<>>,
   package |-> FALSE, version |-> NoVersion, local |-> FALSE, anyHost |-> FALSE]

FillConfig(config, fields) ==
  IF config = EmptyConfig(config.manager) /\ fields # NoConfig
  THEN ConfigFromEmbedded(config.manager, fields) ELSE config

(* `normalize_config` of the GitHub source: a missing file name comes from *)
(* the file, when that is about the same repository.                       *)
NormalizeConfig(config, fields) ==
  IF /\ config.manager = "github" /\ config.pattern = <<>>
     /\ fields # NoConfig /\ fields.manager = "github" /\ fields.at = config.at
  THEN [config EXCEPT !.pattern = fields.pattern] ELSE config

(* `Local::from_config` and the URL guard: a host of the local network     *)
(* needs the opt-in.  GitHub's host is fixed, and public.                  *)
MayContact(config) == config.manager = "github" \/ config.host = "public" \/ config.local

(* `validate_config`.                                                      *)
ValidConfig(config) ==
  /\ config.manager \in Managers
  /\ config.at # "none"
  /\ config.manager = "github" => config.pattern # <<>>
  /\ config.manager \in {"static", "gitlab", "ftp"} => MayContact(config)

-----------------------------------------------------------------------------
(* Matching a file name. *)

(* Mutant: the pattern counts only up to its first star.                   *)
GlobMatchPrefix(pattern, text) ==
  \A k \in DOMAIN pattern :
    (\E j \in 1..k : pattern[j] = "*") \/ (k <= Len(text) /\ pattern[k] \in {"?", text[k]})

(* `glob_match`: one walk through the text that remembers the last star    *)
(* and resumes after it.  A place of the walk is one in the pattern and    *)
(* one in the text, with the last star (0: none) and the text it starts at. *)
GlobPlaces(p, t) ==
  {s \in [i : 1..(p + 1), j : 1..(t + 1), star : 0..p, from : 1..(t + 1)] :
     s.star < s.i /\ s.from <= s.j}

Here(pattern, s, c) == s.i <= Len(pattern) /\ pattern[s.i] = c

Takes(pattern, text, s) == Here(pattern, s, "?") \/ Here(pattern, s, text[s.j])

Stuck(pattern, text, s) ==
  ~Takes(pattern, text, s) /\ ~Here(pattern, s, "*") /\ s.star = 0

\* One turn of the loop: a letter is tried before a star.
GlobTurn(pattern, text, s) ==
  IF Takes(pattern, text, s) THEN [s EXCEPT !.i = @ + 1, !.j = @ + 1]
  ELSE IF Here(pattern, s, "*") THEN [s EXCEPT !.i = @ + 1, !.star = s.i, !.from = s.j]
  ELSE [s EXCEPT !.i = s.star + 1, !.from = @ + 1, !.j = s.from + 1]

GlobWalk(pattern, text) ==
  LET walk[s \in GlobPlaces(Len(pattern), Len(text))] ==
        IF s.j > Len(text) THEN \A k \in s.i..Len(pattern) : pattern[k] = "*"
        ELSE ~Stuck(pattern, text, s) /\ walk[GlobTurn(pattern, text, s)]
  IN  walk

GlobMatch(pattern, text) ==
  GlobWalk(pattern, text)[[i |-> 1, j |-> 1, star |-> 0, from |-> 1]]

(* `asset_matches`: a long pattern, or a long name, matches nothing.       *)
AssetMatches(name, pattern) ==
  IF \E i \in DOMAIN pattern : pattern[i] \in {"*", "?"}
  THEN /\ Len(pattern) <= PatternLimit /\ Len(name) <= NameLimit
       /\ GlobMatch(pattern, name)
  ELSE name = pattern

\* What a pattern means: some way to cut the text into the pieces it asks for.
MeansMatch(pattern, name) ==
  \E cut \in [0..Len(pattern) -> 0..Len(name)] :
    /\ cut[0] = 0 /\ cut[Len(pattern)] = Len(name)
    /\ \A i \in DOMAIN pattern :
         \/ pattern[i] = "*" /\ cut[i] >= cut[i - 1]
         \/ /\ cut[i] = cut[i - 1] + 1
            /\ pattern[i] \in {"?", name[cut[i]]}

\* What the matcher is meant for: no star in the name, and within the limits.
Matchable(config, release) ==
  /\ Len(config.pattern) <= PatternLimit
  /\ \A i \in DOMAIN release.assets :
       LET name == release.assets[i].name
       IN  Len(name) <= NameLimit /\ \A k \in DOMAIN name : name[k] # "*"

-----------------------------------------------------------------------------
(* The check of a source: what it answers from a release. *)

Failed == [ok |-> FALSE]
NoOffer == [ok |-> TRUE, available |-> FALSE]
Found(version, asset) ==
  [ok |-> TRUE, available |-> TRUE, version |-> version, asset |-> asset]

(* `forge_asset_host_allowed` and its fixed GitHub form.                   *)
HostAllowed(config, host) ==
  host = "forge" \/ (host # "none" /\ config.anyHost /\ config.manager # "github")

\* The first of some places of a list.
FirstOf(list, places) == list[CHOOSE i \in places : \A j \in places : i <= j]

\* The places of the files that match and may be fetched.
Matching(config, release) ==
  {i \in DOMAIN release.assets :
     /\ config.pattern = <<>> \/ AssetMatches(release.assets[i].name, config.pattern)
     /\ HostAllowed(config, release.assets[i].host)}

(* `pick_for_architecture`: those built for it, else those that do not     *)
(* say, never one built for another; the first is taken.  An app whose      *)
(* architecture is unknown takes the first of all.                         *)
PickForArchitecture(release, places, architecture) ==
  LET built(arch) == {i \in places : release.assets[i].arch = arch}
  IN  IF architecture = "unknown" THEN places
      ELSE IF built(architecture) # {} THEN built(architecture) ELSE built("unsaid")

GithubCheck(config, app, release) ==
  LET fitting == PickForArchitecture(release, Matching(config, release), app.arch)
  IN  IF fitting = {} THEN Failed
      ELSE IF release.tag = NoVersion THEN NoOffer
      ELSE Found(release.tag, FirstOf(release.assets, fitting))

PackageFile ==
  [name |-> <<>>, arch |-> "unsaid", host |-> "forge", direct |-> "none", digest |-> "none"]

(* GitLab compares names and takes no pattern; then the direct link of any *)
(* file, then a package, which has no version.                             *)
GitlabCheck(config, app, release) ==
  LET named == {i \in DOMAIN release.assets :
                  /\ config.pattern \in {<<>>, release.assets[i].name}
                  /\ HostAllowed(config, release.assets[i].host)}
      linked == {i \in DOMAIN release.assets : HostAllowed(config, release.assets[i].direct)}
  IN  IF named # {} THEN Found(release.tag, FirstOf(release.assets, named))
      ELSE IF linked # {}
           THEN Found(release.tag, [FirstOf(release.assets, linked) EXCEPT !.digest = "none"])
      ELSE IF config.package THEN Found(NoVersion, PackageFile)
      ELSE Failed

(* Codeberg and Forgejo: the first file that matches, without a digest.    *)
ForgejoCheck(config, app, release) ==
  LET matching == Matching(config, release)
  IN  IF matching = {} THEN Failed
      ELSE Found(release.tag, [FirstOf(release.assets, matching) EXCEPT !.digest = "none"])

(* A control file names the version; a plain file has the one in the       *)
(* configuration.  Versions are compared as written.                       *)
FileCheck(config, app, release) ==
  LET version == IF config.control /\ release.tag # NoVersion THEN release.tag ELSE config.version
  IN  IF release.assets = <<>> THEN Failed
      ELSE IF version = NoVersion \/ version = app.version THEN NoOffer
      ELSE Found(version, [release.assets[1] EXCEPT !.digest = "none"])

(* The configuration a check works with, `effective_source`.               *)
EffectiveSource(app) ==
  IF app.config # NoConfig THEN app.config
  ELSE IF app.fields # NoConfig /\ app.fields.manager \in Managers
       THEN ConfigFromEmbedded(app.fields.manager, app.fields)
  ELSE NoConfig

(* `UpdateService::check` of an answer that came.                          *)
Check(app, release) ==
  LET config == EffectiveSource(app)
  IN  IF config = NoConfig \/ ~ValidConfig(config) \/ ~MayContact(config) THEN Failed
      ELSE CASE config.manager = "github" -> GithubCheck(config, app, release)
             [] config.manager = "gitlab" -> GitlabCheck(config, app, release)
             [] config.manager \in {"codeberg", "forgejo"} -> ForgejoCheck(config, app, release)
             [] config.manager \in {"static", "ftp"} -> FileCheck(config, app, release)

(* `offers_update`: a newer version, or a rebuilt file of the same version *)
(* when the source publishes a digest and the installed file has another.  *)
OffersUpdate(app, checked) ==
  /\ checked.ok /\ checked.available /\ checked.version # NoVersion
  /\ \/ IsUpdate(app.version, checked.version)
     \/ /\ Same(app.version, checked.version)
        /\ checked.asset.digest \notin {"none", app.sha}
=============================================================================
