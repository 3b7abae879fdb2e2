------------------------------- MODULE MCUpdates -------------------------------
(* Two apps: one may get its source from its file or from the user, the other  *)
(* has a plain file to follow.                                                 *)
EXTENDS Updates

CONSTANTS a1, a2

ConfigOf(manager, pattern) ==
  [manager |-> manager, at |-> "project", host |-> "public", control |-> FALSE,
   pattern |-> pattern, package |-> FALSE, version |-> NoVersion,
   local |-> FALSE, anyHost |-> FALSE]

MCWord == STRING
MCApp == <<a1, a2>>
MCNoisy == {a2}

\* Names are the parts a pattern can tell apart: "m-x.img" is <<"m", "x", "i">>.
Name(arch) == <<"m", arch, "i">>
AssetOf(name, arch, host, digest) ==
  [name |-> name, arch |-> arch, host |-> host, direct |-> "none", digest |-> digest]

StarName == <<"m", "*", "i">>

FileForms ==
  {ConfigOf("github", StarName),
   [ConfigOf("github", <<"*", "i">>) EXCEPT !.anyHost = TRUE],
   ConfigOf("gitlab", Name("x")),
   NoConfig}

MCFiles ==
  a1 :> FileForms
  @@ a2 :> {[ConfigOf("static", <<>>) EXCEPT !.control = TRUE],
            [ConfigOf("static", <<>>) EXCEPT !.host = "lan", !.local = TRUE, !.control = TRUE]}

MCBuilt == a1 :> {"x86", "unknown"} @@ a2 :> {"x86"}

MCTyped ==
  {ConfigOf("github", <<>>), EmptyConfig("github"), EmptyConfig("static"),
   [ConfigOf("forgejo", StarName) EXCEPT !.host = "lan", !.local = TRUE],
   [ConfigOf("codeberg", <<"?", "*">>) EXCEPT !.anyHost = TRUE],
   [ConfigOf("gitlab", Name("x")) EXCEPT !.anyHost = TRUE, !.package = TRUE],
   [ConfigOf("ftp", <<>>) EXCEPT !.version = Number(<<3>>, 0)]}

ReleaseOf(tag, assets) == [tag |-> tag, assets |-> assets]

Published ==
  {ReleaseOf(Tagged(Number(<<1, 1>>, 0)),
           <<AssetOf(Name("a"), "arm", "forge", "new"), AssetOf(<<"m", "i">>, "unsaid", "forge", "new"),
             AssetOf(Append(Name("x"), "sig"), "x86", "forge", "none"),
             AssetOf(Name("x"), "x86", "forge", "new")>>),
   ReleaseOf(Number(<<1>>, 1), <<AssetOf(<<"m", "x", "z", "i", "i">>, "x86", "forge", "none")>>),
   ReleaseOf(Number(<<1>>, 0), <<[AssetOf(Name("a"), "arm", "forge", "built") EXCEPT !.direct = "other"],
                               AssetOf(Name("x"), "x86", "other", "built"),
                               AssetOf(<<"n", "i">>, "unsaid", "forge", "built")>>),
   ReleaseOf(Label(1), <<AssetOf(Name("a"), "arm", "forge", "none")>>),
   ReleaseOf(NoVersion, <<AssetOf(<<"m", "i">>, "unsaid", "forge", "old")>>)}

MCReleases ==
  a1 :> Published
  @@ a2 :> {r \in Published :
              r.tag \in {Label(1), Number(<<1>>, 1), Tagged(Number(<<1, 1>>, 0))}}
=============================================================================
